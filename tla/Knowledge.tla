------------------------------- MODULE Knowledge -------------------------------
(***************************************************************************)
(* One knowledge document: the calls that create, replace, patch and       *)
(* delete its directory of markdown files, and the cascade handlers that   *)
(* carry index.md into SQLite and a topic file into LanceDB and SQLite.    *)
(*                                                                         *)
(* The cascade knows a file by its path, a row has the id of its document  *)
(* or topic, and a directory is moved: to a hidden name (which the cascade *)
(* indexes like any other) during a replacement, to another category by a  *)
(* patch.                                                                  *)
(*                                                                         *)
(* Abstractions:                                                           *)
(*  - A directory is its category, the slug of its title and how often it  *)
(*    was made a backup; the document has one topic, and what the          *)
(*    extractor made of one upload is a number, its version.               *)
(*  - Calls on the document come one after the other, as from one client:  *)
(*    the code takes no lock, and two replacements at once can remove      *)
(*    each other's backup.                                                 *)
(*  - A file is written, and a directory moved or removed, in one step.    *)
(*  - The cascade is the set of paths that have changed since they were    *)
(*    last claimed.  A batch takes them all and reads its files when it    *)
(*    starts; a handler that fails has its path claimed again.             *)
(***************************************************************************)
EXTENDS Integers

CONSTANTS
    Cats,
    Slugs,          \* titles, and the directory names made of them
    Calls,          \* identities of calls, each used once
    None,
    MaxVersion,
    MaxDepth,       \* bound: backups of backups
    MaxFaults       \* bound: failing steps and crashes

ASSUME KnowledgeAssumption ==
    MaxVersion \in Nat \ {0} /\ MaxDepth \in Nat /\ MaxFaults \in Nat

VARIABLES
    dirs,       \* the directories of the document
    pending,    \* paths that the cascade has yet to handle
    work,       \* handlers at work, and what they have read
    docRow,     \* knowledge_documents
    lance,      \* the topic's row in LanceDB
    sql,        \* the topic's row in knowledge_topics
    call,       \* the calls
    last,       \* the newest version
    kept,       \* a call has answered that the document is there
    mishaps,    \* what has happened that the code does not guard against
    faults

vars == <<dirs, pending, work, docRow, lance, sql, call, last, kept, mishaps, faults>>
rows == <<docRow, lance, sql>>

Versions == 0 .. MaxVersion
Parts == {"index", "topic"}
Dirs  == [cat : Cats, slug : Slugs, depth : 0 .. MaxDepth]
Paths == Dirs \X Parts

IndexFile == [title : Slugs, cat : Cats, v : Versions]
TopicFile == [cat : Cats, v : Versions]
DocRows   == [title : Slugs, cat : Cats, v : Versions, dir : Dirs]
TopicRows == [cat : Cats, v : Versions, dir : Dirs]

ASSUME NoneAssumption ==
    None \notin Dirs \cup IndexFile \cup TopicFile \cup DocRows \cup TopicRows

NoDir    == [there |-> FALSE, index |-> None, topic |-> None, inner |-> FALSE]
EmptyDir == [NoDir EXCEPT !.there = TRUE]
NoCall   == [kind |-> "none", pc |-> "none", title |-> None, cat |-> None, v |-> 0,
             base |-> None, backup |-> None]

Whole(d) == dirs[d].index # None /\ dirs[d].topic # None
File(p) == dirs[p[1]][p[2]]

Open(c) == call[c].pc \notin {"none", "done"}
At(c, kind, pc) == call[c].kind = kind /\ call[c].pc = pc
Goto(c, pc) == call' = [call EXCEPT ![c].pc = pc]
Mishap(m, happened) == mishaps' = IF happened THEN mishaps \cup {m} ELSE mishaps

\* Every change of a file is seen by the watcher or the next sweep.
Disk(new) ==
    /\ dirs' = new
    /\ pending' = pending \cup {p \in Paths : new[p[1]][p[2]] # File(p)}

\* shutil.move puts the source inside a destination that exists.
Moved(src, dst) ==
    IF dirs[dst].there
    THEN [dirs EXCEPT ![src] = NoDir, ![dst].inner = @ \/ Whole(src) \/ dirs[src].inner]
    ELSE [dirs EXCEPT ![src] = NoDir, ![dst] = dirs[src]]

--------------------------------------------------------------------------------
(* Calls.  The row tells a call where the directory is; it may lag behind, *)
(* or there may be others.                                              *)

RowIsStale ==
    \/ docRow = None
    \/ \E d \in Dirs : d # docRow.dir /\ dirs[d].there
    \/ dirs[docRow.dir].index # [title |-> docRow.title, cat |-> docRow.cat, v |-> docRow.v]

Begin(c, new) ==
    /\ call[c] = NoCall /\ \A d \in Calls : ~Open(d)
    /\ call' = [call EXCEPT ![c] = new]
    /\ Mishap("stale", RowIsStale /\ new.kind # "create")
    /\ UNCHANGED <<dirs, pending, work, rows, kept, faults>>

\* The id is new, so there is nothing to remove and nobody else who knows it.
Create(c, title, cat) ==
    /\ last = 0
    /\ Begin(c, [NoCall EXCEPT !.kind = "create", !.pc = "extract",
                               !.title = title, !.cat = cat, !.v = 1])
    /\ last' = 1

\* The upload may give the topics that it gave before, or others.
Replace(c, title, cat, v) ==
    /\ docRow # None /\ docRow.dir.depth < MaxDepth
    /\ v \in 1 .. last + 1 /\ v <= MaxVersion
    /\ Begin(c, [NoCall EXCEPT !.kind = "replace", !.pc = "backup",
                               !.title = title, !.cat = cat, !.v = v])
    /\ last' = IF v > last THEN v ELSE last

\* _resolve_current_doc: the row, or the first index.md on disk, whose summary it leaves out.
Current(base, v, title, cat) ==
    \/ /\ docRow # None
       /\ base = docRow.dir /\ v = docRow.v /\ title = docRow.title /\ cat = docRow.cat
    \/ /\ docRow = None /\ dirs[base].index # None
       /\ v = 0 /\ title = dirs[base].index.title /\ cat = dirs[base].index.cat

Patch(c, title, cat) ==
    /\ \E base \in Dirs, v \in Versions, oldTitle \in Slugs, oldCat \in Cats :
         /\ Current(base, v, oldTitle, oldCat)
         /\ title # oldTitle \/ cat # oldCat
         /\ Begin(c, [NoCall EXCEPT !.kind = IF cat # oldCat THEN "move" ELSE "retitle",
                                    !.pc = "rewrite", !.title = title, !.cat = cat, !.v = v,
                                    !.base = base])
    /\ UNCHANGED last

Delete(c) ==
    /\ docRow # None
    /\ Begin(c, [NoCall EXCEPT !.kind = "delete", !.pc = "remove", !.base = docRow.dir])
    /\ UNCHANGED last

--------------------------------------------------------------------------------
(* Replacement. *)

\* Mutant: the directory is removed instead of moved aside.
BackupRemoves(c) ==
    /\ At(c, "replace", "backup")
    /\ IF docRow # None /\ dirs[docRow.dir].there
       THEN Disk([dirs EXCEPT ![docRow.dir] = NoDir])
       ELSE UNCHANGED <<dirs, pending>>
    /\ Goto(c, "extract")
    /\ UNCHANGED <<work, rows, last, kept, mishaps, faults>>

\* The row is read a second time.
BackupDir(c) ==
    /\ At(c, "replace", "backup") /\ (docRow # None => docRow.dir.depth < MaxDepth)
    /\ IF docRow # None /\ dirs[docRow.dir].there
       THEN LET dir == docRow.dir
                dst == [dir EXCEPT !.depth = @ + 1] IN
              /\ Disk(Moved(dir, dst))
              /\ mishaps' = mishaps \cup (IF RowIsStale THEN {"stale"} ELSE {})
                                  \cup (IF dirs[dst].there THEN {"nested"} ELSE {})
              /\ call' = [call EXCEPT ![c] = [@ EXCEPT !.pc = "extract", !.base = dir, !.backup = dst]]
       ELSE /\ Goto(c, "extract")
            /\ Mishap("stale", RowIsStale)
            /\ UNCHANGED <<dirs, pending>>
    /\ UNCHANGED <<work, rows, last, kept, faults>>

\* KnowledgeWriter.write: remove, recreate, index.md, the topics.
Target(c) == [cat |-> call[c].cat, slug |-> call[c].title, depth |-> 0]

ClearDir(c) ==
    /\ call[c].pc = "extract"
    /\ Disk([dirs EXCEPT ![Target(c)] = EmptyDir])
    /\ Goto(c, "index")
    /\ UNCHANGED <<work, rows, last, kept, mishaps, faults>>

WriteIndex(c) ==
    /\ call[c].pc = "index"
    /\ LET file == [title |-> call[c].title, cat |-> call[c].cat, v |-> call[c].v] IN
         Disk([dirs EXCEPT ![Target(c)] = [@ EXCEPT !.there = TRUE, !.index = file]])
    /\ Goto(c, "topic")
    /\ UNCHANGED <<work, rows, last, kept, mishaps, faults>>

WriteTopic(c) ==
    /\ call[c].pc = "topic"
    /\ LET file == [cat |-> call[c].cat, v |-> call[c].v] IN
         Disk([dirs EXCEPT ![Target(c)] = [@ EXCEPT !.there = TRUE, !.topic = file]])
    /\ Goto(c, "original")
    /\ UNCHANGED <<work, rows, last, kept, mishaps, faults>>

\* The uploaded file is kept, the backup dropped, the call answered.
Answer(c) ==
    /\ call[c].pc = "original"
    /\ IF call[c].backup # None
       THEN Disk([dirs EXCEPT ![call[c].backup] = NoDir])
       ELSE UNCHANGED <<dirs, pending>>
    /\ Goto(c, "done")
    /\ kept' = TRUE
    /\ UNCHANGED <<work, rows, last, mishaps, faults>>

\* Extraction finds nothing, or a write fails: the last of them is that of the original.
Fails(c) ==
    /\ faults < MaxFaults
    /\ call[c].pc \in {"extract", "index", "topic", "original"}
    /\ Goto(c, IF call[c].backup # None THEN "restore" ELSE "done")
    /\ faults' = faults + 1
    /\ UNCHANGED <<dirs, pending, work, rows, last, kept, mishaps>>

\* Every other step, the move of the backup and its way back among them, ends the call
\* where it is when it fails.
Aborts(c) ==
    /\ faults < MaxFaults
    /\ call[c].pc \in {"backup", "restore", "original", "rewrite", "move", "retag", "row", "remove"}
    /\ Goto(c, "done")
    /\ faults' = faults + 1
    /\ UNCHANGED <<dirs, pending, work, rows, last, kept, mishaps>>

RestoreBackup(c) ==
    /\ call[c].pc = "restore"
    /\ IF dirs[call[c].backup].there
       THEN /\ Disk(Moved(call[c].backup, call[c].base))
            /\ Mishap("nested", dirs[call[c].base].there)
       ELSE UNCHANGED <<dirs, pending, mishaps>>
    /\ Goto(c, "done")
    /\ UNCHANGED <<work, rows, last, kept, faults>>

--------------------------------------------------------------------------------
(* Patch and delete. *)

\* A patch ends with an error when the row's index.md is not there.
Rewrite(c) ==
    /\ call[c].pc = "rewrite"
    /\ IF dirs[call[c].base].index # None
       THEN /\ Disk([dirs EXCEPT ![call[c].base].index =
                         [@ EXCEPT !.title = call[c].title, !.cat = call[c].cat]])
            /\ Goto(c, IF call[c].kind = "move" THEN "move" ELSE "row")
       ELSE /\ Goto(c, "done")
            /\ UNCHANGED <<dirs, pending>>
    /\ UNCHANGED <<work, rows, last, kept, mishaps, faults>>

MoveDoc(c) ==
    /\ call[c].pc = "move"
    /\ LET src == call[c].base
           dst == [src EXCEPT !.cat = call[c].cat] IN
         IF dirs[src].there /\ src # dst
         THEN /\ Disk(Moved(src, dst))
              /\ Mishap("nested", dirs[dst].there)
              /\ call' = [call EXCEPT ![c] = [@ EXCEPT !.pc = "retag", !.base = dst]]
         ELSE /\ Goto(c, "done")
              /\ UNCHANGED <<dirs, pending, mishaps>>
    /\ UNCHANGED <<work, rows, last, kept, faults>>

RetagTopics(c) ==
    /\ call[c].pc = "retag"
    /\ IF dirs[call[c].base].there
       THEN /\ Disk([dirs EXCEPT ![call[c].base].topic =
                         IF @ = None THEN None ELSE [@ EXCEPT !.cat = call[c].cat]])
            /\ Goto(c, "row")
       ELSE /\ Goto(c, "done")
            /\ UNCHANGED <<dirs, pending>>
    /\ UNCHANGED <<work, rows, last, kept, mishaps, faults>>

\* The row is written beside the cascade, with the summary read at the start.
WriteRow(c) ==
    /\ call[c].pc = "row"
    /\ docRow' = [title |-> call[c].title, cat |-> call[c].cat, v |-> call[c].v,
                  dir |-> call[c].base]
    /\ Goto(c, "done")
    /\ UNCHANGED <<dirs, pending, work, lance, sql, last, kept, mishaps, faults>>

\* Mutant: the files stay.
RemoveDirOnly(c) ==
    /\ call[c].pc = "remove"
    /\ dirs' = [dirs EXCEPT ![call[c].base].there = FALSE]
    /\ Goto(c, "done")
    /\ UNCHANGED <<pending, work, rows, last, kept, mishaps, faults>>

RemoveDir(c) ==
    /\ call[c].pc = "remove"
    /\ Disk([dirs EXCEPT ![call[c].base] = NoDir])
    /\ kept' = (kept /\ ~dirs[call[c].base].there)
    /\ Goto(c, "done")
    /\ UNCHANGED <<work, rows, last, mishaps, faults>>

--------------------------------------------------------------------------------
(* Handlers.  Those of one batch run side by side, and the next batch waits for them. *)

Working(p, pc, file) == [path |-> p, pc |-> pc, file |-> file]
ReplaceWork(w, pc) == work' = (work \ {w}) \cup {[w EXCEPT !.pc = pc]}

ClaimBatch ==
    /\ work = {} /\ pending # {}
    /\ pending' = {}
    /\ work' = {Working(p, IF File(p) = None THEN "gone" ELSE "read", File(p)) : p \in pending}
    /\ Mishap("race", \E p, q \in pending :
                          p # q /\ p[2] = q[2] /\ File(p) # None /\ File(q) # None)
    /\ UNCHANGED <<dirs, rows, call, last, kept, faults>>

\* A row of a file that is there is taken over by another path: a backup's, say.
Usurps(w, row) ==
    row # None /\ row.dir # w.path[1] /\ File(<<row.dir, w.path[2]>>) # None

HandleIndex(w) ==
    /\ w.path[2] = "index"
    /\ \/ /\ w.pc = "read"
          /\ docRow' = [title |-> w.file.title, cat |-> w.file.cat,
                        v |-> w.file.v, dir |-> w.path[1]]
          /\ Mishap("usurp", Usurps(w, docRow))
       \/ /\ w.pc = "gone"
          /\ docRow' = IF docRow # None /\ docRow.dir = w.path[1] THEN None ELSE docRow
          /\ UNCHANGED mishaps
    /\ work' = work \ {w}
    /\ UNCHANGED <<dirs, pending, lance, sql, call, last, kept, faults>>

InStore(row, dir) == row # None /\ row.dir = dir
TopicRow(w) == [cat |-> w.file.cat, v |-> w.file.v, dir |-> w.path[1]]

\* The digest of the row decides; the row may be that of another path.
SameDigest(w) == lance # None /\ lance.cat = w.file.cat /\ lance.v = w.file.v

CompareDigest(w) ==
    /\ w.path[2] = "topic" /\ w.pc = "read"
    /\ IF SameDigest(w)
       THEN /\ work' = work \ {w}
            /\ Mishap("skip", lance.dir # w.path[1])
       ELSE ReplaceWork(w, "lance") /\ UNCHANGED mishaps
    /\ UNCHANGED <<dirs, pending, rows, call, last, kept, faults>>

UpsertLance(w) ==
    /\ w.pc = "lance"
    /\ lance' = TopicRow(w)
    /\ Mishap("usurp", Usurps(w, lance))
    /\ ReplaceWork(w, "sql")
    /\ UNCHANGED <<dirs, pending, docRow, sql, call, last, kept, faults>>

\* Mutant: the upsert leaves md_path as it was.
UpsertSqlKeepsPath(w) ==
    /\ w.pc = "sql"
    /\ sql' = IF sql = None THEN TopicRow(w) ELSE [TopicRow(w) EXCEPT !.dir = sql.dir]
    /\ work' = work \ {w}
    /\ UNCHANGED <<dirs, pending, docRow, lance, call, last, kept, mishaps, faults>>

UpsertSql(w) ==
    /\ w.pc = "sql"
    /\ sql' = TopicRow(w)
    /\ work' = work \ {w}
    /\ UNCHANGED <<dirs, pending, docRow, lance, call, last, kept, mishaps, faults>>

\* Mutant: the row of the other store is forgotten.
DeleteLanceOnly(w) ==
    /\ w.path[2] = "topic" /\ w.pc = "gone"
    /\ lance' = IF InStore(lance, w.path[1]) THEN None ELSE lance
    /\ work' = work \ {w}
    /\ UNCHANGED <<dirs, pending, docRow, sql, call, last, kept, mishaps, faults>>

DeleteLance(w) ==
    /\ w.path[2] = "topic" /\ w.pc = "gone"
    /\ lance' = IF InStore(lance, w.path[1]) THEN None ELSE lance
    /\ ReplaceWork(w, "gone from lance")
    /\ UNCHANGED <<dirs, pending, docRow, sql, call, last, kept, mishaps, faults>>

DeleteSql(w) ==
    /\ w.pc = "gone from lance"
    /\ sql' = IF InStore(sql, w.path[1]) THEN None ELSE sql
    /\ work' = work \ {w}
    /\ UNCHANGED <<dirs, pending, docRow, lance, call, last, kept, mishaps, faults>>

\* An attempt that fails between its two stores is made again, from the start.
HandlerFails(w) ==
    /\ faults < MaxFaults /\ w.pc \in {"sql", "gone from lance"}
    /\ work' = work \ {w}
    /\ pending' = pending \cup {w.path}
    /\ Mishap("half", w.pc = "sql")
    /\ faults' = faults + 1
    /\ UNCHANGED <<dirs, rows, call, last, kept>>

\* Calls end where they are; claimed rows go back to the queue.
Crash ==
    /\ faults < MaxFaults
    /\ \E c \in Calls : Open(c)
    /\ call' = [c \in Calls |-> IF Open(c) THEN [call[c] EXCEPT !.pc = "done"] ELSE call[c]]
    /\ work' = {}
    /\ pending' = pending \cup {w.path : w \in work}
    /\ Mishap("half", \E w \in work : w.pc = "sql")
    /\ faults' = faults + 1
    /\ UNCHANGED <<dirs, rows, last, kept>>

--------------------------------------------------------------------------------
Init ==
    /\ dirs = [d \in Dirs |-> NoDir] /\ pending = {} /\ work = {}
    /\ docRow = None /\ lance = None /\ sql = None
    /\ call = [c \in Calls |-> NoCall]
    /\ last = 0 /\ kept = FALSE /\ mishaps = {} /\ faults = 0

Ask(c) ==
    \/ Delete(c)
    \/ \E title \in Slugs, cat \in Cats :
         \/ Create(c, title, cat) \/ Patch(c, title, cat)
         \/ \E v \in Versions : Replace(c, title, cat, v)

Serve(c) ==
    \/ BackupDir(c) \/ ClearDir(c) \/ WriteIndex(c) \/ WriteTopic(c) \/ Answer(c)
    \/ Fails(c) \/ Aborts(c) \/ RestoreBackup(c)
    \/ Rewrite(c) \/ MoveDoc(c) \/ RetagTopics(c) \/ WriteRow(c) \/ RemoveDir(c)

Handle(w) ==
    \/ HandleIndex(w) \/ CompareDigest(w) \/ UpsertLance(w) \/ UpsertSql(w)
    \/ DeleteLance(w) \/ DeleteSql(w) \/ HandlerFails(w)

Next ==
    \/ \E c \in Calls : Ask(c) \/ Serve(c)
    \/ ClaimBatch
    \/ \E w \in work : Handle(w)
    \/ Crash

Spec == Init /\ [][Next]_vars

--------------------------------------------------------------------------------
AtRest == pending = {} /\ work = {} /\ \A c \in Calls : ~Open(c)
Without(excuses) == mishaps \cap excuses = {}

\* What has been answered stays on disk, as a visible directory, a backup or inside another
\* directory, whatever a replacement, a patch, a failure or a crash does to it: until it is
\* deleted, and unless a call started from a row that lagged behind.
CopyKept ==
    kept /\ Without({"stale"}) => \E d \in Dirs : Whole(d) \/ dirs[d].inner

\* At rest no row is left behind by a file that is gone or has moved, whatever calls, handlers
\* and failures did; but for the row that a patch writes for a directory that it moved inside
\* another one.
NoGhostRow ==
    AtRest =>
        /\ docRow # None /\ Without({"nested"}) => dirs[docRow.dir].index # None
        /\ lance # None => dirs[lance.dir].topic # None
        /\ sql # None => dirs[sql.dir].topic # None

\* search_knowledge: the vector row, its content from SQLite, the title from the document.
Hit == [cat |-> lance.cat, v |-> sql.v, title |-> docRow.title, summary |-> docRow.v]

\* At rest a whole document is found where it is and as its files say.
FoundAsWritten ==
    AtRest /\ mishaps = {} =>
        \A d \in Dirs : Whole(d) =>
            /\ docRow # None /\ lance # None /\ sql # None
            /\ docRow.dir = d /\ lance.dir = d /\ sql.dir = d
            /\ Hit = [cat |-> dirs[d].topic.cat, v |-> dirs[d].topic.v,
                      title |-> dirs[d].index.title, summary |-> dirs[d].index.v]

TypeOK ==
    /\ dirs \in [Dirs -> [there : BOOLEAN, inner : BOOLEAN, index : IndexFile \cup {None},
                          topic : TopicFile \cup {None}]]
    /\ \A d \in Dirs : dirs[d].index # None \/ dirs[d].topic # None => dirs[d].there
    /\ pending \subseteq Paths /\ \A w \in work : w.path \in Paths
    /\ docRow \in DocRows \cup {None}
    /\ lance \in TopicRows \cup {None} /\ sql \in TopicRows \cup {None}
    /\ last \in Versions /\ kept \in BOOLEAN /\ faults \in 0 .. MaxFaults
================================================================================
