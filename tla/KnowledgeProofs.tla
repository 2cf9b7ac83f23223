---------------------------- MODULE KnowledgeProofs ----------------------------
(***************************************************************************)
(* Proofs about Knowledge, for any categories, titles, calls, versions,    *)
(* depth of backups and number of faults.                                  *)
(***************************************************************************)
EXTENDS Knowledge, TLAPS

Writing == {"extract", "index", "topic", "original"}
Patching == {"rewrite", "move", "retag", "row"}
Kinds == {"none", "create", "replace", "move", "retitle", "delete"}
Pcs == {"none", "backup", "restore", "remove", "done"} \cup Writing \cup Patching

\* Nothing is in a directory that is not there.
DirType == [there : BOOLEAN, inner : BOOLEAN, index : IndexFile \cup {None},
            topic : TopicFile \cup {None}]
GoodDir == {x \in DirType : ~x.there => ~x.inner /\ x.index = None /\ x.topic = None}

\* What a call has in hand at each of its steps.
CallType == [kind : Kinds, pc : Pcs, title : Slugs \cup {None}, cat : Cats \cup {None},
             v : Versions, base : Dirs \cup {None}, backup : Dirs \cup {None}]
CallOK(x) ==
    /\ x.pc \in {"backup"} \cup Writing \cup Patching => x.title \in Slugs /\ x.cat \in Cats
    /\ x.pc \in Patching \cup {"remove"} => x.base \in Dirs
    /\ x.pc = "backup" => x.kind = "replace"
    /\ x.pc \in Writing => x.kind \in {"create", "replace"}
    /\ x.pc \in Patching => x.kind \in {"move", "retitle"}
    /\ x.pc = "restore" => x.backup # None
    /\ x.backup # None => x.kind = "replace" /\ x.base \in Dirs
                          /\ x.backup = [x.base EXCEPT !.depth = @ + 1]
GoodCall == {x \in CallType : CallOK(x)}
OneCall == \A c, d \in Calls : Open(c) /\ Open(d) => c = d

IndexPaths == Dirs \X {"index"}
TopicPaths == Dirs \X {"topic"}
WorkType ==
    [path : IndexPaths, pc : {"read"}, file : IndexFile]
      \cup [path : TopicPaths, pc : {"read", "lance", "sql"}, file : TopicFile]
      \cup [path : Paths, pc : {"gone"}, file : {None}]
      \cup [path : TopicPaths, pc : {"gone from lance"}, file : {None}]

Typed ==
    /\ dirs \in [Dirs -> GoodDir] /\ call \in [Calls -> GoodCall] /\ OneCall
    /\ pending \subseteq Paths /\ work \subseteq WorkType
    /\ docRow \in DocRows \cup {None}
    /\ lance \in TopicRows \cup {None} /\ sql \in TopicRows \cup {None}
    /\ last \in Versions /\ kept \in BOOLEAN /\ faults \in 0 .. MaxFaults

\* What a call has written so far, and the copy beside it.
CopyBeside ==
    \A c \in Calls :
        /\ call[c].pc \in {"topic", "original"} => dirs[Target(c)].index # None
        /\ call[c].pc = "original" => dirs[Target(c)].topic # None
        /\ call[c].pc \in Writing /\ kept /\ Without({"stale"}) =>
               /\ call[c].backup # None
               /\ Whole(call[c].backup) \/ dirs[call[c].backup].inner

\* Before the first version nothing has been answered, nor is anything written.
Versioned ==
    /\ kept => last > 0
    /\ \A c \in Calls : call[c].kind \in {"create", "replace"} => last > 0
    /\ \A c \in Calls : call[c].kind = "create" /\ Open(c) => ~kept

CopyInv == Versioned /\ CopyBeside /\ CopyKept

--------------------------------------------------------------------------------
(* The cascade. *)

WorksOn(p, pcs) == \E w \in work : w.path = p /\ w.pc \in pcs
Clean(p) == p \notin pending /\ \A w \in work : w.path # p

\* A path has one handler, and what it has read is the file, or the path is to be handled again.
ReadIsFile ==
    /\ \A w, x \in work : w.path = x.path => w = x
    /\ \A w \in work : w.file = File(w.path) \/ w.path \in pending

\* A row whose file is gone is about to go.
Leaving(row, part, pcs) ==
    row # None /\ dirs[row.dir][part] = None =>
        <<row.dir, part>> \in pending \/ WorksOn(<<row.dir, part>>, pcs)

\* A patch that has rewritten index.md still has it.
PatchHasIndex ==
    \A c \in Calls : call[c].pc \in {"move", "retag", "row"} /\ Without({"nested"}) =>
        dirs[call[c].base].index # None

GhostInv ==
    /\ ReadIsFile /\ PatchHasIndex
    /\ Without({"nested"}) => Leaving(docRow, "index", {"gone"})
    /\ Leaving(lance, "topic", {"gone"})
    /\ Leaving(sql, "topic", {"gone", "gone from lance"})

\* A patch of a document in one directory keeps it so, and its index.md is what it will store.
PatchAlone ==
    \A c \in Calls : call[c].pc \in Patching =>
        /\ \A d \in Dirs \ {call[c].base} : ~dirs[d].there
        /\ dirs[call[c].base].index # None /\ dirs[call[c].base].index.v = call[c].v
        /\ call[c].pc # "rewrite" =>
             /\ dirs[call[c].base].index.title = call[c].title
             /\ dirs[call[c].base].index.cat = call[c].cat

\* Of the handlers of a part one has a file to store, and between the two stores a topic's row
\* in LanceDB is the handler's.
OneStores ==
    /\ \A w, x \in work : w.path[2] = x.path[2] /\ w.file # None /\ x.file # None => w = x
    /\ \A w \in work : w.pc = "sql" => lance = TopicRow(w)
    /\ \A w \in work : w.pc = "gone from lance" => ~InStore(lance, w.path[1])

\* The two stores agree, but for a handler between them.
StoresAgree == lance # None => sql = lance \/ \E w \in work : w.pc = "sql"

\* A file that is handled is in its row.
DocFound ==
    \A d \in Dirs : dirs[d].index # None /\ Clean(<<d, "index">>) =>
        docRow = [title |-> dirs[d].index.title, cat |-> dirs[d].index.cat,
                  v |-> dirs[d].index.v, dir |-> d]

TopicFound ==
    \A d \in Dirs : dirs[d].topic # None /\ Clean(<<d, "topic">>) =>
        /\ lance = [cat |-> dirs[d].topic.cat, v |-> dirs[d].topic.v, dir |-> d]
        /\ sql = lance

FoundInv == PatchAlone /\ OneStores /\ StoresAgree /\ DocFound /\ TopicFound

KnowledgeInv == Typed /\ CopyInv /\ GhostInv /\ (mishaps = {} => FoundInv)

--------------------------------------------------------------------------------
(* Directories. *)

LEMMA EmptyGood == NoDir \in GoodDir /\ EmptyDir \in GoodDir
BY DEF NoDir, EmptyDir, GoodDir, DirType

LEMMA TargetDir ==
    ASSUME Typed, NEW c \in Calls, call[c].pc \in Writing
    PROVE  Target(c) \in Dirs /\ Target(c).depth = 0
<1>1. call[c] \in GoodCall
    BY DEF Typed
<1>2. call[c].title \in Slugs /\ call[c].cat \in Cats
    BY <1>1 DEF GoodCall, CallOK
<1>3. 0 \in 0 .. MaxDepth
    BY KnowledgeAssumption
<1> QED
    BY <1>2, <1>3 DEF Target, Dirs

LEMMA BaseDir ==
    ASSUME Typed, NEW c \in Calls
    PROVE  /\ call[c].pc \in Patching \cup {"remove"} => call[c].base \in Dirs
           /\ call[c].backup # None => call[c].base \in Dirs /\ call[c].backup \in Dirs
                                    /\ call[c].backup # call[c].base /\ call[c].backup.depth > 0
           /\ call[c].pc = "restore" => call[c].backup # None
<1>1. call[c] \in CallType /\ CallOK(call[c])
    BY DEF Typed, GoodCall
<1>2. call[c].pc \in Patching \cup {"remove"} => call[c].base \in Dirs
    BY <1>1 DEF CallOK
<1>3. call[c].pc = "restore" => call[c].backup # None
    BY <1>1 DEF CallOK
<1>4. ASSUME call[c].backup # None
      PROVE  call[c].base \in Dirs /\ call[c].backup \in Dirs
             /\ call[c].backup # call[c].base /\ call[c].backup.depth > 0
  <2>1. call[c].base \in Dirs /\ call[c].backup = [call[c].base EXCEPT !.depth = @ + 1]
    BY <1>1, <1>4 DEF CallOK
  <2>2. call[c].backup \in Dirs
    BY <1>1, <1>4 DEF CallType
  <2>3. call[c].base.depth \in Nat /\ call[c].backup.depth = call[c].base.depth + 1
    BY <2>1, KnowledgeAssumption DEF Dirs
  <2>4. call[c].backup.depth # call[c].base.depth /\ call[c].backup.depth > 0
    BY <2>3
  <2> QED
    BY <2>1, <2>2, <2>4
<1> QED
    BY <1>2, <1>3, <1>4

\* What a move makes of its source, of its destination and of the others.
LEMMA MovedDirs ==
    ASSUME Typed, NEW src \in Dirs, NEW dst \in Dirs, src # dst
    PROVE  /\ Moved(src, dst) \in [Dirs -> GoodDir]
           /\ Moved(src, dst)[src] = NoDir
           /\ \A d \in Dirs \ {src, dst} : Moved(src, dst)[d] = dirs[d]
           /\ ~dirs[dst].there => Moved(src, dst)[dst] = dirs[src]
           /\ dirs[dst].there =>
                Moved(src, dst)[dst] =
                    [dirs[dst] EXCEPT !.inner = dirs[dst].inner \/ Whole(src) \/ dirs[src].inner]
<1>1. dirs \in [Dirs -> GoodDir] /\ NoDir \in GoodDir
    BY EmptyGood DEF Typed
<1>2. CASE ~dirs[dst].there
    BY <1>1, <1>2 DEF Moved
<1>3. CASE dirs[dst].there
  <2> DEFINE inner == dirs[dst].inner \/ Whole(src) \/ dirs[src].inner
  <2>1. inner \in BOOLEAN /\ dirs[dst] \in GoodDir
    BY <1>1 DEF GoodDir, DirType
  <2>2. Moved(src, dst) = [dirs EXCEPT ![src] = NoDir, ![dst].inner = inner]
    BY <1>1, <1>3 DEF Moved
  <2> HIDE DEF inner
  <2>3. [dirs[dst] EXCEPT !.inner = inner] \in GoodDir
    BY <1>3, <2>1 DEF GoodDir, DirType
  <2>4. Moved(src, dst) = [[dirs EXCEPT ![src] = NoDir] EXCEPT
                              ![dst] = [dirs[dst] EXCEPT !.inner = inner]]
    BY <1>1, <2>2
  <2>5. /\ Moved(src, dst) \in [Dirs -> GoodDir] /\ Moved(src, dst)[src] = NoDir
        /\ \A d \in Dirs \ {src, dst} : Moved(src, dst)[d] = dirs[d]
        /\ Moved(src, dst)[dst] = [dirs[dst] EXCEPT !.inner = inner]
    BY <1>1, <2>3, <2>4
  <2> QED
    BY <1>3, <2>5 DEF inner
<1> QED
    BY <1>2, <1>3

LEMMA MovedOthers ==
    ASSUME Typed, NEW src \in Dirs, NEW dst \in Dirs
    PROVE  \A d \in Dirs \ {src, dst} : Moved(src, dst)[d] = dirs[d]
BY DEF Moved, Typed

LEMMA MovedAside ==
    ASSUME Typed, NEW src \in Dirs, NEW dst \in Dirs, src # dst, ~dirs[dst].there
    PROVE  Moved(src, dst)[src] = NoDir /\ Moved(src, dst)[dst] = dirs[src]
BY DEF Moved, Typed

--------------------------------------------------------------------------------
(* The calls. *)

\* A call goes to its next step with what it has in hand.
LEMMA CallGoes ==
    ASSUME Typed, NEW c \in Calls, NEW pc \in Pcs, Goto(c, pc),
           \/ pc = "done"
           \/ call[c].pc \in {"backup"} \cup Writing /\ pc \in Writing
           \/ call[c].pc \in Patching /\ pc \in Patching
           \/ pc = "restore" /\ call[c].backup # None
    PROVE  /\ call' \in [Calls -> GoodCall] /\ call'[c] = [call[c] EXCEPT !.pc = pc]
           /\ \A d \in Calls \ {c} : call'[d] = call[d]
<1> DEFINE x == [call[c] EXCEPT !.pc = pc]
<1>1. call[c] \in CallType /\ CallOK(call[c]) /\ call \in [Calls -> GoodCall]
    BY DEF Typed, GoodCall
<1>2. x \in CallType
    BY <1>1 DEF CallType
<1>3. /\ x.pc = pc /\ x.kind = call[c].kind /\ x.title = call[c].title /\ x.cat = call[c].cat
      /\ x.base = call[c].base /\ x.backup = call[c].backup
    BY <1>1 DEF CallType
<1>4. call' = [call EXCEPT ![c] = x]
    BY DEF Goto
<1> HIDE DEF x
<1>5. CallOK(x)
    BY <1>1, <1>3 DEF CallOK, Writing, Patching
<1>6. x \in GoodCall
    BY <1>2, <1>5 DEF GoodCall
<1>7. call' \in [Calls -> GoodCall] /\ call'[c] = x /\ \A d \in Calls \ {c} : call'[d] = call[d]
    BY <1>1, <1>4, <1>6
<1> QED
    BY <1>7 DEF x

\* What a step of a call changes of the calls: its own place, and where the directory is.
LEMMA ServeCalls ==
    ASSUME Typed, NEW c \in Calls, Serve(c)
    PROVE  /\ call' \in [Calls -> GoodCall] /\ Open(c)
           /\ \A d \in Calls \ {c} : call'[d] = call[d]
           /\ call'[c].kind = call[c].kind /\ call'[c].title = call[c].title
           /\ call'[c].cat = call[c].cat /\ call'[c].v = call[c].v
<1> DEFINE Goal == /\ call' \in [Calls -> GoodCall] /\ Open(c)
                   /\ \A d \in Calls \ {c} : call'[d] = call[d]
                   /\ call'[c].kind = call[c].kind /\ call'[c].title = call[c].title
                   /\ call'[c].cat = call[c].cat /\ call'[c].v = call[c].v
<1>0. call[c] \in CallType /\ CallOK(call[c]) /\ call \in [Calls -> GoodCall]
    BY DEF Typed, GoodCall
<1>a. ASSUME NEW pc \in Pcs, Goto(c, pc), Open(c),
             \/ pc = "done"
             \/ call[c].pc \in {"backup"} \cup Writing /\ pc \in Writing
             \/ call[c].pc \in Patching /\ pc \in Patching
             \/ pc = "restore" /\ call[c].backup # None
      PROVE  Goal
  <2>1. /\ call' \in [Calls -> GoodCall] /\ call'[c] = [call[c] EXCEPT !.pc = pc]
        /\ \A d \in Calls \ {c} : call'[d] = call[d]
    BY <1>a, CallGoes
  <2>2. /\ call'[c].kind = call[c].kind /\ call'[c].title = call[c].title
        /\ call'[c].cat = call[c].cat /\ call'[c].v = call[c].v
    BY <1>0, <2>1 DEF CallType
  <2> QED
    BY <1>a, <2>1, <2>2
<1> HIDE DEF Goal
<1> SUFFICES Goal
  BY DEF Goal
<1>1. CASE BackupDir(c)
  <2>1. call[c].kind = "replace" /\ call[c].pc = "backup" /\ Open(c)
    BY <1>1 DEF BackupDir, At, Open
  <2>2. CASE docRow # None /\ dirs[docRow.dir].there
    <3> DEFINE dst == [docRow.dir EXCEPT !.depth = @ + 1]
               x == [call[c] EXCEPT !.pc = "extract", !.base = docRow.dir, !.backup = dst]
    <3>1. docRow.dir \in Dirs /\ docRow.dir.depth < MaxDepth
      BY <1>1, <2>2 DEF BackupDir, Typed, DocRows
    <3>2. dst \in Dirs
      BY <3>1, KnowledgeAssumption DEF Dirs
    <3>3. call' = [call EXCEPT ![c] = x]
      BY <1>1, <2>2 DEF BackupDir
    <3>4. /\ x.pc = "extract" /\ x.base = docRow.dir /\ x.backup = dst
          /\ x.kind = call[c].kind /\ x.title = call[c].title /\ x.cat = call[c].cat
          /\ x.v = call[c].v
      BY <1>0 DEF CallType
    <3>5. x \in CallType
      BY <1>0, <3>1, <3>2 DEF CallType, Pcs, Writing
    <3>6. x.backup = [x.base EXCEPT !.depth = @ + 1]
      BY <3>4
    <3> HIDE DEF x, dst
    <3>7. CallOK(x)
      BY <1>0, <2>1, <3>1, <3>4, <3>6 DEF CallOK, Writing, Patching
    <3> QED
      BY <1>0, <2>1, <3>3, <3>4, <3>5, <3>7 DEF Goal, GoodCall
  <2>3. CASE ~(docRow # None /\ dirs[docRow.dir].there)
    BY <1>1, <1>a, <2>1, <2>3 DEF BackupDir, Pcs, Writing
  <2> QED
    BY <2>2, <2>3
<1>2. CASE ClearDir(c) \/ WriteIndex(c) \/ WriteTopic(c) \/ Answer(c)
  BY <1>2, <1>a DEF ClearDir, WriteIndex, WriteTopic, Answer, Pcs, Writing, Open
<1>3. CASE Fails(c) \/ Aborts(c)
  BY <1>3, <1>a DEF Fails, Aborts, Pcs, Open
<1>4. CASE RestoreBackup(c)
  BY <1>4, <1>a DEF RestoreBackup, Pcs, Open
<1>5. CASE Rewrite(c)
  BY <1>5, <1>a DEF Rewrite, Pcs, Patching, Open
<1>6. CASE MoveDoc(c)
  <2> DEFINE dst == [call[c].base EXCEPT !.cat = call[c].cat]
             x == [call[c] EXCEPT !.pc = "retag", !.base = dst]
  <2>1. /\ call[c].pc = "move" /\ Open(c) /\ call[c].base \in Dirs /\ call[c].cat \in Cats
        /\ call[c].title \in Slugs /\ call[c].kind \in {"move", "retitle"}
    BY <1>0, <1>6 DEF MoveDoc, Open, CallOK, Patching
  <2>2. CASE call' = [call EXCEPT ![c] = x]
    <3>1. dst \in Dirs
      BY <2>1 DEF Dirs
    <3>2. /\ x.pc = "retag" /\ x.base = dst /\ x.backup = call[c].backup
          /\ x.kind = call[c].kind /\ x.title = call[c].title /\ x.cat = call[c].cat
          /\ x.v = call[c].v
      BY <1>0 DEF CallType
    <3>3. x \in CallType
      BY <1>0, <3>1 DEF CallType, Pcs, Patching
    <3> HIDE DEF x, dst
    <3>4. CallOK(x)
      BY <1>0, <2>1, <3>1, <3>2 DEF CallOK, Writing, Patching
    <3> QED
      BY <1>0, <2>1, <2>2, <3>2, <3>3, <3>4 DEF Goal, GoodCall
  <2>3. CASE Goto(c, "done")
    BY <1>a, <2>1, <2>3 DEF Pcs
  <2> QED
    BY <1>6, <2>2, <2>3 DEF MoveDoc
<1>7. CASE RetagTopics(c)
  BY <1>7, <1>a DEF RetagTopics, Pcs, Patching, Open
<1>8. CASE WriteRow(c) \/ RemoveDir(c)
  BY <1>8, <1>a DEF WriteRow, RemoveDir, Pcs, Open
<1> QED
  BY <1>1, <1>2, <1>3, <1>4, <1>5, <1>6, <1>7, <1>8 DEF Serve

LEMMA BackupGoes ==
    ASSUME Typed, NEW c \in Calls, BackupDir(c)
    PROVE  call'[c].pc = "extract"
<1>1. call \in [Calls -> GoodCall] /\ call[c] \in CallType
    BY DEF Typed, GoodCall
<1>2. CASE docRow # None /\ dirs[docRow.dir].there
  <2>1. call' = [call EXCEPT ![c] = [call[c] EXCEPT !.pc = "extract", !.base = docRow.dir,
                                            !.backup = [docRow.dir EXCEPT !.depth = @ + 1]]]
    BY <1>2 DEF BackupDir
  <2> QED
    BY <1>1, <2>1 DEF CallType
<1>3. CASE ~(docRow # None /\ dirs[docRow.dir].there)
    BY <1>1, <1>3 DEF BackupDir, Goto, CallType
<1> QED
  BY <1>2, <1>3

\* A new call is the only one.
LEMMA AskCalls ==
    ASSUME Typed, NEW c \in Calls, Ask(c)
    PROVE  /\ call' \in [Calls -> GoodCall] /\ \A d \in Calls : ~Open(d)
           /\ \A d \in Calls \ {c} : call'[d] = call[d]
           /\ last' \in Versions
           /\ UNCHANGED <<dirs, pending, work, rows, kept, faults>>
<1>0. call \in [Calls -> GoodCall] /\ last \in Versions
    BY DEF Typed
<1>1. NoCall \in CallType /\ 1 \in Versions /\ 0 \in Versions
    BY KnowledgeAssumption DEF NoCall, CallType, Kinds, Pcs, Versions
<1>2. ASSUME NEW x \in GoodCall, Begin(c, x)
      PROVE  /\ call' \in [Calls -> GoodCall] /\ \A d \in Calls : ~Open(d)
             /\ \A d \in Calls \ {c} : call'[d] = call[d]
             /\ UNCHANGED <<dirs, pending, work, rows, kept, faults>>
  BY <1>0, <1>2 DEF Begin
<1>3. CASE Delete(c)
  <2> DEFINE x == [NoCall EXCEPT !.kind = "delete", !.pc = "remove", !.base = docRow.dir]
  <2>1. docRow.dir \in Dirs
    BY <1>3 DEF Delete, Typed, DocRows
  <2>2. x \in CallType /\ x.pc = "remove" /\ x.base \in Dirs /\ x.backup = None
    BY <1>1, <2>1 DEF NoCall, CallType, Kinds, Pcs
  <2> HIDE DEF x
  <2>3. x \in GoodCall
    BY <2>2 DEF GoodCall, CallOK, Writing, Patching
  <2>4. Begin(c, x) /\ last' = last
    BY <1>3 DEF Delete, x
  <2> QED
    BY <1>0, <1>2, <2>3, <2>4
<1>4. ASSUME NEW title \in Slugs, NEW cat \in Cats, Create(c, title, cat)
      PROVE  /\ call' \in [Calls -> GoodCall] /\ \A d \in Calls : ~Open(d)
             /\ \A d \in Calls \ {c} : call'[d] = call[d]
             /\ last' \in Versions
             /\ UNCHANGED <<dirs, pending, work, rows, kept, faults>>
  <2> DEFINE x == [NoCall EXCEPT !.kind = "create", !.pc = "extract",
                                 !.title = title, !.cat = cat, !.v = 1]
  <2>1. /\ x \in CallType /\ x.pc = "extract" /\ x.kind = "create" /\ x.backup = None
        /\ x.title = title /\ x.cat = cat
    BY <1>1 DEF NoCall, CallType, Kinds, Pcs, Writing
  <2> HIDE DEF x
  <2>2. x \in GoodCall
    BY <2>1 DEF GoodCall, CallOK, Writing, Patching
  <2>3. Begin(c, x) /\ last' = 1
    BY <1>4 DEF Create, x
  <2> QED
    BY <1>1, <1>2, <2>2, <2>3
<1>5. ASSUME NEW title \in Slugs, NEW cat \in Cats, NEW v \in Versions, Replace(c, title, cat, v)
      PROVE  /\ call' \in [Calls -> GoodCall] /\ \A d \in Calls : ~Open(d)
             /\ \A d \in Calls \ {c} : call'[d] = call[d]
             /\ last' \in Versions
             /\ UNCHANGED <<dirs, pending, work, rows, kept, faults>>
  <2> DEFINE x == [NoCall EXCEPT !.kind = "replace", !.pc = "backup",
                                 !.title = title, !.cat = cat, !.v = v]
  <2>1. /\ x \in CallType /\ x.pc = "backup" /\ x.kind = "replace" /\ x.backup = None
        /\ x.title = title /\ x.cat = cat
    BY <1>1 DEF NoCall, CallType, Kinds, Pcs
  <2> HIDE DEF x
  <2>2. x \in GoodCall
    BY <2>1 DEF GoodCall, CallOK, Writing, Patching
  <2>3. Begin(c, x) /\ last' \in {v, last}
    BY <1>5 DEF Replace, x
  <2> QED
    BY <1>0, <1>2, <2>2, <2>3
<1>6. ASSUME NEW title \in Slugs, NEW cat \in Cats, Patch(c, title, cat)
      PROVE  /\ call' \in [Calls -> GoodCall] /\ \A d \in Calls : ~Open(d)
             /\ \A d \in Calls \ {c} : call'[d] = call[d]
             /\ last' \in Versions
             /\ UNCHANGED <<dirs, pending, work, rows, kept, faults>>
  <2>1. PICK base \in Dirs, v \in Versions, oldCat \in Cats :
          Begin(c, [NoCall EXCEPT !.kind = IF cat # oldCat THEN "move" ELSE "retitle",
                                  !.pc = "rewrite", !.title = title, !.cat = cat, !.v = v,
                                  !.base = base])
    BY <1>6 DEF Patch
  <2> DEFINE kind == IF cat # oldCat THEN "move" ELSE "retitle"
             x == [NoCall EXCEPT !.kind = kind,
                                  !.pc = "rewrite", !.title = title, !.cat = cat, !.v = v,
                                  !.base = base]
  <2>2. kind \in Kinds /\ kind \in {"move", "retitle"}
    BY DEF Kinds
  <2> HIDE DEF kind
  <2>3. /\ x \in CallType /\ x.pc = "rewrite" /\ x.kind = kind /\ x.backup = None
        /\ x.title = title /\ x.cat = cat /\ x.base = base
    BY <1>1, <2>2 DEF NoCall, CallType, Pcs, Patching
  <2> HIDE DEF x
  <2>4. x \in GoodCall
    BY <2>2, <2>3 DEF GoodCall, CallOK, Writing, Patching
  <2>5. Begin(c, x) /\ last' = last
    BY <1>6, <2>1 DEF Patch, x, kind
  <2> QED
    BY <1>0, <1>2, <2>4, <2>5
<1> QED
  BY <1>3, <1>4, <1>5, <1>6 DEF Ask

\* Where a new call starts.
LEMMA AskStarts ==
    ASSUME Typed, NEW c \in Calls, Ask(c)
    PROVE  /\ call'[c].pc \in {"extract", "backup", "rewrite", "remove"}
           /\ mishaps \subseteq mishaps'
<1>0. call \in [Calls -> GoodCall]
    BY DEF Typed
<1>1. CASE Delete(c)
    BY <1>0, <1>1 DEF Delete, Begin, NoCall, Mishap
<1>2. ASSUME NEW title \in Slugs, NEW cat \in Cats, Create(c, title, cat)
      PROVE  call'[c].pc = "extract" /\ mishaps \subseteq mishaps'
    BY <1>0, <1>2 DEF Create, Begin, NoCall, Mishap
<1>3. ASSUME NEW title \in Slugs, NEW cat \in Cats, Patch(c, title, cat)
      PROVE  call'[c].pc = "rewrite" /\ mishaps \subseteq mishaps'
    BY <1>0, <1>3 DEF Patch, Begin, NoCall, Mishap
<1>4. ASSUME NEW title \in Slugs, NEW cat \in Cats, NEW v \in Versions, Replace(c, title, cat, v)
      PROVE  call'[c].pc = "backup" /\ mishaps \subseteq mishaps'
    BY <1>0, <1>4 DEF Replace, Begin, NoCall, Mishap
<1> QED
  BY <1>1, <1>2, <1>3, <1>4 DEF Ask

--------------------------------------------------------------------------------
(* What a step leaves on disk. *)

LEMMA PutDir ==
    ASSUME Typed, NEW d \in Dirs, NEW x \in GoodDir
    PROVE  /\ [dirs EXCEPT ![d] = x] \in [Dirs -> GoodDir] /\ [dirs EXCEPT ![d] = x][d] = x
           /\ \A e \in Dirs \ {d} : [dirs EXCEPT ![d] = x][e] = dirs[e]
BY DEF Typed

\* The directory that a replacement moves aside, and its new name.
LEMMA BackupNames ==
    ASSUME Typed, NEW c \in Calls, BackupDir(c), docRow # None
    PROVE  /\ docRow.dir \in Dirs /\ [docRow.dir EXCEPT !.depth = @ + 1] \in Dirs
           /\ docRow.dir # [docRow.dir EXCEPT !.depth = @ + 1]
<1>1. docRow.dir \in Dirs /\ docRow.dir.depth < MaxDepth
    BY DEF BackupDir, Typed, DocRows
<1>2. docRow.dir.depth \in Nat
    BY <1>1, KnowledgeAssumption DEF Dirs
<1>3. [docRow.dir EXCEPT !.depth = @ + 1] \in Dirs
    BY <1>1, <1>2, KnowledgeAssumption DEF Dirs
<1>4. [docRow.dir EXCEPT !.depth = @ + 1].depth = docRow.dir.depth + 1
    BY <1>1 DEF Dirs
<1>5. [docRow.dir EXCEPT !.depth = @ + 1].depth # docRow.dir.depth
    BY <1>2, <1>4
<1> QED
    BY <1>1, <1>3, <1>5

LEMMA MoveNames ==
    ASSUME Typed, NEW c \in Calls, call[c].pc = "move"
    PROVE  call[c].base \in Dirs /\ [call[c].base EXCEPT !.cat = call[c].cat] \in Dirs
<1>1. call[c].base \in Dirs /\ call[c].cat \in Cats
    BY DEF Typed, GoodCall, CallOK, Patching
<1> QED
    BY <1>1 DEF Dirs

\* A call leaves directories that are good, and every file that it changed to the cascade.
LEMMA ServeOnDisk ==
    ASSUME Typed, NEW c \in Calls, Serve(c)
    PROVE  dirs' \in [Dirs -> GoodDir] /\ (Disk(dirs') \/ UNCHANGED <<dirs, pending>>)
<1> DEFINE Good == dirs' \in [Dirs -> GoodDir] /\ (Disk(dirs') \/ UNCHANGED <<dirs, pending>>)
<1>0. dirs \in [Dirs -> GoodDir] /\ call[c] \in CallType
    BY DEF Typed, GoodCall
<1>a. ASSUME NEW new, Disk(new), new \in [Dirs -> GoodDir] PROVE Good
  BY <1>a DEF Disk
<1>b. ASSUME UNCHANGED <<dirs, pending>> PROVE Good
  BY <1>0, <1>b
<1> HIDE DEF Good
<1> SUFFICES Good
  BY DEF Good
<1>1. CASE BackupDir(c)
  <2>1. CASE docRow # None /\ dirs[docRow.dir].there
    <3>1. Disk(Moved(docRow.dir, [docRow.dir EXCEPT !.depth = @ + 1]))
      BY <1>1, <2>1 DEF BackupDir
    <3> QED
      BY <1>1, <1>a, <2>1, <3>1, BackupNames, MovedDirs
  <2>2. CASE ~(docRow # None /\ dirs[docRow.dir].there)
    BY <1>1, <1>b, <2>2 DEF BackupDir
  <2> QED
    BY <2>1, <2>2
<1>2. CASE ClearDir(c)
  <2>1. Target(c) \in Dirs
    BY <1>2, TargetDir DEF ClearDir, Writing
  <2> QED
    BY <1>2, <1>a, <2>1, PutDir, EmptyGood DEF ClearDir
<1>3. CASE WriteIndex(c)
  <2> DEFINE file == [title |-> call[c].title, cat |-> call[c].cat, v |-> call[c].v]
             x == [dirs[Target(c)] EXCEPT !.there = TRUE, !.index = file]
  <2>1. Target(c) \in Dirs
    BY <1>3, TargetDir DEF WriteIndex, Writing
  <2>2. file \in IndexFile
    BY <1>0, <1>3 DEF WriteIndex, IndexFile, CallType, Typed, GoodCall, CallOK, Writing
  <2>3. x \in GoodDir
    BY <1>0, <2>1, <2>2 DEF GoodDir, DirType
  <2>4. Disk([dirs EXCEPT ![Target(c)] = x])
    BY <1>3 DEF WriteIndex
  <2> QED
    BY <1>a, <2>1, <2>3, <2>4, PutDir
<1>4. CASE WriteTopic(c)
  <2> DEFINE file == [cat |-> call[c].cat, v |-> call[c].v]
             x == [dirs[Target(c)] EXCEPT !.there = TRUE, !.topic = file]
  <2>1. Target(c) \in Dirs
    BY <1>4, TargetDir DEF WriteTopic, Writing
  <2>2. file \in TopicFile
    BY <1>0, <1>4 DEF WriteTopic, TopicFile, CallType, Typed, GoodCall, CallOK, Writing
  <2>3. x \in GoodDir
    BY <1>0, <2>1, <2>2 DEF GoodDir, DirType
  <2>4. Disk([dirs EXCEPT ![Target(c)] = x])
    BY <1>4 DEF WriteTopic
  <2> QED
    BY <1>a, <2>1, <2>3, <2>4, PutDir
<1>5. CASE Answer(c)
  <2>1. CASE call[c].backup # None
    <3>1. Disk([dirs EXCEPT ![call[c].backup] = NoDir]) /\ call[c].backup \in Dirs
      BY <1>0, <1>5, <2>1 DEF Answer, CallType
    <3> QED
      BY <1>a, <3>1, PutDir, EmptyGood
  <2>2. CASE call[c].backup = None
    BY <1>5, <1>b, <2>2 DEF Answer
  <2> QED
    BY <2>1, <2>2
<1>6. CASE Fails(c) \/ Aborts(c) \/ WriteRow(c)
  BY <1>6, <1>b DEF Fails, Aborts, WriteRow
<1>7. CASE RestoreBackup(c)
  <2>1. CASE dirs[call[c].backup].there
    <3>1. /\ call[c].base \in Dirs /\ call[c].backup \in Dirs /\ call[c].backup # call[c].base
          /\ Disk(Moved(call[c].backup, call[c].base))
      BY <1>7, <2>1, BaseDir DEF RestoreBackup
    <3> QED
      BY <1>a, <3>1, MovedDirs
  <2>2. CASE ~dirs[call[c].backup].there
    BY <1>7, <1>b, <2>2 DEF RestoreBackup
  <2> QED
    BY <2>1, <2>2
<1>8. CASE Rewrite(c)
  <2>1. call[c].base \in Dirs /\ call[c].title \in Slugs /\ call[c].cat \in Cats
    BY <1>8 DEF Rewrite, Typed, GoodCall, CallOK, Patching
  <2>2. CASE dirs[call[c].base].index # None
    <3> DEFINE d == call[c].base
               file == [dirs[d].index EXCEPT !.title = call[c].title, !.cat = call[c].cat]
               x == [dirs[d] EXCEPT !.index = file]
    <3>1. file \in IndexFile
      BY <1>0, <2>1, <2>2 DEF GoodDir, DirType, IndexFile
    <3>2. x \in GoodDir
      BY <1>0, <2>1, <2>2, <3>1 DEF GoodDir, DirType
    <3>3. Disk([dirs EXCEPT ![d] = x])
      BY <1>8, <2>2 DEF Rewrite
    <3> QED
      BY <1>a, <2>1, <3>2, <3>3, PutDir
  <2>3. CASE dirs[call[c].base].index = None
    BY <1>8, <1>b, <2>3 DEF Rewrite
  <2> QED
    BY <2>2, <2>3
<1>9. CASE MoveDoc(c)
  <2> DEFINE src == call[c].base
             dst == [src EXCEPT !.cat = call[c].cat]
  <2>1. CASE dirs[src].there /\ src # dst
    <3>1. Disk(Moved(src, dst)) /\ src \in Dirs /\ dst \in Dirs
      BY <1>9, <2>1, MoveNames DEF MoveDoc
    <3> QED
      BY <1>a, <2>1, <3>1, MovedDirs
  <2>2. CASE ~(dirs[src].there /\ src # dst)
    BY <1>9, <1>b, <2>2 DEF MoveDoc
  <2> QED
    BY <2>1, <2>2
<1>10. CASE RetagTopics(c)
  <2>1. call[c].base \in Dirs /\ call[c].cat \in Cats
    BY <1>10 DEF RetagTopics, Typed, GoodCall, CallOK, Patching
  <2>2. CASE dirs[call[c].base].there
    <3> DEFINE d == call[c].base
               file == IF dirs[d].topic = None THEN None
                       ELSE [dirs[d].topic EXCEPT !.cat = call[c].cat]
               x == [dirs[d] EXCEPT !.topic = file]
    <3>1. file \in TopicFile \cup {None}
      BY <1>0, <2>1, <2>2 DEF GoodDir, DirType, TopicFile
    <3>2. x \in GoodDir
      BY <1>0, <2>1, <2>2, <3>1 DEF GoodDir, DirType
    <3>3. Disk([dirs EXCEPT ![d] = x])
      BY <1>10, <2>2 DEF RetagTopics
    <3> QED
      BY <1>a, <2>1, <3>2, <3>3, PutDir
  <2>3. CASE ~dirs[call[c].base].there
    BY <1>10, <1>b, <2>3 DEF RetagTopics
  <2> QED
    BY <2>2, <2>3
<1>11. CASE RemoveDir(c)
  <2>1. Disk([dirs EXCEPT ![call[c].base] = NoDir]) /\ call[c].base \in Dirs
    BY <1>11, BaseDir DEF RemoveDir
  <2> QED
    BY <1>a, <2>1, PutDir, EmptyGood
<1> QED
  BY <1>1, <1>2, <1>3, <1>4, <1>5, <1>6, <1>7, <1>8, <1>9, <1>10, <1>11 DEF Serve

LEMMA ServeLeaves ==
    ASSUME Typed, NEW c \in Calls, Serve(c)
    PROVE  /\ UNCHANGED <<work, lance, sql, last>> /\ pending \subseteq pending' /\ pending' \subseteq Paths
           /\ \A p \in Paths : File(p)' = File(p) \/ p \in pending'
           /\ mishaps \subseteq mishaps'
<1>1. Disk(dirs') \/ UNCHANGED <<dirs, pending>>
    BY ServeOnDisk
<1>2. pending \subseteq pending' /\ pending' \subseteq Paths
    BY <1>1 DEF Disk, Typed
<1>3. \A p \in Paths : File(p)' = File(p) \/ p \in pending'
    BY <1>1 DEF Disk, File
<1>4. UNCHANGED <<work, lance, sql, last>> /\ mishaps \subseteq mishaps'
    BY DEF Serve, BackupDir, ClearDir, WriteIndex, WriteTopic, Answer, Fails, Aborts,
           RestoreBackup, Rewrite, MoveDoc, RetagTopics, WriteRow, RemoveDir, rows, Mishap
<1> QED
    BY <1>2, <1>3, <1>4

--------------------------------------------------------------------------------
(* The handlers. *)

LEMMA PathFields ==
    ASSUME NEW p \in Paths
    PROVE  p[1] \in Dirs /\ p[2] \in Parts /\ p = <<p[1], p[2]>>
BY DEF Paths

LEMMA PathsOfParts ==
    /\ \A p \in IndexPaths : p \in Paths /\ p[2] = "index"
    /\ \A p \in TopicPaths : p \in Paths /\ p[2] = "topic"
BY DEF IndexPaths, TopicPaths, Paths, Parts

LEMMA WorkFields ==
    ASSUME NEW w \in WorkType
    PROVE  /\ w.path \in Paths /\ w.path[1] \in Dirs /\ w.path[2] \in Parts
           /\ w.path = <<w.path[1], w.path[2]>>
           /\ w.pc \in {"read", "lance", "sql", "gone", "gone from lance"}
           /\ w.pc = "read" /\ w.path[2] = "index" => w.file \in IndexFile
           /\ w.pc \in {"read", "lance", "sql"} /\ w.path[2] = "topic" => w.file \in TopicFile
           /\ w.pc \in {"lance", "sql", "gone from lance"} => w.path[2] = "topic"
           /\ w.pc \in {"gone", "gone from lance"} <=> w.file = None
<1>1. None \notin IndexFile /\ None \notin TopicFile
    BY NoneAssumption
<1> DEFINE Fields ==
           /\ w.path \in Paths
           /\ w.pc \in {"read", "lance", "sql", "gone", "gone from lance"}
           /\ w.pc = "read" /\ w.path[2] = "index" => w.file \in IndexFile
           /\ w.pc \in {"read", "lance", "sql"} /\ w.path[2] = "topic" => w.file \in TopicFile
           /\ w.pc \in {"lance", "sql", "gone from lance"} => w.path[2] = "topic"
           /\ w.pc \in {"gone", "gone from lance"} <=> w.file = None
<1>2. ASSUME w \in [path : IndexPaths, pc : {"read"}, file : IndexFile] PROVE Fields
  <2>1. w.path \in IndexPaths /\ w.pc = "read" /\ w.file \in IndexFile
    BY <1>2
  <2> QED
    BY <1>1, <2>1, PathsOfParts
<1>3. ASSUME w \in [path : TopicPaths, pc : {"read", "lance", "sql"}, file : TopicFile]
      PROVE  Fields
  <2>1. w.path \in TopicPaths /\ w.pc \in {"read", "lance", "sql"} /\ w.file \in TopicFile
    BY <1>3
  <2> QED
    BY <1>1, <2>1, PathsOfParts
<1>4. ASSUME w \in [path : Paths, pc : {"gone"}, file : {None}] PROVE Fields
    BY <1>4
<1>5. ASSUME w \in [path : TopicPaths, pc : {"gone from lance"}, file : {None}] PROVE Fields
  <2>1. w.path \in TopicPaths /\ w.pc = "gone from lance" /\ w.file = None
    BY <1>5
  <2> QED
    BY <2>1, PathsOfParts
<1>6. Fields
    BY <1>2, <1>3, <1>4, <1>5 DEF WorkType
<1> QED
    BY <1>6, PathFields

\* A handler of a topic that goes on.
LEMMA WorkGoes ==
    ASSUME NEW w \in WorkType, NEW pc, w.path[2] = "topic",
           \/ w.file # None /\ pc \in {"lance", "sql"}
           \/ w.file = None /\ pc = "gone from lance"
    PROVE  [w EXCEPT !.pc = pc] \in WorkType
<1>1. CASE w \in [path : IndexPaths, pc : {"read"}, file : IndexFile]
    BY <1>1 DEF IndexPaths
<1>2. CASE w \in [path : TopicPaths, pc : {"read", "lance", "sql"}, file : TopicFile]
  <2>1. pc \in {"lance", "sql"}
    BY <1>2, NoneAssumption
  <2>2. [w EXCEPT !.pc = pc] \in [path : TopicPaths, pc : {"read", "lance", "sql"}, file : TopicFile]
    BY <1>2, <2>1
  <2> QED
    BY <2>2 DEF WorkType
<1>3. CASE w \in [path : Paths, pc : {"gone"}, file : {None}]
  <2>1. w.path \in TopicPaths /\ pc = "gone from lance"
    BY <1>3 DEF TopicPaths, Paths
  <2>2. [w EXCEPT !.pc = pc] \in [path : TopicPaths, pc : {"gone from lance"}, file : {None}]
    BY <1>3, <2>1
  <2> QED
    BY <2>2 DEF WorkType
<1>4. CASE w \in [path : TopicPaths, pc : {"gone from lance"}, file : {None}]
  <2>1. pc = "gone from lance"
    BY <1>4
  <2>2. [w EXCEPT !.pc = pc] \in [path : TopicPaths, pc : {"gone from lance"}, file : {None}]
    BY <1>4, <2>1
  <2> QED
    BY <2>2 DEF WorkType
<1> QED
    BY <1>1, <1>2, <1>3, <1>4 DEF WorkType

LEMMA TopicRowType ==
    ASSUME NEW w \in WorkType, w.path[2] = "topic", w.file # None
    PROVE  TopicRow(w) \in TopicRows
<1>1. w.file \in TopicFile /\ w.path[1] \in Dirs
    BY WorkFields
<1> QED
    BY <1>1 DEF TopicRow, TopicRows, TopicFile

LEMMA ClaimedType ==
    ASSUME Typed, NEW p \in Paths
    PROVE  /\ Working(p, IF File(p) = None THEN "gone" ELSE "read", File(p)) \in WorkType
           /\ File(p) = dirs[p[1]][p[2]]
<1>1. p[1] \in Dirs /\ dirs[p[1]] \in DirType /\ p[2] \in Parts
    BY DEF Typed, GoodDir, Paths
<1>2. CASE p[2] = "index"
  <2>1. File(p) \in IndexFile \cup {None} /\ p \in IndexPaths
    BY <1>1, <1>2 DEF File, DirType, IndexPaths, Paths
  <2> QED
    BY <2>1 DEF Working, WorkType, File
<1>3. CASE p[2] = "topic"
  <2>1. File(p) \in TopicFile \cup {None} /\ p \in TopicPaths
    BY <1>1, <1>3 DEF File, DirType, TopicPaths, Paths
  <2> QED
    BY <2>1 DEF Working, WorkType, File
<1> QED
    BY <1>1, <1>2, <1>3 DEF Parts

\* What a handler leaves as it is, and the types of what it writes.
LEMMA HandleTyped ==
    ASSUME Typed, NEW w \in work, Handle(w)
    PROVE  /\ work' \subseteq WorkType /\ pending' \subseteq Paths
           /\ docRow' \in DocRows \cup {None}
           /\ lance' \in TopicRows \cup {None} /\ sql' \in TopicRows \cup {None}
           /\ faults' \in 0 .. MaxFaults /\ UNCHANGED <<dirs, call, last, kept>>
<1>0. /\ w \in WorkType /\ work \subseteq WorkType /\ pending \subseteq Paths
      /\ docRow \in DocRows \cup {None} /\ lance \in TopicRows \cup {None}
      /\ sql \in TopicRows \cup {None} /\ faults \in 0 .. MaxFaults
    BY DEF Typed
<1>1. CASE HandleIndex(w)
  <2>1. docRow' \in DocRows \cup {None}
    <3>1. CASE w.pc = "read"
      <4>1. w.file \in IndexFile /\ w.path[1] \in Dirs
        BY <1>0, <1>1, <3>1, WorkFields DEF HandleIndex
      <4>2. docRow' = [title |-> w.file.title, cat |-> w.file.cat,
                        v |-> w.file.v, dir |-> w.path[1]]
        BY <1>1, <3>1 DEF HandleIndex
      <4> QED
        BY <4>1, <4>2 DEF IndexFile, DocRows
    <3>2. CASE w.pc = "gone"
      BY <1>0, <1>1, <3>2 DEF HandleIndex
    <3> QED
      BY <1>1, <3>1, <3>2 DEF HandleIndex
  <2> QED
    BY <1>0, <1>1, <2>1 DEF HandleIndex
<1>2. CASE CompareDigest(w)
  <2>1. w.file # None /\ w.path[2] = "topic"
    BY <1>0, <1>2, WorkFields DEF CompareDigest
  <2>2. [w EXCEPT !.pc = "lance"] \in WorkType
    BY <1>0, <2>1, WorkGoes
  <2> QED
    BY <1>0, <1>2, <2>2 DEF CompareDigest, ReplaceWork, rows
<1>3. CASE UpsertLance(w)
  <2>1. w.file # None /\ w.path[2] = "topic"
    BY <1>0, <1>3, WorkFields DEF UpsertLance
  <2>2. [w EXCEPT !.pc = "sql"] \in WorkType /\ TopicRow(w) \in TopicRows
    BY <1>0, <2>1, WorkGoes, TopicRowType
  <2> QED
    BY <1>0, <1>3, <2>2 DEF UpsertLance, ReplaceWork
<1>4. CASE UpsertSql(w)
  <2>1. TopicRow(w) \in TopicRows
    BY <1>0, <1>4, WorkFields, TopicRowType DEF UpsertSql
  <2> QED
    BY <1>0, <1>4, <2>1 DEF UpsertSql
<1>5. CASE DeleteLance(w)
  <2>1. w.file = None /\ w.path[2] = "topic"
    BY <1>0, <1>5, WorkFields DEF DeleteLance
  <2>2. [w EXCEPT !.pc = "gone from lance"] \in WorkType
    BY <1>0, <2>1, WorkGoes
  <2> QED
    BY <1>0, <1>5, <2>2 DEF DeleteLance, ReplaceWork
<1>6. CASE DeleteSql(w)
  BY <1>0, <1>6 DEF DeleteSql
<1>7. CASE HandlerFails(w)
  <2>1. w.path \in Paths
    BY <1>0, WorkFields
  <2>2. faults' \in 0 .. MaxFaults
    <3>1. faults < MaxFaults /\ faults' = faults + 1
      BY <1>7 DEF HandlerFails
    <3> QED
      BY <1>0, <3>1, KnowledgeAssumption
  <2>3. /\ work' \subseteq work /\ pending' = pending \cup {w.path}
        /\ UNCHANGED <<dirs, docRow, lance, sql, call, last, kept>>
    BY <1>7 DEF HandlerFails, rows
  <2> QED
    BY <1>0, <2>1, <2>2, <2>3
<1> QED
  BY <1>1, <1>2, <1>3, <1>4, <1>5, <1>6, <1>7 DEF Handle

--------------------------------------------------------------------------------
(* Types. *)

LEMMA TypedInit == Init => Typed
<1> SUFFICES ASSUME Init PROVE Typed
    OBVIOUS
<1>1. NoCall \in GoodCall
  <2>1. NoCall \in CallType
    BY KnowledgeAssumption DEF NoCall, CallType, Kinds, Pcs, Versions
  <2> QED
    BY <2>1 DEF NoCall, GoodCall, CallOK, Writing, Patching
<1>2. OneCall
    BY DEF Init, OneCall, Open, NoCall
<1>3. 0 \in Versions /\ 0 \in 0 .. MaxFaults
    BY KnowledgeAssumption DEF Versions
<1> QED
    BY <1>1, <1>2, <1>3, EmptyGood DEF Init, Typed

LEMMA TypedStays ==
    ASSUME Typed, Next
    PROVE  Typed'
<1>0. /\ dirs \in [Dirs -> GoodDir] /\ call \in [Calls -> GoodCall] /\ OneCall
      /\ pending \subseteq Paths /\ work \subseteq WorkType
      /\ docRow \in DocRows \cup {None}
      /\ lance \in TopicRows \cup {None} /\ sql \in TopicRows \cup {None}
      /\ last \in Versions /\ kept \in BOOLEAN /\ faults \in 0 .. MaxFaults
    BY DEF Typed
<1>1. ASSUME NEW c \in Calls, Ask(c) PROVE Typed'
  <2>1. OneCall'
    BY <1>1, AskCalls DEF OneCall, Open
  <2>2. UNCHANGED <<dirs, pending, work, docRow, lance, sql, kept, faults>>
    BY <1>1, AskCalls DEF rows
  <2> QED
    BY <1>0, <1>1, <2>1, <2>2, AskCalls DEF Typed
<1>2. ASSUME NEW c \in Calls, Serve(c) PROVE Typed'
  <2>1. OneCall'
    BY <1>0, <1>2, ServeCalls DEF OneCall, Open
  <2>2. docRow' \in DocRows \cup {None}
    <3>1. CASE WriteRow(c)
      <4>1. /\ call[c].title \in Slugs /\ call[c].cat \in Cats /\ call[c].base \in Dirs
            /\ call[c].v \in Versions
        BY <1>0, <3>1 DEF WriteRow, GoodCall, CallOK, CallType, Patching
      <4> QED
        BY <3>1, <4>1 DEF WriteRow, DocRows
    <3>2. CASE ~WriteRow(c)
      BY <1>0, <1>2, <3>2
      DEF Serve, BackupDir, ClearDir, WriteIndex, WriteTopic, Answer, Fails, Aborts,
          RestoreBackup, Rewrite, MoveDoc, RetagTopics, RemoveDir, rows
    <3> QED
      BY <3>1, <3>2
  <2>3. kept' \in BOOLEAN
    BY <1>0, <1>2 DEF Serve, BackupDir, ClearDir, WriteIndex, WriteTopic,
       Answer, Fails, Aborts, RestoreBackup, Rewrite, MoveDoc, RetagTopics, WriteRow, RemoveDir
  <2>4. faults' \in 0 .. MaxFaults
    <3>1. CASE Fails(c) \/ Aborts(c)
      BY <1>0, <3>1, KnowledgeAssumption DEF Fails, Aborts
    <3>2. CASE ~Fails(c) /\ ~Aborts(c)
      BY <1>0, <1>2, <3>2 DEF Serve, BackupDir, ClearDir, WriteIndex, WriteTopic,
         Answer, RestoreBackup, Rewrite, MoveDoc, RetagTopics, WriteRow, RemoveDir
    <3> QED
      BY <3>1, <3>2
  <2> QED
    BY <1>0, <1>2, <2>1, <2>2, <2>3, <2>4, ServeCalls, ServeOnDisk, ServeLeaves DEF Typed
<1>3. CASE ClaimBatch
  <2>1. work' \subseteq WorkType
    BY <1>0, <1>3, ClaimedType DEF ClaimBatch
  <2>2. UNCHANGED <<dirs, docRow, lance, sql, call, last, kept, faults>> /\ pending' = {}
    BY <1>3 DEF ClaimBatch, rows
  <2>3. OneCall'
    BY <1>0, <2>2 DEF OneCall, Open
  <2> QED
    BY <1>0, <2>1, <2>2, <2>3 DEF Typed
<1>4. ASSUME NEW w \in work, Handle(w) PROVE Typed'
  <2>1. OneCall'
    BY <1>0, <1>4, HandleTyped DEF OneCall, Open
  <2> QED
    BY <1>0, <1>4, <2>1, HandleTyped DEF Typed
<1>5. CASE Crash
  <2>1. call' = [c \in Calls |-> IF Open(c) THEN [call[c] EXCEPT !.pc = "done"] ELSE call[c]]
    BY <1>5 DEF Crash
  <2>2. ASSUME NEW c \in Calls PROVE [call[c] EXCEPT !.pc = "done"] \in GoodCall
    <3> DEFINE x == [call[c] EXCEPT !.pc = "done"]
    <3>1. call[c] \in CallType /\ CallOK(call[c])
      BY <1>0 DEF GoodCall
    <3>2. /\ x \in CallType /\ x.pc = "done" /\ x.kind = call[c].kind /\ x.base = call[c].base
          /\ x.backup = call[c].backup
      BY <3>1 DEF CallType, Pcs
    <3> HIDE DEF x
    <3>3. x \in GoodCall
      BY <3>1, <3>2 DEF GoodCall, CallOK, Writing, Patching
    <3> QED
      BY <3>3 DEF x
  <2>3. call' \in [Calls -> GoodCall]
    BY <1>0, <2>1, <2>2
  <2>4. \A c \in Calls : ~Open(c)'
    <3>1. TAKE c \in Calls
    <3>2. CASE Open(c)
      <4>1. call'[c].pc = "done"
        BY <1>0, <2>1, <3>2 DEF GoodCall, CallType
      <4> QED
        BY <4>1 DEF Open
    <3>3. CASE ~Open(c)
      BY <2>1, <3>3 DEF Open
    <3> QED
      BY <3>2, <3>3
  <2>5. pending' \subseteq Paths
    BY <1>0, <1>5, WorkFields DEF Crash
  <2>6. faults' \in 0 .. MaxFaults
    BY <1>0, <1>5, KnowledgeAssumption DEF Crash
  <2>7. UNCHANGED <<dirs, docRow, lance, sql, last, kept>> /\ work' = {}
    BY <1>5 DEF Crash, rows
  <2> QED
    BY <1>0, <2>3, <2>4, <2>5, <2>6, <2>7 DEF Typed, OneCall
<1> QED
  BY <1>1, <1>2, <1>3, <1>4, <1>5 DEF Next

LEMMA TypedImplies == Typed => TypeOK
<1> SUFFICES ASSUME Typed PROVE TypeOK
    OBVIOUS
<1>1. dirs \in [Dirs -> DirType] /\ \A d \in Dirs : dirs[d] \in GoodDir
    BY DEF Typed, GoodDir
<1>2. \A d \in Dirs : dirs[d].index # None \/ dirs[d].topic # None => dirs[d].there
    BY <1>1 DEF GoodDir
<1>3. \A w \in work : w.path \in Paths
    BY WorkFields DEF Typed
<1> QED
    BY <1>1, <1>2, <1>3 DEF Typed, TypeOK, DirType

--------------------------------------------------------------------------------
(* What has been answered is kept. *)

LEMMA VersionedStays ==
    ASSUME Typed, Versioned, Next
    PROVE  Versioned'
<1>0. last \in Nat /\ kept \in BOOLEAN /\ call \in [Calls -> GoodCall] /\ OneCall
    BY KnowledgeAssumption DEF Typed, Versions
<1>1. ASSUME NEW c \in Calls, Ask(c) PROVE Versioned'
  <2>0. /\ call' \in [Calls -> GoodCall] /\ \A d \in Calls : ~Open(d)
        /\ \A d \in Calls \ {c} : call'[d] = call[d]
        /\ kept' = kept
    BY <1>1, AskCalls
  <2>1. CASE Delete(c)
    <3>1. last' = last /\ call'[c].kind = "delete"
      BY <1>0, <2>1 DEF Delete, Begin, NoCall
    <3> QED
      BY <2>0, <3>1 DEF Versioned, Open
  <2>2. ASSUME NEW title \in Slugs, NEW cat \in Cats, Create(c, title, cat) PROVE Versioned'
    <3>1. last = 0 /\ last' = 1
      BY <2>2 DEF Create
    <3> QED
      BY <2>0, <3>1 DEF Versioned
  <2>3. ASSUME NEW title \in Slugs, NEW cat \in Cats, Patch(c, title, cat) PROVE Versioned'
    <3>1. last' = last /\ call'[c].kind \in {"move", "retitle"}
      BY <1>0, <2>3 DEF Patch, Begin, NoCall
    <3> QED
      BY <2>0, <3>1 DEF Versioned, Open
  <2>4. ASSUME NEW title \in Slugs, NEW cat \in Cats, NEW v \in Versions,
               Replace(c, title, cat, v)
        PROVE  Versioned'
    <3>1. /\ v \in 1 .. last + 1 /\ last' = IF v > last THEN v ELSE last
          /\ call'[c].kind = "replace"
      BY <1>0, <2>4 DEF Replace, Begin, NoCall
    <3>2. last' > 0
      BY <1>0, <3>1
    <3> QED
      BY <2>0, <3>1, <3>2 DEF Versioned, Open
  <2> QED
    BY <1>1, <2>1, <2>2, <2>3, <2>4 DEF Ask
<1>2. ASSUME NEW c \in Calls, Serve(c) PROVE Versioned'
  <2>0. /\ last' = last /\ call'[c].kind = call[c].kind /\ Open(c)
        /\ \A d \in Calls \ {c} : call'[d] = call[d] /\ ~Open(d)
    BY <1>0, <1>2, ServeCalls, ServeLeaves DEF OneCall
  <2>1. CASE Answer(c)
    <3>1. call[c].kind \in {"create", "replace"}
      BY <1>0, <2>1 DEF Answer, GoodCall, CallOK, Writing
    <3>2. ~Open(c)'
      BY <1>0, <2>1 DEF Answer, Goto, Open, GoodCall, CallType
    <3> QED
      BY <2>0, <3>1, <3>2 DEF Versioned, Open
  <2>2. CASE ~Answer(c)
    <3>1. kept' => kept
      BY <1>2, <2>2 DEF Serve, BackupDir, ClearDir, WriteIndex, WriteTopic, Fails, Aborts,
         RestoreBackup, Rewrite, MoveDoc, RetagTopics, WriteRow, RemoveDir
    <3> QED
      BY <2>0, <3>1 DEF Versioned, Open
  <2> QED
    BY <2>1, <2>2
<1>3. CASE ClaimBatch
    BY <1>3 DEF ClaimBatch, Versioned, Open
<1>4. ASSUME NEW w \in work, Handle(w) PROVE Versioned'
    BY <1>4, HandleTyped DEF Versioned, Open
<1>5. CASE Crash
  <2>1. \A c \in Calls : call'[c].kind = call[c].kind /\ ~Open(c)'
    <3>1. TAKE c \in Calls
    <3>2. call'[c] = IF Open(c) THEN [call[c] EXCEPT !.pc = "done"] ELSE call[c]
      BY <1>5 DEF Crash
    <3>3. call[c] \in CallType
      BY <1>0 DEF GoodCall
    <3> QED
      BY <3>2, <3>3 DEF Open, CallType
  <2> QED
    BY <1>5, <2>1 DEF Crash, Versioned
<1> QED
  BY <1>1, <1>2, <1>3, <1>4, <1>5 DEF Next

\* A move loses neither a whole directory nor one inside another.
LEMMA MovedKeeps ==
    ASSUME Typed, NEW src \in Dirs, NEW dst \in Dirs, src # dst, dirs' = Moved(src, dst),
           \E d \in Dirs : Whole(d) \/ dirs[d].inner
    PROVE  \E d \in Dirs : Whole(d)' \/ dirs'[d].inner
<1>0. \A d \in Dirs \ {src, dst} : Moved(src, dst)[d] = dirs[d]
    BY MovedOthers
<1>1. PICK d \in Dirs : Whole(d) \/ dirs[d].inner
    OBVIOUS
<1>2. CASE d = src /\ ~dirs[dst].there
  <2>1. dirs'[dst] = dirs[d]
    BY <1>2, MovedDirs
  <2> QED
    BY <1>1, <2>1 DEF Whole
<1>3. CASE d = src /\ dirs[dst].there
  <2>1. dirs[dst] \in DirType
    BY DEF Typed, GoodDir
  <2>2. dirs'[dst] = [dirs[dst] EXCEPT !.inner = dirs[dst].inner \/ Whole(src) \/ dirs[src].inner]
    BY <1>3, MovedDirs
  <2>3. dirs'[dst].inner
    BY <1>1, <1>3, <2>1, <2>2 DEF DirType
  <2> QED
    BY <2>3
<1>4. CASE d = dst
  <2>1. dirs[dst] \in GoodDir
    BY DEF Typed
  <2>2. dirs[dst].there
    BY <1>1, <1>4, <2>1 DEF GoodDir, Whole
  <2>3. dirs'[dst] = [dirs[dst] EXCEPT !.inner = dirs[dst].inner \/ Whole(src) \/ dirs[src].inner]
    BY <2>2, MovedDirs
  <2>4. Whole(dst)' \/ dirs'[dst].inner
    BY <1>1, <1>4, <2>1, <2>3 DEF GoodDir, DirType, Whole
  <2> QED
    BY <2>4
<1>5. CASE d \notin {src, dst}
  <2>1. dirs'[d] = dirs[d]
    BY <1>0, <1>5
  <2> QED
    BY <1>1, <2>1 DEF Whole
<1> QED
  BY <1>2, <1>3, <1>4, <1>5

\* A step that leaves the disk and starts nothing that writes.
LEMMA CopyFrame ==
    ASSUME CopyInv, UNCHANGED <<dirs, kept>>, mishaps \subseteq mishaps',
           \A c \in Calls : call'[c] = call[c] \/ call'[c].pc \notin Writing
                            \/ (call'[c].pc = "extract" /\ ~kept)
    PROVE  CopyBeside' /\ CopyKept'
<1>1. CopyKept'
    BY DEF CopyInv, CopyKept, Without, Whole
<1>2. ASSUME NEW c \in Calls, call'[c] = call[c]
      PROVE  /\ call'[c].pc \in {"topic", "original"} => dirs'[Target(c)'].index # None
             /\ call'[c].pc = "original" => dirs'[Target(c)'].topic # None
             /\ call'[c].pc \in Writing /\ kept' /\ Without({"stale"})' =>
                  /\ call'[c].backup # None
                  /\ Whole(call[c].backup)' \/ dirs'[call'[c].backup].inner
  <2>1. Target(c)' = Target(c) /\ (Without({"stale"})' => Without({"stale"}))
    BY <1>2 DEF Target, Without
  <2> QED
    BY <1>2, <2>1 DEF CopyInv, CopyBeside, Whole
<1>3. CopyBeside'
    BY <1>2 DEF CopyBeside, Writing, Whole
<1> QED
  BY <1>1, <1>3

\* A call that writes its directory leaves the copy beside it.
LEMMA WriteKeeps ==
    ASSUME Typed, CopyInv, NEW c \in Calls, call[c].pc \in Writing, UNCHANGED kept,
           mishaps' = mishaps, call'[c].backup = call[c].backup,
           \A d \in Dirs \ {Target(c)} : dirs'[d] = dirs[d],
           \A d \in Calls \ {c} : call'[d].pc \notin Writing,
           Target(c)' = Target(c),
           call'[c].pc \in {"topic", "original"} => dirs'[Target(c)].index # None,
           call'[c].pc = "original" => dirs'[Target(c)].topic # None
    PROVE  CopyBeside' /\ CopyKept'
<1>1. ASSUME kept, Without({"stale"})
      PROVE  /\ call[c].backup \in Dirs \ {Target(c)} /\ call[c].backup # None
             /\ Whole(call[c].backup)' \/ dirs'[call[c].backup].inner
  <2>1. call[c].backup # None /\ (Whole(call[c].backup) \/ dirs[call[c].backup].inner)
    BY <1>1 DEF CopyInv, CopyBeside
  <2>2. call[c].backup \in Dirs /\ call[c].backup.depth > 0 /\ Target(c).depth = 0
    BY <2>1, BaseDir, TargetDir
  <2>3. dirs'[call[c].backup] = dirs[call[c].backup] /\ call[c].backup # Target(c)
    BY <2>2
  <2>4. Whole(call[c].backup)' \/ dirs'[call[c].backup].inner
    BY <2>1, <2>3 DEF Whole
  <2> QED
    BY <2>1, <2>2, <2>3, <2>4
<1>2. Without({"stale"})' = Without({"stale"})
    BY DEF Without
<1>3. CopyKept'
    BY <1>1, <1>2 DEF CopyKept, Whole
<1>4. CopyBeside'
    BY <1>1, <1>2 DEF CopyBeside, Whole, Writing
<1> QED
  BY <1>3, <1>4

LEMMA CopyStays ==
    ASSUME Typed, CopyInv, Next
    PROVE  CopyInv'
<1> SUFFICES CopyBeside' /\ CopyKept'
    BY VersionedStays DEF CopyInv
<1> DEFINE Goal == CopyBeside' /\ CopyKept'
<1> HIDE DEF Goal
<1> SUFFICES Goal
    BY DEF Goal
<1>0. /\ dirs \in [Dirs -> GoodDir] /\ call \in [Calls -> GoodCall] /\ OneCall
      /\ kept \in BOOLEAN
    BY DEF Typed
<1>a. ASSUME UNCHANGED <<dirs, kept>>, mishaps \subseteq mishaps',
             \A c \in Calls : call'[c] = call[c] \/ call'[c].pc \notin Writing
                              \/ (call'[c].pc = "extract" /\ ~kept)
      PROVE  Goal
    BY <1>a, CopyFrame DEF Goal
<1>1. ASSUME NEW c \in Calls, Ask(c) PROVE Goal
  <2>1. /\ UNCHANGED <<dirs, kept>> /\ \A d \in Calls \ {c} : call'[d] = call[d]
        /\ mishaps \subseteq mishaps'
    BY <1>1, AskCalls, AskStarts
  <2>2. call'[c].pc \notin Writing \/ (call'[c].pc = "extract" /\ ~kept)
    <3>1. CASE Delete(c)
      <4>1. call'[c].pc = "remove"
        BY <1>0, <3>1 DEF Delete, Begin, NoCall
      <4> QED
        BY <4>1 DEF Writing
    <3>2. ASSUME NEW title \in Slugs, NEW cat \in Cats, Create(c, title, cat)
          PROVE  call'[c].pc = "extract" /\ ~kept
      <4>1. call'[c].pc = "extract" /\ last = 0
        BY <1>0, <3>2 DEF Create, Begin, NoCall
      <4> QED
        BY <1>0, <4>1 DEF CopyInv, Versioned
    <3>3. ASSUME NEW title \in Slugs, NEW cat \in Cats, Patch(c, title, cat)
          PROVE  call'[c].pc \notin Writing
      <4>1. call'[c].pc = "rewrite"
        BY <1>0, <3>3 DEF Patch, Begin, NoCall
      <4> QED
        BY <4>1 DEF Writing
    <3>4. ASSUME NEW title \in Slugs, NEW cat \in Cats, NEW v \in Versions,
                 Replace(c, title, cat, v)
          PROVE  call'[c].pc \notin Writing
      <4>1. call'[c].pc = "backup"
        BY <1>0, <3>4 DEF Replace, Begin, NoCall
      <4> QED
        BY <4>1 DEF Writing
    <3> QED
      BY <1>1, <3>1, <3>2, <3>3, <3>4 DEF Ask
  <2> QED
    BY <1>a, <2>1, <2>2
<1>2. ASSUME NEW c \in Calls, Serve(c) PROVE Goal
  <2>0. /\ \A d \in Calls \ {c} : call'[d] = call[d] /\ call'[d].pc \notin Writing
        /\ call[c] \in CallType /\ CallOK(call[c]) /\ mishaps \subseteq mishaps'
        /\ call'[c].title = call[c].title /\ call'[c].cat = call[c].cat
    BY <1>0, <1>2, ServeCalls, ServeLeaves DEF OneCall, Open, Writing, GoodCall
  <2>a. \A pc : Goto(c, pc) => call'[c] = [call[c] EXCEPT !.pc = pc] /\ call'[c].pc = pc
                               /\ call'[c].backup = call[c].backup
    BY <1>0, <2>0 DEF Goto, CallType
  <2>b. Target(c)' = Target(c)
    BY <2>0 DEF Target
  <2>c. Without({"stale"})' => Without({"stale"})
    BY <2>0 DEF Without
  \* A call that has nothing more to write.
  <2>d. ASSUME UNCHANGED kept, call'[c].pc \notin Writing,
               (\E d \in Dirs : Whole(d) \/ dirs[d].inner)
                 => \E d \in Dirs : Whole(d)' \/ dirs'[d].inner
        PROVE  Goal
    BY <2>0, <2>c, <2>d DEF Goal, CopyBeside, CopyKept, CopyInv, Writing
  <2>1. CASE BackupDir(c)
    <3>1. CASE docRow # None /\ dirs[docRow.dir].there
      <4>1. /\ docRow.dir \in Dirs /\ [docRow.dir EXCEPT !.depth = @ + 1] \in Dirs
            /\ docRow.dir # [docRow.dir EXCEPT !.depth = @ + 1]
        BY <2>1, <3>1, BackupNames
      <4>0. PICK dst \in Dirs : dst = [docRow.dir EXCEPT !.depth = @ + 1]
        BY <4>1
      <4>5. /\ dirs' = Moved(docRow.dir, dst) /\ kept' = kept
            /\ RowIsStale => "stale" \in mishaps'
            /\ call' = [call EXCEPT ![c] = [call[c] EXCEPT !.pc = "extract", !.base = docRow.dir,
                                                          !.backup = dst]]
        BY <2>1, <3>1, <4>0 DEF BackupDir, Disk
      <4>6. call'[c].pc = "extract" /\ call'[c].backup = dst
        BY <1>0, <2>0, <4>5 DEF CallType
      <4>2. ASSUME kept, Without({"stale"})'
            PROVE  dst # None /\ (Whole(dst)' \/ dirs'[dst].inner)
        <5>1. ~RowIsStale /\ \A d \in Dirs \ {docRow.dir} : ~dirs[d].there
          BY <4>2, <4>5 DEF Without, RowIsStale
        <5>2. PICK d \in Dirs : Whole(d) \/ dirs[d].inner
          BY <2>c, <4>2 DEF CopyInv, CopyKept
        <5>3. dirs[d].there
          BY <1>0, <5>2 DEF GoodDir, Whole
        <5>4. d = docRow.dir /\ ~dirs[dst].there
          BY <4>0, <4>1, <5>1, <5>3
        <5>5. dirs'[dst] = dirs[d]
          BY <4>0, <4>1, <4>5, <5>4, MovedDirs
        <5> QED
          BY <5>2, <5>5, NoneAssumption DEF Whole
      <4>3. CopyKept'
        BY <4>2, <4>5 DEF CopyKept
      <4>4. CopyBeside'
        BY <2>0, <4>2, <4>5, <4>6 DEF CopyBeside, Writing, Whole
      <4> QED
        BY <4>3, <4>4 DEF Goal
    <3>2. CASE ~(docRow # None /\ dirs[docRow.dir].there)
      <4>1. /\ dirs' = dirs /\ kept' = kept /\ call'[c].pc = "extract"
            /\ RowIsStale => "stale" \in mishaps'
        BY <2>1, <2>a, <3>2 DEF BackupDir, Mishap
      <4>2. ~(kept /\ Without({"stale"})')
        <5>1. SUFFICES ASSUME kept, Without({"stale"})' PROVE FALSE
          OBVIOUS
        <5>2. ~RowIsStale
          BY <4>1, <5>1 DEF Without
        <5>3. PICK d \in Dirs : Whole(d) \/ dirs[d].inner
          BY <2>c, <5>1 DEF CopyInv, CopyKept
        <5>4. dirs[d].there
          BY <1>0, <5>3 DEF GoodDir, Whole
        <5> QED
          BY <3>2, <5>2, <5>4 DEF RowIsStale
      <4> QED
        BY <2>0, <4>1, <4>2 DEF Goal, CopyBeside, CopyKept, Writing
    <3> QED
      BY <3>1, <3>2
  <2>2. CASE ClearDir(c)
    <3>1. /\ call[c].pc \in Writing /\ UNCHANGED <<kept, mishaps>> /\ Goto(c, "index")
          /\ dirs' = [dirs EXCEPT ![Target(c)] = EmptyDir]
      BY <2>2 DEF ClearDir, Writing, Disk
    <3>2. \A d \in Dirs \ {Target(c)} : dirs'[d] = dirs[d]
      BY <3>1, TargetDir, PutDir, EmptyGood
    <3>3. call'[c].pc = "index" /\ call'[c].backup = call[c].backup
      BY <2>a, <3>1
    <3> QED
      BY <2>0, <2>b, <3>1, <3>2, <3>3, WriteKeeps DEF Goal
  <2>3. CASE WriteIndex(c)
    <3> DEFINE file == [title |-> call[c].title, cat |-> call[c].cat, v |-> call[c].v]
               x == [dirs[Target(c)] EXCEPT !.there = TRUE, !.index = file]
    <3>1. /\ call[c].pc \in Writing /\ UNCHANGED <<kept, mishaps>> /\ Goto(c, "topic")
          /\ dirs' = [dirs EXCEPT ![Target(c)] = x] /\ Target(c) \in Dirs
      BY <2>3, TargetDir DEF WriteIndex, Writing, Disk
    <3>2. file \in IndexFile
      BY <2>0, <3>1 DEF IndexFile, CallType, CallOK
    <3>3. x.index = file /\ file # None
      BY <1>0, <3>1, <3>2, NoneAssumption DEF GoodDir, DirType
    <3> HIDE DEF x, file
    <3>4. dirs'[Target(c)].index # None /\ \A d \in Dirs \ {Target(c)} : dirs'[d] = dirs[d]
      BY <1>0, <3>1, <3>3
    <3>5. call'[c].pc = "topic" /\ call'[c].backup = call[c].backup
      BY <2>a, <3>1
    <3> QED
      BY <2>0, <2>b, <3>1, <3>4, <3>5, WriteKeeps DEF Goal
  <2>4. CASE WriteTopic(c)
    <3> DEFINE file == [cat |-> call[c].cat, v |-> call[c].v]
               x == [dirs[Target(c)] EXCEPT !.there = TRUE, !.topic = file]
    <3>1. /\ call[c].pc = "topic" /\ call[c].pc \in Writing /\ UNCHANGED <<kept, mishaps>>
          /\ Goto(c, "original")
          /\ dirs' = [dirs EXCEPT ![Target(c)] = x] /\ Target(c) \in Dirs
      BY <2>4, TargetDir DEF WriteTopic, Writing, Disk
    <3>2. file \in TopicFile
      BY <2>0, <3>1 DEF TopicFile, CallType, CallOK
    <3>3. x.topic = file /\ file # None /\ x.index = dirs[Target(c)].index
      BY <1>0, <3>1, <3>2, NoneAssumption DEF GoodDir, DirType
    <3>4. dirs[Target(c)].index # None
      BY <3>1 DEF CopyInv, CopyBeside
    <3> HIDE DEF x, file
    <3>5. /\ dirs'[Target(c)].topic # None /\ dirs'[Target(c)].index # None
          /\ \A d \in Dirs \ {Target(c)} : dirs'[d] = dirs[d]
      BY <1>0, <3>1, <3>3, <3>4
    <3>6. call'[c].pc = "original" /\ call'[c].backup = call[c].backup
      BY <2>a, <3>1
    <3> QED
      BY <2>0, <2>b, <3>1, <3>5, <3>6, WriteKeeps DEF Goal
  <2>5. CASE Answer(c)
    <3>1. /\ call[c].pc = "original" /\ call'[c].pc = "done"
          /\ call[c].backup # None => dirs' = [dirs EXCEPT ![call[c].backup] = NoDir]
          /\ call[c].backup = None => dirs' = dirs
      BY <2>5, <2>a DEF Answer, Disk
    <3>2. Target(c) \in Dirs /\ Target(c).depth = 0 /\ Whole(Target(c))
      BY <3>1, TargetDir DEF CopyInv, CopyBeside, Whole, Writing
    <3>3. dirs'[Target(c)] = dirs[Target(c)]
      <4>1. CASE call[c].backup # None
        <5>1. call[c].backup \in Dirs /\ call[c].backup # Target(c)
          BY <3>2, <4>1, BaseDir
        <5> QED
          BY <1>0, <3>1, <3>2, <4>1, <5>1
      <4> QED
        BY <3>1, <4>1
    <3>4. Whole(Target(c))'
      BY <2>b, <3>2, <3>3 DEF Whole
    <3>5. \E d \in Dirs : Whole(d)'
      BY <2>b, <3>2, <3>4
    <3> QED
      BY <2>0, <3>1, <3>5 DEF Goal, CopyKept, CopyBeside, Writing
  <2>6. CASE Fails(c) \/ Aborts(c)
    <3>1. PICK pc \in {"restore", "done"} : Goto(c, pc)
      BY <2>6 DEF Fails, Aborts
    <3>2. call'[c].pc \notin Writing
      BY <2>a, <3>1 DEF Writing
    <3> QED
      BY <2>6, <2>d, <3>2 DEF Fails, Aborts, Whole
  <2>7. CASE RestoreBackup(c)
    <3>1. call'[c].pc = "done" /\ kept' = kept
      BY <2>7, <2>a DEF RestoreBackup
    <3>2. CASE dirs[call[c].backup].there
      <4>1. /\ call[c].base \in Dirs /\ call[c].backup \in Dirs /\ call[c].backup # call[c].base
            /\ dirs' = Moved(call[c].backup, call[c].base)
        BY <2>7, <3>2, BaseDir DEF RestoreBackup, Disk
      <4> QED
        BY <2>d, <3>1, <4>1, MovedKeeps DEF Writing
    <3>3. CASE ~dirs[call[c].backup].there
      BY <2>7, <2>d, <3>1, <3>3 DEF RestoreBackup, Writing, Whole
    <3> QED
      BY <3>2, <3>3
  <2>8. CASE Rewrite(c)
    <3>0. PICK pc \in {"move", "row", "done"} : Goto(c, pc)
      BY <2>8 DEF Rewrite
    <3>1. call'[c].pc \notin Writing /\ kept' = kept /\ call[c].base \in Dirs
          /\ call[c].title \in Slugs /\ call[c].cat \in Cats
      BY <2>0, <2>8, <2>a, <3>0 DEF Rewrite, Writing, CallOK, Patching
    <3>2. CASE dirs[call[c].base].index # None
      <4> DEFINE b == call[c].base
                 file == [dirs[b].index EXCEPT !.title = call[c].title, !.cat = call[c].cat]
                 x == [dirs[b] EXCEPT !.index = file]
      <4>1. file \in IndexFile /\ dirs[b] \in DirType
        BY <1>0, <3>1, <3>2 DEF GoodDir, DirType, IndexFile
      <4>2. x.index # None /\ x.topic = dirs[b].topic /\ x.inner = dirs[b].inner
        BY <4>1, NoneAssumption DEF DirType
      <4>3. dirs' = [dirs EXCEPT ![b] = x]
        BY <2>8, <3>2 DEF Rewrite, Disk
      <4> HIDE DEF x
      <4>4. \A d \in Dirs : (Whole(d) => Whole(d)') /\ (dirs[d].inner => dirs'[d].inner)
        BY <1>0, <3>1, <4>2, <4>3 DEF Whole
      <4> QED
        BY <2>d, <3>1, <4>4
    <3>3. CASE dirs[call[c].base].index = None
      BY <2>8, <2>d, <3>1, <3>3 DEF Rewrite, Whole
    <3> QED
      BY <3>2, <3>3
  <2>9. CASE MoveDoc(c)
    <3> DEFINE src == call[c].base
               dst == [src EXCEPT !.cat = call[c].cat]
    <3>1. kept' = kept /\ src \in Dirs /\ dst \in Dirs
      BY <2>9, MoveNames DEF MoveDoc
    <3>2. CASE dirs[src].there /\ src # dst
      <4>0. /\ Disk(Moved(src, dst))
            /\ call' = [call EXCEPT ![c] = [call[c] EXCEPT !.pc = "retag", !.base = dst]]
        BY <2>9, <3>2 DEF MoveDoc
      <4>1. call'[c].pc = "retag" /\ dirs' = Moved(src, dst)
        BY <1>0, <2>0, <4>0 DEF Disk, CallType
      <4> QED
        BY <2>d, <3>1, <3>2, <4>1, MovedKeeps DEF Writing
    <3>3. CASE ~(dirs[src].there /\ src # dst)
      <4>1. dirs' = dirs /\ Goto(c, "done")
        BY <2>9, <3>3 DEF MoveDoc
      <4>2. call'[c].pc = "done"
        BY <2>a, <4>1
      <4> QED
        BY <2>d, <3>1, <4>1, <4>2 DEF Whole, Writing
    <3> QED
      BY <3>2, <3>3
  <2>10. CASE RetagTopics(c)
    <3>0. PICK pc \in {"row", "done"} : Goto(c, pc)
      BY <2>10 DEF RetagTopics
    <3>1. call'[c].pc \notin Writing /\ kept' = kept /\ call[c].base \in Dirs
          /\ call[c].cat \in Cats
      BY <2>0, <2>10, <2>a, <3>0 DEF RetagTopics, Writing, CallOK, Patching
    <3>2. CASE dirs[call[c].base].there
      <4> DEFINE b == call[c].base
                 file == IF dirs[b].topic = None THEN None
                         ELSE [dirs[b].topic EXCEPT !.cat = call[c].cat]
                 x == [dirs[b] EXCEPT !.topic = file]
      <4>1. dirs[b] \in DirType /\ (dirs[b].topic # None => file \in TopicFile)
        BY <1>0, <3>1 DEF GoodDir, DirType, TopicFile
      <4>2. /\ x.index = dirs[b].index /\ x.inner = dirs[b].inner
            /\ dirs[b].topic # None => x.topic # None
        BY <4>1, NoneAssumption DEF DirType
      <4>3. dirs' = [dirs EXCEPT ![b] = x]
        BY <2>10, <3>2 DEF RetagTopics, Disk
      <4> HIDE DEF x
      <4>4. \A d \in Dirs : (Whole(d) => Whole(d)') /\ (dirs[d].inner => dirs'[d].inner)
        BY <1>0, <3>1, <4>2, <4>3 DEF Whole
      <4> QED
        BY <2>d, <3>1, <4>4
    <3>3. CASE ~dirs[call[c].base].there
      BY <2>10, <2>d, <3>1, <3>3 DEF RetagTopics, Whole
    <3> QED
      BY <3>2, <3>3
  <2>11. CASE WriteRow(c)
    BY <2>11, <2>a, <2>d DEF WriteRow, Writing, Whole
  <2>12. CASE RemoveDir(c)
    <3>1. /\ call'[c].pc = "done" /\ call[c].base \in Dirs
          /\ dirs' = [dirs EXCEPT ![call[c].base] = NoDir]
          /\ kept' = (kept /\ ~dirs[call[c].base].there)
      BY <2>12, <2>a, BaseDir DEF RemoveDir, Disk
    <3>2. CopyKept'
      <4>1. SUFFICES ASSUME kept, ~dirs[call[c].base].there, Without({"stale"})
                     PROVE  \E d \in Dirs : Whole(d)' \/ dirs'[d].inner
        BY <2>c, <3>1 DEF CopyKept
      <4>2. PICK d \in Dirs : Whole(d) \/ dirs[d].inner
        BY <4>1 DEF CopyInv, CopyKept
      <4>3. dirs[d].there
        BY <1>0, <4>2 DEF GoodDir, Whole
      <4>4. dirs'[d] = dirs[d]
        BY <1>0, <3>1, <4>1, <4>3
      <4> QED
        BY <4>2, <4>4 DEF Whole
    <3> QED
      BY <2>0, <3>1, <3>2 DEF Goal, CopyBeside, Writing
  <2> QED
    BY <1>2, <2>1, <2>2, <2>3, <2>4, <2>5, <2>6, <2>7, <2>8, <2>9, <2>10, <2>11, <2>12 DEF Serve
<1>3. CASE ClaimBatch
    BY <1>3, <1>a DEF ClaimBatch, Mishap
<1>4. ASSUME NEW w \in work, Handle(w) PROVE Goal
  <2>1. mishaps \subseteq mishaps'
    BY <1>4
    DEF Handle, HandleIndex, CompareDigest, UpsertLance, UpsertSql, DeleteLance, DeleteSql,
        HandlerFails, Mishap
  <2> QED
    BY <1>4, <1>a, <2>1, HandleTyped
<1>5. CASE Crash
  <2>1. \A c \in Calls : call'[c] = call[c] \/ call'[c].pc \notin Writing
    <3>1. TAKE c \in Calls
    <3>2. call'[c] = IF Open(c) THEN [call[c] EXCEPT !.pc = "done"] ELSE call[c]
      BY <1>5 DEF Crash
    <3>3. call[c] \in CallType
      BY <1>0 DEF GoodCall
    <3> QED
      BY <3>2, <3>3 DEF Writing, CallType
  <2> QED
    BY <1>5, <1>a, <2>1 DEF Crash, Mishap
<1> QED
  BY <1>1, <1>2, <1>3, <1>4, <1>5 DEF Next

--------------------------------------------------------------------------------
(* No row is left behind. *)

\* A handler ends, goes on or is made again; the others stay.
LEMMA HandleWork ==
    ASSUME Typed, NEW w \in work, Handle(w)
    PROVE  /\ work \ {w} \subseteq work' /\ pending \subseteq pending' /\ mishaps \subseteq mishaps'
           /\ \A x \in work' : x \in work \ {w} \/ (x.path = w.path /\ x.file = w.file)
<1>0. w \in WorkType
    BY DEF Typed
<1>1. ASSUME NEW pc, ReplaceWork(w, pc)
      PROVE  /\ work \ {w} \subseteq work'
             /\ \A x \in work' : x \in work \ {w} \/ (x.path = w.path /\ x.file = w.file)
  <2>1. [w EXCEPT !.pc = pc].path = w.path /\ [w EXCEPT !.pc = pc].file = w.file
    BY <1>0 DEF WorkType
  <2> QED
    BY <1>1, <2>1 DEF ReplaceWork
<1>2. CASE CompareDigest(w)
    BY <1>1, <1>2 DEF CompareDigest, Mishap
<1>3. CASE UpsertLance(w)
    BY <1>1, <1>3 DEF UpsertLance, Mishap
<1>4. CASE DeleteLance(w)
    BY <1>1, <1>4 DEF DeleteLance
<1>5. CASE HandleIndex(w) \/ UpsertSql(w) \/ DeleteSql(w) \/ HandlerFails(w)
    BY <1>5 DEF HandleIndex, UpsertSql, DeleteSql, HandlerFails, Mishap
<1> QED
  BY <1>2, <1>3, <1>4, <1>5 DEF Handle

LEMMA ReadIsFileStays ==
    ASSUME Typed, ReadIsFile, Next
    PROVE  ReadIsFile'
<1>0. work \subseteq WorkType /\ pending \subseteq Paths
    BY DEF Typed
<1>1. ASSUME NEW c \in Calls, Ask(c) PROVE ReadIsFile'
    BY <1>1, AskCalls DEF ReadIsFile, File
<1>2. ASSUME NEW c \in Calls, Serve(c) PROVE ReadIsFile'
  <2>1. /\ work' = work /\ pending \subseteq pending'
        /\ \A w \in work : File(w.path)' = File(w.path) \/ w.path \in pending'
    BY <1>0, <1>2, ServeLeaves, WorkFields
  <2> QED
    BY <2>1 DEF ReadIsFile, File
<1>3. CASE ClaimBatch
  <2>1. \A w \in work' : w.file = File(w.path)
    BY <1>3 DEF ClaimBatch, Working, File
  <2>2. \A w, x \in work' : w.path = x.path => w = x
    BY <1>3 DEF ClaimBatch, Working, File
  <2>3. dirs' = dirs
    BY <1>3 DEF ClaimBatch
  <2> QED
    BY <2>1, <2>2, <2>3 DEF ReadIsFile, File
<1>4. ASSUME NEW w \in work, Handle(w) PROVE ReadIsFile'
  <2>1. dirs' = dirs /\ pending \subseteq pending'
    BY <1>4, HandleTyped, HandleWork
  <2>2. \A x \in work' : x.file = File(x.path) \/ x.path \in pending
    BY <1>4, HandleWork DEF ReadIsFile
  <2>3. \A x, y \in work' : x.path = y.path => x = y
    <3>1. ASSUME NEW pc, ReplaceWork(w, pc) PROVE \A x, y \in work' : x.path = y.path => x = y
      <4>1. [w EXCEPT !.pc = pc].path = w.path
        BY <1>0 DEF WorkType
      <4> QED
        BY <3>1, <4>1 DEF ReplaceWork, ReadIsFile
    <3>2. \/ \E pc : ReplaceWork(w, pc)
          \/ work' = work \ {w}
      BY <1>4 DEF Handle, HandleIndex, CompareDigest, UpsertLance, UpsertSql, DeleteLance,
         DeleteSql, HandlerFails
    <3> QED
      BY <3>1, <3>2 DEF ReadIsFile
  <2> QED
    BY <2>1, <2>2, <2>3 DEF ReadIsFile, File
<1>5. CASE Crash
    BY <1>5 DEF Crash, ReadIsFile
<1> QED
  BY <1>1, <1>2, <1>3, <1>4, <1>5 DEF Next

LEMMA PatchHasIndexStays ==
    ASSUME Typed, PatchHasIndex, Next
    PROVE  PatchHasIndex'
<1>0. dirs \in [Dirs -> GoodDir] /\ call \in [Calls -> GoodCall] /\ OneCall
    BY DEF Typed
<1>a. ASSUME dirs' = dirs, mishaps \subseteq mishaps',
             \A c \in Calls : call'[c] = call[c] \/ call'[c].pc \notin {"move", "retag", "row"}
      PROVE  PatchHasIndex'
    BY <1>a DEF PatchHasIndex, Without
<1>1. ASSUME NEW c \in Calls, Ask(c) PROVE PatchHasIndex'
  <2>1. call'[c].pc \in {"extract", "backup", "rewrite", "remove"} /\ mishaps \subseteq mishaps'
    BY <1>1, AskStarts
  <2> QED
    BY <1>1, <1>a, <2>1, AskCalls
<1>2. ASSUME NEW c \in Calls, Serve(c) PROVE PatchHasIndex'
  <2>0. /\ \A d \in Calls \ {c} : call'[d] = call[d] /\ call'[d].pc \notin {"move", "retag", "row"}
        /\ call[c] \in CallType /\ CallOK(call[c]) /\ mishaps \subseteq mishaps'
    BY <1>0, <1>2, ServeCalls, ServeLeaves DEF OneCall, Open, GoodCall
  <2>a. \A pc : Goto(c, pc) => call'[c].pc = pc /\ call'[c].base = call[c].base
    BY <1>0, <2>0 DEF Goto, CallType
  <2>b. ASSUME call'[c].pc \in {"move", "retag", "row"} /\ Without({"nested"})' =>
                    dirs'[call'[c].base].index # None
        PROVE  PatchHasIndex'
    BY <2>0, <2>b DEF PatchHasIndex
  <2>c. Without({"nested"})' => Without({"nested"})
    BY <2>0 DEF Without
  <2>1. CASE Rewrite(c)
    <3>1. call[c].base \in Dirs /\ call[c].title \in Slugs /\ call[c].cat \in Cats
      BY <2>0, <2>1 DEF Rewrite, CallOK, Patching
    <3>2. CASE dirs[call[c].base].index # None
      <4> DEFINE b == call[c].base
                 file == [dirs[b].index EXCEPT !.title = call[c].title, !.cat = call[c].cat]
                 x == [dirs[b] EXCEPT !.index = file]
      <4>1. file \in IndexFile /\ dirs[b] \in DirType
        BY <1>0, <3>1, <3>2 DEF GoodDir, DirType, IndexFile
      <4>2. x.index # None
        BY <4>1, NoneAssumption DEF DirType
      <4>3. dirs' = [dirs EXCEPT ![b] = x]
        BY <2>1, <3>2 DEF Rewrite, Disk
      <4>4. call'[c].base = b
        BY <2>1, <2>a, <3>2 DEF Rewrite
      <4> HIDE DEF x
      <4>5. dirs'[b].index # None
        BY <1>0, <3>1, <4>2, <4>3
      <4> QED
        BY <2>b, <4>4, <4>5
    <3>3. CASE dirs[call[c].base].index = None
      <4>1. call'[c].pc = "done"
        BY <2>1, <2>a, <3>3 DEF Rewrite
      <4> QED
        BY <2>b, <4>1
    <3> QED
      BY <3>2, <3>3
  <2>2. CASE MoveDoc(c)
    <3> DEFINE src == call[c].base
               dst == [src EXCEPT !.cat = call[c].cat]
    <3>1. src \in Dirs /\ dst \in Dirs
      BY <2>2, MoveNames DEF MoveDoc
    <3>2. CASE dirs[src].there /\ src # dst
      <4>1. /\ call'[c].base = dst /\ dirs' = Moved(src, dst)
            /\ dirs[dst].there => "nested" \in mishaps'
        <5>1. /\ Disk(Moved(src, dst)) /\ Mishap("nested", dirs[dst].there)
              /\ call' = [call EXCEPT ![c] = [call[c] EXCEPT !.pc = "retag", !.base = dst]]
          BY <2>2, <3>2 DEF MoveDoc
        <5>2. call'[c].base = dst
          BY <1>0, <2>0, <5>1 DEF CallType
        <5> QED
          BY <5>1, <5>2 DEF Disk, Mishap
      <4>2. ASSUME Without({"nested"})' PROVE dirs'[dst].index # None
        <5>1. ~dirs[dst].there
          BY <4>1, <4>2 DEF Without
        <5>2. dirs'[dst] = dirs[src]
          BY <3>1, <3>2, <4>1, <5>1, MovedAside
        <5>3. dirs[src].index # None
          BY <2>2, <2>c, <4>2 DEF MoveDoc, PatchHasIndex
        <5> QED
          BY <5>2, <5>3
      <4> QED
        BY <2>b, <4>1, <4>2
    <3>3. CASE ~(dirs[src].there /\ src # dst)
      <4>1. Goto(c, "done")
        BY <2>2, <3>3 DEF MoveDoc
      <4>2. call'[c].pc = "done"
        BY <2>a, <4>1
      <4> QED
        BY <2>b, <4>2
    <3> QED
      BY <3>2, <3>3
  <2>3. CASE RetagTopics(c)
    <3>1. call[c].base \in Dirs /\ call[c].cat \in Cats /\ call[c].pc = "retag"
      BY <2>0, <2>3 DEF RetagTopics, CallOK, Patching
    <3>2. CASE dirs[call[c].base].there
      <4> DEFINE b == call[c].base
                 file == IF dirs[b].topic = None THEN None
                         ELSE [dirs[b].topic EXCEPT !.cat = call[c].cat]
                 x == [dirs[b] EXCEPT !.topic = file]
      <4>1. dirs[b] \in DirType
        BY <1>0, <3>1 DEF GoodDir
      <4>2. x.index = dirs[b].index
        BY <4>1 DEF DirType
      <4>3. dirs' = [dirs EXCEPT ![b] = x]
        BY <2>3, <3>2 DEF RetagTopics, Disk
      <4>4. call'[c].base = b
        BY <2>3, <2>a, <3>2 DEF RetagTopics
      <4> HIDE DEF x
      <4>5. dirs'[b].index = dirs[b].index
        BY <1>0, <3>1, <4>2, <4>3
      <4> QED
        BY <2>b, <2>c, <3>1, <4>4, <4>5 DEF PatchHasIndex
    <3>3. CASE ~dirs[call[c].base].there
      <4>1. call'[c].pc = "done"
        BY <2>3, <2>a, <3>3 DEF RetagTopics
      <4> QED
        BY <2>b, <4>1
    <3> QED
      BY <3>2, <3>3
  <2>4. CASE BackupDir(c)
    <3>1. call'[c].pc = "extract"
      BY <2>4, BackupGoes
    <3> QED
      BY <2>b, <3>1
  <2>5. CASE ClearDir(c) \/ WriteIndex(c) \/ WriteTopic(c) \/ Answer(c)
    <3>1. PICK pc \in {"index", "topic", "original", "done"} : Goto(c, pc)
      BY <2>5 DEF ClearDir, WriteIndex, WriteTopic, Answer
    <3> QED
      BY <2>a, <2>b, <3>1
  <2>6. CASE Fails(c) \/ Aborts(c) \/ RestoreBackup(c) \/ WriteRow(c) \/ RemoveDir(c)
    <3>1. PICK pc \in {"restore", "done"} : Goto(c, pc)
      BY <2>6 DEF Fails, Aborts, RestoreBackup, WriteRow, RemoveDir
    <3> QED
      BY <2>a, <2>b, <3>1
  <2> QED
    BY <1>2, <2>1, <2>2, <2>3, <2>4, <2>5, <2>6 DEF Serve
<1>3. CASE ClaimBatch
    BY <1>3, <1>a DEF ClaimBatch, Mishap
<1>4. ASSUME NEW w \in work, Handle(w) PROVE PatchHasIndex'
    BY <1>4, <1>a, HandleTyped, HandleWork
<1>5. CASE Crash
  <2>1. \A c \in Calls : call'[c] = call[c] \/ call'[c].pc = "done"
    <3>1. TAKE c \in Calls
    <3>2. call'[c] = IF Open(c) THEN [call[c] EXCEPT !.pc = "done"] ELSE call[c]
      BY <1>5 DEF Crash
    <3>3. call[c] \in CallType
      BY <1>0 DEF GoodCall
    <3> QED
      BY <3>2, <3>3 DEF CallType
  <2>2. dirs' = dirs /\ mishaps \subseteq mishaps'
    BY <1>5 DEF Crash, Mishap
  <2> QED
    BY <1>a, <2>1, <2>2
<1> QED
  BY <1>1, <1>2, <1>3, <1>4, <1>5 DEF Next

\* A file that goes away is claimed again, so its row is still about to go.
LEMMA LeavingAsFilesChange ==
    ASSUME Typed, NEW row, row # None => row.dir \in Dirs, NEW part \in Parts, NEW pcs,
           Leaving(row, part, pcs), work' = work, pending \subseteq pending',
           \A p \in Paths : File(p)' = File(p) \/ p \in pending',
           row # None, dirs'[row.dir][part] = None
    PROVE  \/ <<row.dir, part>> \in pending'
           \/ \E w \in work' : w.path = <<row.dir, part>> /\ w.pc \in pcs
<1> DEFINE p == <<row.dir, part>>
<1>1. p \in Paths /\ p[1] = row.dir /\ p[2] = part
    BY DEF Paths
<1>2. CASE p \in pending'
    BY <1>2
<1>3. CASE p \notin pending'
  <2>1. File(p)' = File(p)
    BY <1>1, <1>3
  <2>2. dirs[row.dir][part] = None
    BY <1>1, <2>1 DEF File
  <2> QED
    BY <1>3, <2>2 DEF Leaving, WorksOn
<1> QED
  BY <1>2, <1>3

\* A row stays as it is while another path, or another step of its own, is handled.
LEMMA LeavingAsHandled ==
    ASSUME Typed, NEW w \in work, Handle(w), NEW row, NEW part \in Parts, NEW pcs,
           Leaving(row, part, pcs), row # None, dirs'[row.dir][part] = None,
           w.path # <<row.dir, part>> \/ w.pc \notin pcs
    PROVE  \/ <<row.dir, part>> \in pending'
           \/ \E x \in work' : x.path = <<row.dir, part>> /\ x.pc \in pcs
<1>1. dirs' = dirs /\ pending \subseteq pending' /\ work \ {w} \subseteq work'
    BY HandleTyped, HandleWork
<1>2. <<row.dir, part>> \in pending \/ WorksOn(<<row.dir, part>>, pcs)
    BY <1>1 DEF Leaving
<1> QED
  BY <1>1, <1>2 DEF WorksOn

\* The row that a handler writes has a file, or its path is handled again.
LEMMA LeavingAsWritten ==
    ASSUME Typed, ReadIsFile, NEW w \in work, w.file # None, dirs'[w.path[1]][w.path[2]] = None,
           Handle(w)
    PROVE  <<w.path[1], w.path[2]>> \in pending'
<1>1. dirs' = dirs /\ pending \subseteq pending' /\ w \in WorkType
    BY HandleTyped, HandleWork DEF Typed
<1>2. w.path = <<w.path[1], w.path[2]>>
    BY <1>1, WorkFields
<1> QED
  BY <1>1, <1>2 DEF ReadIsFile, File

LEMMA LeavingAsClaimed ==
    ASSUME Typed, ClaimBatch, NEW row, row # None => row.dir \in Dirs, NEW part \in Parts, NEW pcs,
           "gone" \in pcs, Leaving(row, part, pcs), row # None, dirs'[row.dir][part] = None
    PROVE  \E w \in work' : w.path = <<row.dir, part>> /\ w.pc \in pcs
<1> DEFINE p == <<row.dir, part>>
           w == Working(p, "gone", None)
<1>1. work = {} /\ dirs' = dirs
    BY DEF ClaimBatch
<1>2. p \in pending /\ File(p) = None
    BY <1>1 DEF Leaving, WorksOn, File
<1>3. w \in work'
    BY <1>2 DEF ClaimBatch, Working
<1> QED
  BY <1>3 DEF Working

LEMMA LeavingAsCrashed ==
    ASSUME Crash, NEW row, NEW part, NEW pcs, Leaving(row, part, pcs), row # None,
           dirs'[row.dir][part] = None
    PROVE  <<row.dir, part>> \in pending'
<1>1. dirs' = dirs /\ pending' = pending \cup {w.path : w \in work}
    BY DEF Crash
<1> QED
  BY <1>1 DEF Leaving, WorksOn

LEMMA RowDirs ==
    ASSUME Typed
    PROVE  /\ docRow # None => docRow.dir \in Dirs
           /\ lance # None => lance.dir \in Dirs
           /\ sql # None => sql.dir \in Dirs
BY DEF Typed, DocRows, TopicRows

LEMMA DocLeaving ==
    ASSUME Typed, GhostInv, Next, Without({"nested"})', docRow' # None,
           dirs'[docRow'.dir].index = None
    PROVE  \/ <<docRow'.dir, "index">> \in pending'
           \/ \E w \in work' : w.path = <<docRow'.dir, "index">> /\ w.pc \in {"gone"}
<1> DEFINE Goal == \/ <<docRow'.dir, "index">> \in pending'
                   \/ \E w \in work' : w.path = <<docRow'.dir, "index">> /\ w.pc \in {"gone"}
<1> HIDE DEF Goal
<1> SUFFICES Goal
    BY DEF Goal
<1>0. "index" \in Parts /\ "gone" \in {"gone"} /\ (docRow # None => docRow.dir \in Dirs)
    BY RowDirs DEF Parts
<1>a. ASSUME mishaps \subseteq mishaps' PROVE Leaving(docRow, "index", {"gone"})
    BY <1>a DEF GhostInv, Without
<1>b. dirs'[docRow'.dir]["index"] = None
    OBVIOUS
<1>1. ASSUME NEW c \in Calls, Ask(c) PROVE Goal
  <2>1. UNCHANGED <<dirs, pending, work, docRow>> /\ mishaps \subseteq mishaps'
    BY <1>1, AskCalls, AskStarts DEF rows
  <2> QED
    BY <1>a, <2>1 DEF Leaving, WorksOn, Goal
<1>2. ASSUME NEW c \in Calls, Serve(c) PROVE Goal
  <2>1. /\ work' = work /\ pending \subseteq pending' /\ mishaps \subseteq mishaps'
        /\ \A p \in Paths : File(p)' = File(p) \/ p \in pending'
    BY <1>2, ServeLeaves
  <2>2. CASE WriteRow(c)
    <3>1. docRow'.dir = call[c].base /\ dirs' = dirs /\ call[c].pc = "row"
      BY <2>2 DEF WriteRow
    <3>2. Without({"nested"})
      BY <2>1 DEF Without
    <3> QED
      BY <3>1, <3>2 DEF GhostInv, PatchHasIndex
  <2>3. CASE ~WriteRow(c)
    <3>1. docRow' = docRow
      BY <1>2, <2>3 DEF Serve, BackupDir, ClearDir, WriteIndex, WriteTopic, Answer, Fails, Aborts,
         RestoreBackup, Rewrite, MoveDoc, RetagTopics, RemoveDir, rows
    <3>2. docRow # None /\ dirs'[docRow.dir]["index"] = None /\ Leaving(docRow, "index", {"gone"})
      BY <1>a, <2>1, <3>1
    <3> QED
      BY <1>0, <2>1, <3>1, <3>2, LeavingAsFilesChange DEF Goal
  <2> QED
    BY <2>2, <2>3
<1>3. CASE ClaimBatch
  <2>1. docRow' = docRow /\ mishaps \subseteq mishaps'
    BY <1>3 DEF ClaimBatch, rows, Mishap
  <2>2. docRow # None /\ dirs'[docRow.dir]["index"] = None /\ Leaving(docRow, "index", {"gone"})
    BY <1>a, <2>1
  <2> QED
    BY <1>0, <1>3, <2>1, <2>2, LeavingAsClaimed DEF Goal
<1>4. ASSUME NEW w \in work, Handle(w) PROVE Goal
  <2>1. /\ mishaps \subseteq mishaps' /\ w \in WorkType /\ w.path = <<w.path[1], w.path[2]>>
        /\ Leaving(docRow, "index", {"gone"})
    BY <1>4, <1>a, HandleWork, WorkFields DEF Typed
  <2>a. ASSUME docRow' = docRow, w.path # <<docRow.dir, "index">> \/ w.pc \notin {"gone"}
        PROVE  Goal
    <3>1. docRow # None /\ dirs'[docRow.dir]["index"] = None
      BY <2>a
    <3> QED
      BY <1>0, <1>4, <2>1, <2>a, <3>1, LeavingAsHandled DEF Goal
  <2>2. CASE HandleIndex(w) /\ w.pc = "read"
    <3>1. docRow'.dir = w.path[1] /\ w.path[2] = "index" /\ w.pc = "read"
      BY <2>2 DEF HandleIndex
    <3>2. dirs'[w.path[1]][w.path[2]] = None
      BY <3>1
    <3>3. w.file # None
      BY <2>1, <3>1, WorkFields
    <3> QED
      BY <1>4, <3>1, <3>2, <3>3, LeavingAsWritten DEF Goal, GhostInv
  <2>3. CASE HandleIndex(w) /\ w.pc # "read"
    <3>1. docRow' = docRow /\ docRow.dir # w.path[1]
      BY <2>3 DEF HandleIndex
    <3> QED
      BY <2>1, <2>a, <3>1
  <2>4. CASE CompareDigest(w) \/ UpsertLance(w) \/ UpsertSql(w) \/ DeleteLance(w) \/ DeleteSql(w)
    <3>1. docRow' = docRow /\ w.path[2] = "topic"
      BY <2>1, <2>4, WorkFields DEF CompareDigest, UpsertLance, UpsertSql, DeleteLance, DeleteSql,
                                    rows
    <3> QED
      BY <2>1, <2>a, <3>1
  <2>5. CASE HandlerFails(w)
    <3>1. docRow' = docRow /\ w.pc \in {"sql", "gone from lance"}
      BY <2>5 DEF HandlerFails, rows
    <3> QED
      BY <2>a, <3>1
  <2> QED
    BY <1>4, <2>2, <2>3, <2>4, <2>5 DEF Handle
<1>5. CASE Crash
  <2>1. docRow' = docRow /\ mishaps \subseteq mishaps'
    BY <1>5 DEF Crash, rows, Mishap
  <2>2. docRow # None /\ dirs'[docRow.dir]["index"] = None /\ Leaving(docRow, "index", {"gone"})
    BY <1>a, <2>1
  <2> QED
    BY <1>5, <2>1, <2>2, LeavingAsCrashed DEF Goal
<1> QED
  BY <1>1, <1>2, <1>3, <1>4, <1>5 DEF Next

LEMMA LanceLeaving ==
    ASSUME Typed, GhostInv, Next, lance' # None, dirs'[lance'.dir].topic = None
    PROVE  \/ <<lance'.dir, "topic">> \in pending'
           \/ \E w \in work' : w.path = <<lance'.dir, "topic">> /\ w.pc \in {"gone"}
<1> DEFINE Gone == {"gone"}
           Goal == \/ <<lance'.dir, "topic">> \in pending'
                   \/ \E w \in work' : w.path = <<lance'.dir, "topic">> /\ w.pc \in Gone
<1>0. /\ "topic" \in Parts /\ "gone" \in Gone /\ (lance # None => lance.dir \in Dirs)
      /\ Leaving(lance, "topic", Gone)
    BY RowDirs DEF Parts, GhostInv
<1> HIDE DEF Goal
<1> SUFFICES Goal
    BY DEF Goal
<1>a. ASSUME lance' = lance PROVE lance # None /\ dirs'[lance.dir]["topic"] = None
    BY <1>a
<1>b. Gone = {"gone"}
    OBVIOUS
<1> HIDE DEF Gone
<1>1. ASSUME NEW c \in Calls, Ask(c) PROVE Goal
  <2>1. UNCHANGED <<dirs, pending, work, lance>>
    BY <1>1, AskCalls DEF rows
  <2> QED
    BY <1>0, <2>1 DEF Leaving, WorksOn, Goal
<1>2. ASSUME NEW c \in Calls, Serve(c) PROVE Goal
  <2>1. /\ work' = work /\ pending \subseteq pending' /\ lance' = lance
        /\ \A p \in Paths : File(p)' = File(p) \/ p \in pending'
    BY <1>2, ServeLeaves
  <2> QED
    BY <1>0, <1>a, <2>1, LeavingAsFilesChange DEF Goal
<1>3. CASE ClaimBatch
  <2>1. lance' = lance
    BY <1>3 DEF ClaimBatch, rows
  <2> QED
    BY <1>0, <1>3, <1>a, <2>1, LeavingAsClaimed DEF Goal
<1>4. ASSUME NEW w \in work, Handle(w) PROVE Goal
  <2>1. w \in WorkType /\ w.path = <<w.path[1], w.path[2]>>
    BY WorkFields DEF Typed
  <2>a. ASSUME lance' = lance, w.path # <<lance.dir, "topic">> \/ w.pc \notin Gone
        PROVE  Goal
    BY <1>0, <1>4, <1>a, <2>a, LeavingAsHandled DEF Goal
  <2>2. CASE UpsertLance(w)
    <3>1. lance' = TopicRow(w) /\ w.path[2] = "topic" /\ w.file # None
      BY <2>1, <2>2, WorkFields DEF UpsertLance
    <3>2. lance'.dir = w.path[1]
      BY <3>1 DEF TopicRow
    <3>3. dirs'[w.path[1]][w.path[2]] = None
      BY <3>1, <3>2
    <3> QED
      BY <1>4, <3>1, <3>2, <3>3, LeavingAsWritten DEF Goal, GhostInv
  <2>3. CASE DeleteLance(w)
    <3>1. lance' = lance /\ lance.dir # w.path[1]
      BY <2>3 DEF DeleteLance, InStore
    <3> QED
      BY <2>1, <2>a, <3>1
  <2>4. CASE HandleIndex(w)
    <3>1. lance' = lance /\ w.path[2] = "index"
      BY <2>4 DEF HandleIndex
    <3> QED
      BY <2>1, <2>a, <3>1
  <2>5. CASE CompareDigest(w) \/ UpsertSql(w) \/ DeleteSql(w) \/ HandlerFails(w)
    <3>1. lance' = lance /\ w.pc \in {"read", "sql", "gone from lance"}
      BY <2>5 DEF CompareDigest, UpsertSql, DeleteSql, HandlerFails, rows
    <3> QED
      BY <1>b, <2>a, <3>1
  <2> QED
    BY <1>4, <2>2, <2>3, <2>4, <2>5 DEF Handle
<1>5. CASE Crash
  <2>1. lance' = lance
    BY <1>5 DEF Crash, rows
  <2> QED
    BY <1>0, <1>5, <1>a, <2>1, LeavingAsCrashed DEF Goal
<1> QED
  BY <1>1, <1>2, <1>3, <1>4, <1>5 DEF Next

LEMMA SqlLeaving ==
    ASSUME Typed, GhostInv, Next, sql' # None, dirs'[sql'.dir].topic = None
    PROVE  \/ <<sql'.dir, "topic">> \in pending'
           \/ \E w \in work' : w.path = <<sql'.dir, "topic">> /\ w.pc \in {"gone", "gone from lance"}
<1> DEFINE Gone == {"gone", "gone from lance"}
           Goal == \/ <<sql'.dir, "topic">> \in pending'
                   \/ \E w \in work' : w.path = <<sql'.dir, "topic">> /\ w.pc \in Gone
<1>0. /\ "topic" \in Parts /\ "gone" \in Gone /\ (sql # None => sql.dir \in Dirs)
      /\ Leaving(sql, "topic", Gone)
    BY RowDirs DEF Parts, GhostInv
<1> HIDE DEF Goal
<1> SUFFICES Goal
    BY DEF Goal
<1>a. ASSUME sql' = sql PROVE sql # None /\ dirs'[sql.dir]["topic"] = None
    BY <1>a
<1>b. Gone = {"gone", "gone from lance"}
    OBVIOUS
<1> HIDE DEF Gone
<1>1. ASSUME NEW c \in Calls, Ask(c) PROVE Goal
  <2>1. UNCHANGED <<dirs, pending, work, sql>>
    BY <1>1, AskCalls DEF rows
  <2> QED
    BY <1>0, <2>1 DEF Leaving, WorksOn, Goal
<1>2. ASSUME NEW c \in Calls, Serve(c) PROVE Goal
  <2>1. /\ work' = work /\ pending \subseteq pending' /\ sql' = sql
        /\ \A p \in Paths : File(p)' = File(p) \/ p \in pending'
    BY <1>2, ServeLeaves
  <2> QED
    BY <1>0, <1>a, <2>1, LeavingAsFilesChange DEF Goal
<1>3. CASE ClaimBatch
  <2>1. sql' = sql
    BY <1>3 DEF ClaimBatch, rows
  <2> QED
    BY <1>0, <1>3, <1>a, <2>1, LeavingAsClaimed DEF Goal
<1>4. ASSUME NEW w \in work, Handle(w) PROVE Goal
  <2>1. w \in WorkType /\ w.path = <<w.path[1], w.path[2]>>
    BY WorkFields DEF Typed
  <2>a. ASSUME sql' = sql, w.path # <<sql.dir, "topic">> \/ w.pc \notin Gone
        PROVE  Goal
    BY <1>0, <1>4, <1>a, <2>a, LeavingAsHandled DEF Goal
  <2>2. CASE UpsertSql(w)
    <3>1. sql' = TopicRow(w) /\ w.path[2] = "topic" /\ w.file # None
      BY <2>1, <2>2, WorkFields DEF UpsertSql
    <3>2. sql'.dir = w.path[1]
      BY <3>1 DEF TopicRow
    <3>3. dirs'[w.path[1]][w.path[2]] = None
      BY <3>1, <3>2
    <3> QED
      BY <1>4, <3>1, <3>2, <3>3, LeavingAsWritten DEF Goal, GhostInv
  <2>3. CASE DeleteSql(w)
    <3>1. sql' = sql /\ sql.dir # w.path[1]
      BY <2>3 DEF DeleteSql, InStore
    <3> QED
      BY <2>1, <2>a, <3>1
  <2>4. CASE HandleIndex(w)
    <3>1. sql' = sql /\ w.path[2] = "index"
      BY <2>4 DEF HandleIndex
    <3> QED
      BY <2>1, <2>a, <3>1
  <2>5. CASE CompareDigest(w) \/ UpsertLance(w)
    <3>1. sql' = sql /\ w.pc \in {"read", "lance"}
      BY <2>5 DEF CompareDigest, UpsertLance, rows
    <3> QED
      BY <1>b, <2>a, <3>1
  <2>6. CASE DeleteLance(w)
    <3>1. sql' = sql /\ ReplaceWork(w, "gone from lance")
      BY <2>6 DEF DeleteLance
    <3>2. CASE w.path = <<sql.dir, "topic">>
      <4> DEFINE x == [w EXCEPT !.pc = "gone from lance"]
      <4>1. x \in work' /\ x.path = w.path /\ x.pc \in Gone
        BY <1>b, <2>1, <3>1 DEF ReplaceWork, WorkType
      <4> QED
        BY <3>1, <3>2, <4>1 DEF Goal
    <3> QED
      BY <2>a, <3>1, <3>2
  <2>7. CASE HandlerFails(w)
    <3>1. sql' = sql /\ w.path \in pending'
      BY <2>7 DEF HandlerFails, rows
    <3>2. CASE w.path = <<sql.dir, "topic">>
      BY <3>1, <3>2 DEF Goal
    <3> QED
      BY <2>a, <3>1, <3>2
  <2> QED
    BY <1>4, <2>2, <2>3, <2>4, <2>5, <2>6, <2>7 DEF Handle
<1>5. CASE Crash
  <2>1. sql' = sql
    BY <1>5 DEF Crash, rows
  <2> QED
    BY <1>0, <1>5, <1>a, <2>1, LeavingAsCrashed DEF Goal
<1> QED
  BY <1>1, <1>2, <1>3, <1>4, <1>5 DEF Next

LEMMA GhostStays ==
    ASSUME Typed, GhostInv, Next
    PROVE  GhostInv'
<1>1. ReadIsFile' /\ PatchHasIndex'
    BY ReadIsFileStays, PatchHasIndexStays DEF GhostInv
<1>2. (Without({"nested"}) => Leaving(docRow, "index", {"gone"}))'
    BY DocLeaving DEF Leaving, WorksOn
<1>3. Leaving(lance, "topic", {"gone"})'
    BY LanceLeaving DEF Leaving, WorksOn
<1>4. Leaving(sql, "topic", {"gone", "gone from lance"})'
    BY SqlLeaving DEF Leaving, WorksOn
<1> QED
  BY <1>1, <1>2, <1>3, <1>4 DEF GhostInv

--------------------------------------------------------------------------------
(* What is whole is found. *)

LEMMA MishapsGrow ==
    ASSUME Typed, Next
    PROVE  mishaps \subseteq mishaps'
<1>1. ASSUME NEW c \in Calls, Ask(c) \/ Serve(c) PROVE mishaps \subseteq mishaps'
    BY <1>1, AskStarts, ServeLeaves
<1>2. ASSUME NEW w \in work, Handle(w) PROVE mishaps \subseteq mishaps'
    BY <1>2, HandleWork
<1>3. CASE ClaimBatch \/ Crash
    BY <1>3 DEF ClaimBatch, Crash, Mishap
<1> QED
  BY <1>1, <1>2, <1>3 DEF Next

LEMMA PatchAloneStays ==
    ASSUME Typed, PatchAlone, Next, mishaps' = {}
    PROVE  PatchAlone'
<1>0. dirs \in [Dirs -> GoodDir] /\ call \in [Calls -> GoodCall] /\ OneCall
    BY DEF Typed
<1>a. ASSUME dirs' = dirs, \A c \in Calls : call'[c] = call[c] \/ call'[c].pc \notin Patching
      PROVE  PatchAlone'
    BY <1>a DEF PatchAlone
<1>1. ASSUME NEW c \in Calls, Ask(c) PROVE PatchAlone'
  <2>1. dirs' = dirs /\ \A d \in Calls \ {c} : call'[d] = call[d] /\ ~Open(d)
    BY <1>1, AskCalls
  <2>2. ASSUME NEW title \in Slugs, NEW cat \in Cats, Patch(c, title, cat) PROVE PatchAlone'
    <3>1. PICK base \in Dirs, v \in Versions, oldTitle \in Slugs, oldCat \in Cats :
            /\ Current(base, v, oldTitle, oldCat)
            /\ Begin(c, [NoCall EXCEPT !.kind = IF cat # oldCat THEN "move" ELSE "retitle",
                                       !.pc = "rewrite", !.title = title, !.cat = cat, !.v = v,
                                       !.base = base])
      BY <2>2 DEF Patch
    <3>2. call'[c].pc = "rewrite" /\ call'[c].base = base /\ call'[c].v = v /\ ~RowIsStale
      BY <1>0, <3>1 DEF Begin, NoCall, Mishap
    <3>3. /\ docRow # None /\ base = docRow.dir /\ v = docRow.v
          /\ \A d \in Dirs \ {base} : ~dirs[d].there
          /\ dirs[base].index = [title |-> docRow.title, cat |-> docRow.cat, v |-> docRow.v]
      BY <3>1, <3>2 DEF RowIsStale, Current
    <3>4. dirs[base].index \in IndexFile \cup {None} /\ docRow \in DocRows
      BY <1>0, <3>3 DEF GoodDir, DirType, Typed
    <3>5. dirs[base].index # None /\ dirs[base].index.v = v
      BY <3>3, <3>4, NoneAssumption DEF IndexFile, DocRows
    <3> QED
      BY <2>1, <3>2, <3>3, <3>5 DEF PatchAlone, Open, Patching
  <2>3. ASSUME NEW title \in Slugs, NEW cat \in Cats, Create(c, title, cat) PROVE PatchAlone'
    <3>1. call'[c].pc \notin Patching
      BY <1>0, <2>3 DEF Create, Begin, NoCall, Patching
    <3> QED
      BY <1>a, <2>1, <3>1
  <2>4. ASSUME NEW title \in Slugs, NEW cat \in Cats, NEW v \in Versions, Replace(c, title, cat, v)
        PROVE  PatchAlone'
    <3>1. call'[c].pc \notin Patching
      BY <1>0, <2>4 DEF Replace, Begin, NoCall, Patching
    <3> QED
      BY <1>a, <2>1, <3>1
  <2>5. CASE Delete(c)
    <3>1. call'[c].pc \notin Patching
      BY <1>0, <2>5 DEF Delete, Begin, NoCall, Patching
    <3> QED
      BY <1>a, <2>1, <3>1
  <2> QED
    BY <1>1, <2>2, <2>3, <2>4, <2>5 DEF Ask
<1>2. ASSUME NEW c \in Calls, Serve(c) PROVE PatchAlone'
  <2>0. /\ \A d \in Calls \ {c} : call'[d] = call[d] /\ call'[d].pc \notin Patching
        /\ call[c] \in CallType /\ CallOK(call[c])
        /\ call'[c].title = call[c].title /\ call'[c].cat = call[c].cat /\ call'[c].v = call[c].v
    BY <1>0, <1>2, ServeCalls DEF OneCall, Open, GoodCall, Patching
  <2>a. \A pc : Goto(c, pc) => call'[c].pc = pc /\ call'[c].base = call[c].base
    BY <1>0, <2>0 DEF Goto, CallType
  <2>b. ASSUME call'[c].pc \in Patching =>
                  /\ \A d \in Dirs \ {call'[c].base} : ~dirs'[d].there
                  /\ dirs'[call'[c].base].index # None
                  /\ dirs'[call'[c].base].index.v = call[c].v
                  /\ call'[c].pc # "rewrite" =>
                       /\ dirs'[call'[c].base].index.title = call[c].title
                       /\ dirs'[call'[c].base].index.cat = call[c].cat
        PROVE  PatchAlone'
    BY <2>0, <2>b DEF PatchAlone
  <2>1. CASE Rewrite(c)
    <3> DEFINE b == call[c].base
    <3>1. b \in Dirs /\ call[c].title \in Slugs /\ call[c].cat \in Cats
          /\ call[c].pc = "rewrite" /\ call[c].pc \in Patching
      BY <2>0, <2>1 DEF Rewrite, CallOK, Patching
    <3>2. /\ dirs[b].index # None /\ dirs[b].index.v = call[c].v
          /\ \A d \in Dirs \ {b} : ~dirs[d].there
      BY <3>1 DEF PatchAlone
    <3> DEFINE file == [dirs[b].index EXCEPT !.title = call[c].title, !.cat = call[c].cat]
               x == [dirs[b] EXCEPT !.index = file]
    <3>3. dirs[b] \in DirType /\ dirs[b].index \in IndexFile
      BY <1>0, <3>1, <3>2 DEF GoodDir, DirType
    <3>4. /\ file \in IndexFile /\ file.title = call[c].title /\ file.cat = call[c].cat
          /\ file.v = call[c].v
      BY <3>1, <3>2, <3>3 DEF IndexFile
    <3>5. x.index = file /\ file # None
      BY <3>3, <3>4, NoneAssumption DEF DirType
    <3>6. dirs' = [dirs EXCEPT ![b] = x] /\ call'[c].base = b
      BY <2>1, <2>a, <3>2 DEF Rewrite, Disk
    <3> HIDE DEF x, file
    <3>7. dirs'[b].index = file /\ \A d \in Dirs \ {b} : ~dirs'[d].there
      BY <1>0, <3>1, <3>2, <3>5, <3>6
    <3> QED
      BY <2>b, <3>4, <3>5, <3>6, <3>7
  <2>2. CASE MoveDoc(c)
    <3> DEFINE src == call[c].base
               dst == [src EXCEPT !.cat = call[c].cat]
    <3>1. /\ src \in Dirs /\ dst \in Dirs /\ call[c].pc = "move" /\ call[c].pc \in Patching
      BY <2>2, MoveNames DEF MoveDoc, Patching
    <3>2. CASE dirs[src].there /\ src # dst
      <4>1. /\ Disk(Moved(src, dst)) /\ Mishap("nested", dirs[dst].there)
            /\ call' = [call EXCEPT ![c] = [call[c] EXCEPT !.pc = "retag", !.base = dst]]
        BY <2>2, <3>2 DEF MoveDoc
      <4>2. call'[c].base = dst
        BY <1>0, <2>0, <4>1 DEF CallType
      <4>3. ~dirs[dst].there /\ dirs' = Moved(src, dst)
        BY <4>1 DEF Disk, Mishap
      <4>4. /\ dirs[src].index # None /\ dirs[src].index.v = call[c].v
            /\ dirs[src].index.title = call[c].title /\ dirs[src].index.cat = call[c].cat
            /\ \A d \in Dirs \ {src} : ~dirs[d].there
        BY <3>1 DEF PatchAlone
      <4> HIDE DEF src, dst
      <4>5. /\ dirs'[src] = NoDir /\ dirs'[dst] = dirs[src]
            /\ \A d \in Dirs \ {src, dst} : dirs'[d] = dirs[d]
        <5>1. /\ Moved(src, dst)[src] = NoDir /\ Moved(src, dst)[dst] = dirs[src]
          BY <3>1, <3>2, <4>3, MovedAside
        <5>2. \A d \in Dirs \ {src, dst} : Moved(src, dst)[d] = dirs[d]
          BY <3>1, <3>2, MovedOthers
        <5> QED
          BY <4>3, <5>1, <5>2
      <4>6. \A d \in Dirs \ {dst} : ~dirs'[d].there
        BY <4>4, <4>5 DEF NoDir
      <4> QED
        BY <2>b, <4>2, <4>4, <4>5, <4>6
    <3>3. CASE ~(dirs[src].there /\ src # dst)
      <4>1. Goto(c, "done")
        BY <2>2, <3>3 DEF MoveDoc
      <4>2. call'[c].pc = "done"
        BY <2>a, <4>1
      <4> QED
        BY <2>b, <4>2 DEF Patching
    <3> QED
      BY <3>2, <3>3
  <2>3. CASE RetagTopics(c)
    <3> DEFINE b == call[c].base
               file == IF dirs[b].topic = None THEN None
                       ELSE [dirs[b].topic EXCEPT !.cat = call[c].cat]
               x == [dirs[b] EXCEPT !.topic = file]
    <3>1. b \in Dirs /\ call[c].pc = "retag" /\ call[c].pc \in Patching
      BY <2>0, <2>3 DEF RetagTopics, CallOK, Patching
    <3>2. CASE dirs[b].there
      <4>1. dirs[b] \in DirType
        BY <1>0, <3>1 DEF GoodDir
      <4>2. x.index = dirs[b].index
        BY <4>1 DEF DirType
      <4>3. dirs' = [dirs EXCEPT ![b] = x]
        BY <2>3, <3>2 DEF RetagTopics, Disk
      <4>4. call'[c].base = b
        BY <2>3, <2>a, <3>2 DEF RetagTopics
      <4> HIDE DEF x
      <4>5. dirs'[b].index = dirs[b].index /\ \A d \in Dirs \ {b} : dirs'[d] = dirs[d]
        BY <1>0, <3>1, <4>2, <4>3
      <4>6. /\ dirs[b].index # None /\ dirs[b].index.v = call[c].v
            /\ dirs[b].index.title = call[c].title /\ dirs[b].index.cat = call[c].cat
            /\ \A d \in Dirs \ {b} : ~dirs[d].there
        BY <3>1 DEF PatchAlone
      <4> HIDE DEF b
      <4>7. \A d \in Dirs \ {b} : ~dirs'[d].there
        BY <4>5, <4>6
      <4> QED
        BY <2>b, <4>4, <4>5, <4>6, <4>7
    <3>3. CASE ~dirs[b].there
      <4>1. call'[c].pc = "done"
        BY <2>3, <2>a, <3>3 DEF RetagTopics
      <4> QED
        BY <2>b, <4>1 DEF Patching
    <3> QED
      BY <3>2, <3>3
  <2>4. CASE BackupDir(c)
    <3>1. call'[c].pc = "extract"
      BY <2>4, BackupGoes
    <3> QED
      BY <2>b, <3>1 DEF Patching
  <2>5. CASE ClearDir(c) \/ WriteIndex(c) \/ WriteTopic(c) \/ Answer(c)
    <3>1. PICK pc \in {"index", "topic", "original", "done"} : Goto(c, pc)
      BY <2>5 DEF ClearDir, WriteIndex, WriteTopic, Answer
    <3> QED
      BY <2>a, <2>b, <3>1 DEF Patching
  <2>6. CASE Fails(c) \/ Aborts(c) \/ RestoreBackup(c) \/ WriteRow(c) \/ RemoveDir(c)
    <3>1. PICK pc \in {"restore", "done"} : Goto(c, pc)
      BY <2>6 DEF Fails, Aborts, RestoreBackup, WriteRow, RemoveDir
    <3> QED
      BY <2>a, <2>b, <3>1 DEF Patching
  <2> QED
    BY <1>2, <2>1, <2>2, <2>3, <2>4, <2>5, <2>6 DEF Serve
<1>3. CASE ClaimBatch
    BY <1>3, <1>a DEF ClaimBatch
<1>4. ASSUME NEW w \in work, Handle(w) PROVE PatchAlone'
    BY <1>4, <1>a, HandleTyped
<1>5. CASE Crash
  <2>1. \A c \in Calls : call'[c] = call[c] \/ call'[c].pc \notin Patching
    <3>1. TAKE c \in Calls
    <3>2. call'[c] = IF Open(c) THEN [call[c] EXCEPT !.pc = "done"] ELSE call[c]
      BY <1>5 DEF Crash
    <3>3. call[c] \in CallType
      BY <1>0 DEF GoodCall
    <3> QED
      BY <3>2, <3>3 DEF CallType, Patching
  <2> QED
    BY <1>5, <1>a, <2>1 DEF Crash
<1> QED
  BY <1>1, <1>2, <1>3, <1>4, <1>5 DEF Next

\* The path that a handler is at is not that of another handler.
LEMMA OneStoresStays ==
    ASSUME Typed, ReadIsFile, OneStores, Next, mishaps' = {}
    PROVE  OneStores'
<1>0. work \subseteq WorkType
    BY DEF Typed
<1>a. ASSUME work' = work, lance' = lance PROVE OneStores'
    BY <1>a DEF OneStores, TopicRow, InStore
<1>1. ASSUME NEW c \in Calls, Ask(c) \/ Serve(c) PROVE OneStores'
  <2>1. work' = work /\ lance' = lance
    BY <1>1, AskCalls, ServeLeaves DEF rows
  <2> QED
    BY <1>a, <2>1
<1>2. CASE ClaimBatch
  <2>1. \A w \in work' : w.pc \in {"gone", "read"} /\ w.path \in pending /\ w.file = File(w.path)
                         /\ w = Working(w.path, w.pc, w.file) /\ (w.file # None => w.pc = "read")
    BY <1>2 DEF ClaimBatch, Working
  <2>2. \A p, q \in pending : p[2] = q[2] /\ File(p) # None /\ File(q) # None => p = q
    BY <1>2 DEF ClaimBatch, Mishap
  <2>3. ASSUME NEW w \in work', NEW x \in work', w.path[2] = x.path[2], w.file # None, x.file # None
        PROVE  w = x
    <3>1. w.path = x.path
      BY <2>1, <2>2, <2>3
    <3> QED
      BY <2>1, <2>3, <3>1
  <2> QED
    BY <2>1, <2>3 DEF OneStores
<1>3. ASSUME NEW w \in work, Handle(w) PROVE OneStores'
  <2>0. w \in WorkType /\ w.path = <<w.path[1], w.path[2]>>
    BY <1>0, WorkFields
  <2>1. \A x, y \in work' : x.path[2] = y.path[2] /\ x.file # None /\ y.file # None => x = y
    <3>1. CASE work' \subseteq work
      BY <3>1 DEF OneStores
    <3>2. ASSUME NEW pc, ReplaceWork(w, pc)
          PROVE  \A x, y \in work' : x.path[2] = y.path[2] /\ x.file # None /\ y.file # None => x = y
      <4> DEFINE v == [w EXCEPT !.pc = pc]
      <4>1. v.path = w.path /\ v.file = w.file
        BY <2>0 DEF WorkType
      <4>2. work' = (work \ {w}) \cup {v}
        BY <3>2 DEF ReplaceWork
      <4> HIDE DEF v
      <4>3. \A x \in work : x.path[2] = w.path[2] /\ x.file # None /\ w.file # None => x = w
        BY DEF OneStores
      <4>4. \A x, y \in work : x.path[2] = y.path[2] /\ x.file # None /\ y.file # None => x = y
        BY DEF OneStores
      <4>5. ASSUME NEW x \in work', NEW y \in work', x.path[2] = y.path[2], x.file # None,
                   y.file # None
            PROVE  x = y
        <5>1. CASE x \in work \ {w} /\ y \in work \ {w}
          BY <4>4, <4>5, <5>1
        <5>2. CASE x = v \/ y = v
          BY <4>1, <4>2, <4>3, <4>5, <5>2
        <5> QED
          BY <4>2, <4>5, <5>1, <5>2
      <4> QED
        BY <4>5
    <3>3. work' \subseteq work \/ \E pc : ReplaceWork(w, pc)
      BY <1>3 DEF Handle, HandleIndex, CompareDigest, UpsertLance, UpsertSql, DeleteLance,
         DeleteSql, HandlerFails
    <3> QED
      BY <3>1, <3>2, <3>3
  <2>2. ASSUME lance' = lance, \A x \in work' : x \in work \/ x.pc \notin {"sql", "gone from lance"}
        PROVE  OneStores'
    BY <2>1, <2>2 DEF OneStores, TopicRow, InStore
  <2>3. ASSUME NEW x \in work \ {w}, x.path[2] = w.path[2] PROVE x.path[1] # w.path[1]
    <3>1. x.path = <<x.path[1], x.path[2]>> /\ x.path # w.path
      BY <1>0, WorkFields DEF ReadIsFile
    <3> QED
      BY <2>0, <2>3, <3>1
  <2>4. CASE HandleIndex(w) \/ UpsertSql(w) \/ DeleteSql(w) \/ HandlerFails(w)
    BY <2>2, <2>4 DEF HandleIndex, UpsertSql, DeleteSql, HandlerFails, rows
  <2>5. CASE CompareDigest(w)
    <3>1. [w EXCEPT !.pc = "lance"].pc = "lance"
      BY <2>0 DEF WorkType
    <3> QED
      BY <2>2, <2>5, <3>1 DEF CompareDigest, ReplaceWork, rows
  <2>6. CASE UpsertLance(w)
    <3> DEFINE v == [w EXCEPT !.pc = "sql"]
    <3>1. v.pc = "sql" /\ v.path = w.path /\ v.file = w.file
      BY <2>0 DEF WorkType
    <3>2. w.file # None /\ w.path[2] = "topic"
      BY <2>0, <2>6, WorkFields DEF UpsertLance
    <3>3. work' = (work \ {w}) \cup {v} /\ lance' = TopicRow(w)
      BY <2>6 DEF UpsertLance, ReplaceWork
    <3>4. TopicRow(w) = TopicRow(v) /\ lance'.dir = w.path[1]
      BY <3>1, <3>3 DEF TopicRow
    <3> HIDE DEF v
    <3>5. \A x \in work' : x.pc = "sql" => lance' = TopicRow(x)
      <4>1. ASSUME NEW x \in work \ {w}, x.pc = "sql" PROVE FALSE
        <5>1. x.file # None /\ x.path[2] = "topic"
          BY <1>0, <4>1, WorkFields
        <5> QED
          BY <3>2, <4>1, <5>1 DEF OneStores
      <4> QED
        BY <3>3, <3>4, <4>1
    <3>6. \A x \in work' : x.pc = "gone from lance" => lance'.dir # x.path[1]
      <4>1. ASSUME NEW x \in work \ {w}, x.pc = "gone from lance" PROVE x.path[1] # w.path[1]
        <5>1. x.path[2] = "topic"
          BY <1>0, <4>1, WorkFields
        <5> QED
          BY <2>3, <3>2, <5>1
      <4> QED
        BY <3>1, <3>3, <3>4, <4>1
    <3>7. \A x \in work' : TopicRow(x)' = TopicRow(x)
      BY DEF TopicRow
    <3> QED
      BY <2>1, <3>5, <3>6 DEF OneStores, InStore, TopicRow
  <2>7. CASE DeleteLance(w)
    <3> DEFINE v == [w EXCEPT !.pc = "gone from lance"]
    <3>1. v.pc = "gone from lance" /\ v.path = w.path
      BY <2>0 DEF WorkType
    <3>2. /\ work' = (work \ {w}) \cup {v} /\ w.path[2] = "topic"
          /\ lance' = IF InStore(lance, w.path[1]) THEN None ELSE lance
      BY <2>7 DEF DeleteLance, ReplaceWork
    <3> HIDE DEF v
    <3>3. \A x \in work' : x.pc = "sql" => lance' = TopicRow(x)
      <4>1. ASSUME NEW x \in work \ {w}, x.pc = "sql" PROVE lance' = TopicRow(x)
        <5>1. x.path[2] = "topic" /\ lance = TopicRow(x)
          BY <1>0, <4>1, WorkFields DEF OneStores
        <5>2. lance.dir # w.path[1]
          BY <2>3, <3>2, <5>1 DEF TopicRow
        <5> QED
          BY <3>2, <5>1, <5>2 DEF InStore
      <4> QED
        BY <3>1, <3>2, <4>1
    <3>4. \A x \in work' : x.pc = "gone from lance" => ~(lance' # None /\ lance'.dir = x.path[1])
      BY <3>1, <3>2 DEF OneStores, InStore
    <3> QED
      BY <2>1, <3>3, <3>4 DEF OneStores, InStore, TopicRow
  <2> QED
    BY <1>3, <2>4, <2>5, <2>6, <2>7 DEF Handle
<1>4. CASE Crash
    BY <1>4 DEF Crash, OneStores
<1> QED
  BY <1>1, <1>2, <1>3, <1>4 DEF Next

LEMMA StoresAgreeStays ==
    ASSUME Typed, OneStores, StoresAgree, Next, mishaps' = {}
    PROVE  StoresAgree'
<1>0. work \subseteq WorkType
    BY DEF Typed
<1>1. ASSUME NEW c \in Calls, Ask(c) \/ Serve(c) PROVE StoresAgree'
  <2>1. work' = work /\ lance' = lance /\ sql' = sql
    BY <1>1, AskCalls, ServeLeaves DEF rows
  <2> QED
    BY <2>1 DEF StoresAgree
<1>2. CASE ClaimBatch
  <2>1. work = {} /\ lance' = lance /\ sql' = sql
    BY <1>2 DEF ClaimBatch, rows
  <2> QED
    BY <2>1 DEF StoresAgree
<1>3. ASSUME NEW w \in work, Handle(w) PROVE StoresAgree'
  <2>0. w \in WorkType /\ work \ {w} \subseteq work'
    BY <1>0, <1>3, HandleWork
  <2>1. CASE HandleIndex(w) \/ CompareDigest(w)
    <3>1. lance' = lance /\ sql' = sql /\ w.pc \in {"read", "gone"}
      BY <2>1 DEF HandleIndex, CompareDigest, rows
    <3> QED
      BY <2>0, <3>1 DEF StoresAgree
  <2>2. CASE UpsertLance(w)
    <3>1. [w EXCEPT !.pc = "sql"] \in work' /\ [w EXCEPT !.pc = "sql"].pc = "sql"
      BY <2>0, <2>2 DEF UpsertLance, ReplaceWork, WorkType
    <3> QED
      BY <3>1 DEF StoresAgree
  <2>3. CASE UpsertSql(w)
    <3>1. lance' = lance /\ sql' = TopicRow(w) /\ lance = TopicRow(w)
      BY <2>3 DEF UpsertSql, OneStores
    <3> QED
      BY <3>1 DEF StoresAgree
  <2>4. CASE DeleteLance(w)
    <3>1. lance' \in {None, lance} /\ sql' = sql /\ w.pc = "gone"
      BY <2>4 DEF DeleteLance
    <3> QED
      BY <2>0, <3>1 DEF StoresAgree
  <2>5. CASE DeleteSql(w)
    <3>1. /\ lance' = lance /\ w.pc = "gone from lance"
          /\ sql' = IF InStore(sql, w.path[1]) THEN None ELSE sql
      BY <2>5 DEF DeleteSql
    <3>2. ~InStore(lance, w.path[1])
      BY <3>1 DEF OneStores
    <3>3. CASE sql = lance
      BY <3>1, <3>2, <3>3 DEF StoresAgree
    <3>4. CASE sql # lance
      BY <2>0, <3>1, <3>4 DEF StoresAgree
    <3> QED
      BY <3>3, <3>4
  <2>6. CASE HandlerFails(w)
    <3>1. lance' = lance /\ sql' = sql /\ w.pc # "sql"
      BY <2>6 DEF HandlerFails, rows, Mishap
    <3> QED
      BY <2>0, <3>1 DEF StoresAgree
  <2> QED
    BY <1>3, <2>1, <2>2, <2>3, <2>4, <2>5, <2>6 DEF Handle
<1>4. CASE Crash
  <2>1. lance' = lance /\ sql' = sql /\ \A w \in work : w.pc # "sql"
    BY <1>4 DEF Crash, rows, Mishap
  <2> QED
    BY <2>1 DEF StoresAgree
<1> QED
  BY <1>1, <1>2, <1>3, <1>4 DEF Next

\* A path that no handler has left to do was that before, or is that of the handler that ends.
LEMMA CleanBefore ==
    ASSUME Typed, NEW p \in Paths, p \notin pending', \A w \in work' : w.path # p
    PROVE  /\ \A c \in Calls : Ask(c) \/ Serve(c) => Clean(p) /\ File(p)' = File(p)
           /\ ClaimBatch \/ Crash => Clean(p) /\ File(p)' = File(p)
           /\ \A w \in work : Handle(w) =>
                /\ File(p)' = File(p) /\ p \notin pending /\ (w.path # p => Clean(p))
<1>1. ASSUME NEW c \in Calls, Ask(c) PROVE Clean(p) /\ File(p)' = File(p)
  <2>1. UNCHANGED <<dirs, pending, work>>
    BY <1>1, AskCalls
  <2> QED
    BY <2>1 DEF Clean, File
<1>2. ASSUME NEW c \in Calls, Serve(c) PROVE Clean(p) /\ File(p)' = File(p)
  <2>1. work' = work /\ pending \subseteq pending' /\ File(p)' = File(p)
    BY <1>2, ServeLeaves
  <2> QED
    BY <2>1 DEF Clean
<1>3. ASSUME ClaimBatch PROVE Clean(p) /\ File(p)' = File(p)
  <2>1. p \notin pending
    <3>1. SUFFICES ASSUME p \in pending PROVE FALSE
      OBVIOUS
    <3> DEFINE w == Working(p, IF File(p) = None THEN "gone" ELSE "read", File(p))
    <3>2. w \in work' /\ w.path = p
      BY <1>3, <3>1 DEF ClaimBatch, Working
    <3> QED
      BY <3>2
  <2> QED
    BY <1>3, <2>1 DEF ClaimBatch, Clean, File
<1>4. ASSUME Crash PROVE Clean(p) /\ File(p)' = File(p)
    BY <1>4 DEF Crash, Clean, File
<1>5. ASSUME NEW w \in work, Handle(w)
      PROVE  File(p)' = File(p) /\ p \notin pending /\ (w.path # p => Clean(p))
  <2>1. dirs' = dirs /\ pending \subseteq pending' /\ work \ {w} \subseteq work'
    BY <1>5, HandleTyped, HandleWork
  <2> QED
    BY <2>1 DEF Clean, File
<1> QED
  BY <1>1, <1>2, <1>3, <1>4, <1>5

\* The file of a directory, as its row has it.
DocRowOf(d) == [title |-> dirs[d].index.title, cat |-> dirs[d].index.cat,
                v |-> dirs[d].index.v, dir |-> d]

LEMMA DocFoundStays ==
    ASSUME Typed, ReadIsFile, PatchAlone, DocFound, Next, mishaps' = {}
    PROVE  DocFound'
<1> SUFFICES ASSUME NEW d \in Dirs, dirs'[d].index # None, <<d, "index">> \notin pending',
                    \A w \in work' : w.path # <<d, "index">>
             PROVE  docRow' = [title |-> dirs'[d].index.title, cat |-> dirs'[d].index.cat,
                               v |-> dirs'[d].index.v, dir |-> d]
    BY DEF DocFound, Clean
<1> DEFINE p == <<d, "index">>
           Goal == docRow' = [title |-> dirs'[d].index.title, cat |-> dirs'[d].index.cat,
                              v |-> dirs'[d].index.v, dir |-> d]
<1>0. /\ p \in Paths /\ p[1] = d /\ p[2] = "index"
      /\ work \subseteq WorkType /\ dirs \in [Dirs -> GoodDir]
    BY DEF Paths, Parts, Typed
<1>a. ASSUME Clean(p), File(p)' = File(p) PROVE docRow = DocRowOf(d) /\ (docRow' = docRow => Goal)
  <2>1. dirs'[d].index = dirs[d].index
    BY <1>0, <1>a DEF File
  <2> QED
    BY <1>a, <2>1 DEF DocFound, DocRowOf
<1> HIDE DEF Goal
<1> SUFFICES Goal
    BY DEF Goal
<1>1. ASSUME NEW c \in Calls, Ask(c) PROVE Goal
  <2>1. docRow' = docRow
    BY <1>1, AskCalls DEF rows
  <2> QED
    BY <1>0, <1>1, <1>a, <2>1, CleanBefore
<1>2. ASSUME NEW c \in Calls, Serve(c) PROVE Goal
  <2>1. CASE WriteRow(c)
    <3>1. /\ dirs' = dirs /\ call[c].pc \in Patching /\ call[c].pc # "rewrite"
          /\ docRow' = [title |-> call[c].title, cat |-> call[c].cat, v |-> call[c].v,
                        dir |-> call[c].base]
      BY <2>1 DEF WriteRow, Patching
    <3>2. dirs[d].there
      BY <1>0, <3>1 DEF GoodDir
    <3>3. /\ d = call[c].base /\ dirs[d].index.v = call[c].v
          /\ dirs[d].index.title = call[c].title /\ dirs[d].index.cat = call[c].cat
      BY <3>1, <3>2 DEF PatchAlone
    <3> QED
      BY <3>1, <3>3 DEF Goal
  <2>2. CASE ~WriteRow(c)
    <3>1. docRow' = docRow
      BY <1>2, <2>2 DEF Serve, BackupDir, ClearDir, WriteIndex, WriteTopic, Answer, Fails, Aborts,
         RestoreBackup, Rewrite, MoveDoc, RetagTopics, RemoveDir, rows
    <3> QED
      BY <1>0, <1>2, <1>a, <3>1, CleanBefore
  <2> QED
    BY <2>1, <2>2
<1>3. CASE ClaimBatch \/ Crash
  <2>1. docRow' = docRow
    BY <1>3 DEF ClaimBatch, Crash, rows
  <2> QED
    BY <1>0, <1>3, <1>a, <2>1, CleanBefore
<1>4. ASSUME NEW w \in work, Handle(w) PROVE Goal
  <2>0. /\ w \in WorkType /\ w.path = <<w.path[1], w.path[2]>>
        /\ File(p)' = File(p) /\ p \notin pending /\ (w.path # p => Clean(p))
    BY <1>0, <1>4, CleanBefore, WorkFields
  <2>1. CASE HandleIndex(w) /\ w.path = p
    <3>1. w.file = File(p) /\ File(p) = dirs'[d].index
      BY <1>0, <2>0, <2>1 DEF ReadIsFile, File
    <3>2. w.pc # "gone"
      BY <2>0, <3>1, WorkFields
    <3>3. docRow' = [title |-> w.file.title, cat |-> w.file.cat, v |-> w.file.v, dir |-> w.path[1]]
      BY <2>1, <3>2 DEF HandleIndex
    <3> QED
      BY <1>0, <2>1, <3>1, <3>3 DEF Goal
  <2>2. CASE HandleIndex(w) /\ w.path # p
    <3>1. w.path[2] = "index" /\ w.path[1] # d
      BY <2>0, <2>2 DEF HandleIndex
    <3>2. docRow = DocRowOf(d) /\ (docRow' = docRow => Goal)
      BY <1>a, <2>0, <2>2
    <3>3. docRow.dir = d
      BY <3>2 DEF DocRowOf
    <3>4. docRow # None
      <4>1. dirs[d].index \in IndexFile
        BY <1>0, <2>0 DEF File, GoodDir, DirType
      <4>2. DocRowOf(d) \in DocRows
        BY <4>1 DEF DocRowOf, DocRows, IndexFile
      <4> QED
        BY <3>2, <4>2, NoneAssumption
    <3>5. Usurps(w, docRow)
      BY <1>0, <2>0, <3>1, <3>3, <3>4 DEF Usurps, File
    <3>6. w.pc = "gone"
      BY <2>2, <3>5 DEF HandleIndex, Mishap
    <3>7. docRow' = docRow
      BY <2>2, <3>1, <3>3, <3>6 DEF HandleIndex
    <3> QED
      BY <3>2, <3>7
  <2>3. CASE ~HandleIndex(w)
    <3>1. docRow' = docRow
      BY <1>4, <2>3 DEF Handle, CompareDigest, UpsertLance, UpsertSql, DeleteLance, DeleteSql,
         HandlerFails, rows
    <3>2. w.path # p
      <4>1. SUFFICES ASSUME w.path = p PROVE FALSE
        OBVIOUS
      <4>2. w.path[2] = "index"
        BY <1>0, <4>1
      <4>3. w.pc \notin {"lance", "sql", "gone from lance"}
        BY <2>0, <4>2, WorkFields
      <4> QED
        BY <1>4, <2>3, <4>2, <4>3 DEF Handle, CompareDigest, UpsertLance, UpsertSql, DeleteLance,
           DeleteSql, HandlerFails
    <3> QED
      BY <1>a, <2>0, <3>1, <3>2
  <2> QED
    BY <2>1, <2>2, <2>3
<1> QED
  BY <1>1, <1>2, <1>3, <1>4 DEF Next

LEMMA TopicFoundStays ==
    ASSUME Typed, ReadIsFile, OneStores, StoresAgree, TopicFound, Next, mishaps' = {}
    PROVE  TopicFound'
<1> SUFFICES ASSUME NEW d \in Dirs, dirs'[d].topic # None, <<d, "topic">> \notin pending',
                    \A w \in work' : w.path # <<d, "topic">>
             PROVE  /\ lance' = [cat |-> dirs'[d].topic.cat, v |-> dirs'[d].topic.v, dir |-> d]
                    /\ sql' = lance'
    BY DEF TopicFound, Clean
<1> DEFINE p == <<d, "topic">>
           row == [cat |-> dirs[d].topic.cat, v |-> dirs[d].topic.v, dir |-> d]
           Goal == lance' = [cat |-> dirs'[d].topic.cat, v |-> dirs'[d].topic.v, dir |-> d]
                   /\ sql' = lance'
<1>0. /\ p \in Paths /\ p[1] = d /\ p[2] = "topic" /\ row.dir = d
      /\ work \subseteq WorkType /\ dirs \in [Dirs -> GoodDir]
    BY DEF Paths, Parts, Typed
<1>a. ASSUME Clean(p), File(p)' = File(p)
      PROVE  /\ dirs[d].topic # None /\ lance = row /\ sql = row
             /\ lance' = lance /\ sql' = sql => Goal
  <2>1. dirs'[d].topic = dirs[d].topic
    BY <1>0, <1>a DEF File
  <2> QED
    BY <1>a, <2>1 DEF TopicFound
<1> HIDE DEF Goal
<1> SUFFICES Goal
    BY DEF Goal
<1>1. ASSUME NEW c \in Calls, Ask(c) \/ Serve(c) PROVE Goal
  <2>1. lance' = lance /\ sql' = sql
    BY <1>1, AskCalls, ServeLeaves DEF rows
  <2> QED
    BY <1>0, <1>1, <1>a, <2>1, CleanBefore
<1>2. CASE ClaimBatch \/ Crash
  <2>1. lance' = lance /\ sql' = sql
    BY <1>2 DEF ClaimBatch, Crash, rows
  <2> QED
    BY <1>0, <1>2, <1>a, <2>1, CleanBefore
<1>3. ASSUME NEW w \in work, Handle(w) PROVE Goal
  <2>0. /\ w \in WorkType /\ w.path = <<w.path[1], w.path[2]>>
        /\ File(p)' = File(p) /\ p \notin pending /\ (w.path # p => Clean(p))
    BY <1>0, <1>3, CleanBefore, WorkFields
  \* A handler of another path.
  <2>a. ASSUME w.path # p
        PROVE  /\ dirs[d].topic # None /\ lance = row /\ sql = row
               /\ lance' = lance /\ sql' = sql => Goal
    BY <1>a, <2>0, <2>a
  <2>b. ASSUME w.path[2] = "topic", w.path # p PROVE w.path[1] # d
    BY <2>0, <2>b
  \* The handler of this path has read the file.
  <2>c. ASSUME w.path = p
        PROVE  /\ w.file # None /\ w.file = dirs'[d].topic /\ w.path[1] = d
               /\ \A pc : ~ReplaceWork(w, pc)
    <3>1. w.file = File(p) /\ File(p)' = dirs'[d].topic
      BY <1>0, <2>0, <2>c DEF ReadIsFile, File
    <3>2. ASSUME NEW pc, ReplaceWork(w, pc) PROVE FALSE
      <4>1. [w EXCEPT !.pc = pc] \in work' /\ [w EXCEPT !.pc = pc].path = p
        BY <2>0, <2>c, <3>2 DEF ReplaceWork, WorkType
      <4> QED
        BY <4>1
    <3> QED
      BY <1>0, <2>0, <2>c, <3>1, <3>2
  <2>1. CASE HandleIndex(w)
    <3>1. lance' = lance /\ sql' = sql /\ w.path # p
      BY <1>0, <2>1 DEF HandleIndex
    <3> QED
      BY <2>a, <3>1
  <2>2. CASE CompareDigest(w)
    <3>1. lance' = lance /\ sql' = sql /\ w.path[2] = "topic" /\ w.pc = "read"
      BY <2>2 DEF CompareDigest, rows
    <3>2. CASE w.path = p
      <4>1. SameDigest(w) /\ lance.dir = d
        BY <2>2, <2>c, <3>2 DEF CompareDigest, Mishap
      <4>2. lance \in TopicRows /\ lance.cat = w.file.cat /\ lance.v = w.file.v
        BY <4>1 DEF SameDigest, Typed
      <4>3. lance = [cat |-> w.file.cat, v |-> w.file.v, dir |-> d]
        BY <4>1, <4>2 DEF TopicRows
      <4>4. ASSUME NEW x \in work, x.pc = "sql" PROVE FALSE
        <5>1. x.file # None /\ x.path[2] = "topic"
          BY <1>0, <4>4, WorkFields
        <5> QED
          BY <2>c, <3>1, <3>2, <4>4, <5>1 DEF OneStores
      <4>5. sql = lance
        BY <4>1, <4>4 DEF StoresAgree, SameDigest
      <4> QED
        BY <2>c, <3>1, <3>2, <4>3, <4>5 DEF Goal
    <3> QED
      BY <2>a, <3>1, <3>2
  <2>3. CASE UpsertLance(w)
    <3>1. ReplaceWork(w, "sql") /\ w.path[2] = "topic" /\ ~Usurps(w, lance)
      BY <2>0, <2>3, WorkFields DEF UpsertLance, Mishap
    <3>2. w.path # p
      BY <2>c, <3>1
    <3>3. lance = row /\ w.path[1] # d /\ dirs[d].topic # None
      BY <2>a, <2>b, <3>1, <3>2
    <3>4. lance # None
      <4>1. dirs[d].topic \in TopicFile
        BY <1>0, <3>3 DEF GoodDir, DirType
      <4>2. row \in TopicRows
        BY <4>1 DEF TopicRows, TopicFile
      <4> QED
        BY <3>3, <4>2, NoneAssumption
    <3> QED
      BY <1>0, <3>1, <3>3, <3>4 DEF Usurps, File
  <2>4. CASE UpsertSql(w)
    <3>1. lance' = lance /\ sql' = TopicRow(w) /\ lance = TopicRow(w) /\ w.path[2] = "topic"
      BY <2>0, <2>4, WorkFields DEF UpsertSql, OneStores
    <3>2. CASE w.path = p
      BY <2>c, <3>1, <3>2 DEF Goal, TopicRow
    <3>3. CASE w.path # p
      <4>1. lance.dir = d /\ w.path[1] # d
        BY <1>0, <2>a, <2>b, <3>1, <3>3
      <4> QED
        BY <3>1, <4>1 DEF TopicRow
    <3> QED
      BY <3>2, <3>3
  <2>5. CASE DeleteLance(w)
    <3>1. /\ ReplaceWork(w, "gone from lance") /\ w.path[2] = "topic" /\ sql' = sql
          /\ lance' = IF InStore(lance, w.path[1]) THEN None ELSE lance
      BY <2>5 DEF DeleteLance
    <3>2. w.path # p
      BY <2>c, <3>1
    <3>3. lance.dir # w.path[1]
      BY <1>0, <2>a, <2>b, <3>1, <3>2
    <3> QED
      BY <2>a, <3>1, <3>2, <3>3 DEF InStore
  <2>6. CASE DeleteSql(w)
    <3>1. /\ w.path[2] = "topic" /\ w.file = None /\ lance' = lance
          /\ sql' = IF InStore(sql, w.path[1]) THEN None ELSE sql
      BY <2>0, <2>6, WorkFields DEF DeleteSql
    <3>2. w.path # p
      BY <2>c, <3>1
    <3>3. sql.dir # w.path[1]
      BY <1>0, <2>a, <2>b, <3>1, <3>2
    <3> QED
      BY <2>a, <3>1, <3>2, <3>3 DEF InStore
  <2>7. CASE HandlerFails(w)
    <3>1. lance' = lance /\ sql' = sql /\ w.path # p
      BY <2>7 DEF HandlerFails, rows
    <3> QED
      BY <2>a, <3>1
  <2> QED
    BY <1>3, <2>1, <2>2, <2>3, <2>4, <2>5, <2>6, <2>7 DEF Handle
<1> QED
  BY <1>1, <1>2, <1>3 DEF Next

LEMMA FoundStays ==
    ASSUME Typed, GhostInv, mishaps = {} => FoundInv, Next
    PROVE  (mishaps = {} => FoundInv)'
<1> SUFFICES ASSUME mishaps' = {} PROVE FoundInv'
    OBVIOUS
<1>1. ReadIsFile /\ FoundInv
    BY MishapsGrow DEF GhostInv
<1>2. PatchAlone' /\ OneStores' /\ StoresAgree'
    BY <1>1, PatchAloneStays, OneStoresStays, StoresAgreeStays DEF FoundInv
<1>3. DocFound' /\ TopicFound'
    BY <1>1, DocFoundStays, TopicFoundStays DEF FoundInv
<1> QED
  BY <1>2, <1>3 DEF FoundInv

--------------------------------------------------------------------------------
LEMMA KnowledgeInit == Init => KnowledgeInv
<1> SUFFICES ASSUME Init PROVE KnowledgeInv
    OBVIOUS
<1>1. Typed
    BY TypedInit
<1>2. \A c \in Calls : call[c].kind = "none" /\ call[c].pc = "none" /\ ~Open(c)
    BY DEF Init, NoCall, Open
<1>3. \A d \in Dirs : dirs[d].index = None /\ dirs[d].topic = None
    BY DEF Init, NoDir
<1>4. CopyInv
    BY <1>2 DEF Init, CopyInv, Versioned, CopyBeside, CopyKept, Writing
<1>5. GhostInv
    BY <1>2 DEF Init, GhostInv, ReadIsFile, PatchHasIndex, Leaving
<1>6. FoundInv
    BY <1>2, <1>3 DEF Init, FoundInv, PatchAlone, OneStores, StoresAgree, DocFound, TopicFound,
       Patching
<1> QED
  BY <1>1, <1>4, <1>5, <1>6 DEF KnowledgeInv

LEMMA KnowledgeStep == KnowledgeInv /\ [Next]_vars => KnowledgeInv'
<1>1. ASSUME KnowledgeInv, Next PROVE KnowledgeInv'
    BY <1>1, TypedStays, CopyStays, GhostStays, FoundStays DEF KnowledgeInv
<1>2. ASSUME KnowledgeInv, UNCHANGED vars PROVE KnowledgeInv'
  <2>0. UNCHANGED <<dirs, pending, work, docRow, lance, sql, call, last, kept, mishaps, faults>>
    BY <1>2 DEF vars
  <2>1. Typed'
    BY <1>2, <2>0 DEF KnowledgeInv, Typed, OneCall, Open
  <2>2. CopyInv'
    BY <1>2, <2>0 DEF KnowledgeInv, CopyInv, Versioned, CopyBeside, CopyKept, Open, Target, Whole,
       Without
  <2>3. GhostInv'
    BY <1>2, <2>0 DEF KnowledgeInv, GhostInv, ReadIsFile, PatchHasIndex, Leaving, WorksOn, File,
       Without
  <2>4. (mishaps = {} => FoundInv)'
    BY <1>2, <2>0 DEF KnowledgeInv, FoundInv, PatchAlone, OneStores, StoresAgree, DocFound,
       TopicFound, TopicRow, InStore, Clean
  <2> QED
    BY <2>1, <2>2, <2>3, <2>4 DEF KnowledgeInv
<1> QED
  BY <1>1, <1>2

\* The inductive invariant: what the calls have in hand and the copy beside what they write, what
\* the handlers have read and have yet to handle, and, unless something has happened that the
\* code does not guard against, that the rows are those of the files that have been handled.
THEOREM KnowledgeInvariant == Spec => []KnowledgeInv
<1> QED
  BY KnowledgeInit, KnowledgeStep, PTL DEF Spec

\* Directories, rows, calls and handlers have their types.
THEOREM TypeCorrect == Spec => []TypeOK
<1>1. KnowledgeInv => TypeOK
    BY TypedImplies DEF KnowledgeInv
<1> QED
  BY <1>1, KnowledgeInvariant, PTL

\* Replacements, patches, failures and crashes lose no document that a call has answered for: a
\* whole directory of it, or one inside another, is on disk until it is deleted, unless a call
\* started from a row that lagged behind.
THEOREM CopyIsKept == Spec => []CopyKept
<1>1. KnowledgeInv => CopyKept
    BY DEF KnowledgeInv, CopyInv
<1> QED
  BY <1>1, KnowledgeInvariant, PTL

\* Once all paths are handled and all calls have ended, no row of either store is that of a file
\* that is gone or has moved: a file that goes away is claimed again, in whatever step the
\* handlers that read it were.
THEOREM NoGhostStays == Spec => []NoGhostRow
<1>1. KnowledgeInv => NoGhostRow
    BY RowDirs DEF KnowledgeInv, GhostInv, Leaving, WorksOn, NoGhostRow, AtRest
<1> QED
  BY <1>1, KnowledgeInvariant, PTL

\* Once all paths are handled a whole document is found where it is and as its files say, in the
\* document's row and in both stores of the topic, unless something has happened that the code
\* does not guard against.
THEOREM FoundWhereWritten == Spec => []FoundAsWritten
<1>1. ASSUME KnowledgeInv, AtRest, mishaps = {}, NEW d \in Dirs, Whole(d)
      PROVE  /\ docRow # None /\ lance # None /\ sql # None
             /\ docRow.dir = d /\ lance.dir = d /\ sql.dir = d
             /\ Hit = [cat |-> dirs[d].topic.cat, v |-> dirs[d].topic.v,
                       title |-> dirs[d].index.title, summary |-> dirs[d].index.v]
  <2>1. /\ dirs[d].index \in IndexFile /\ dirs[d].topic \in TopicFile
        /\ Clean(<<d, "index">>) /\ Clean(<<d, "topic">>)
    BY <1>1 DEF KnowledgeInv, Typed, GoodDir, DirType, Whole, AtRest, Clean
  <2>2. docRow = DocRowOf(d)
    BY <1>1, <2>1 DEF KnowledgeInv, FoundInv, DocFound, DocRowOf, Whole
  <2>3. lance = [cat |-> dirs[d].topic.cat, v |-> dirs[d].topic.v, dir |-> d] /\ sql = lance
    BY <1>1, <2>1 DEF KnowledgeInv, FoundInv, TopicFound, Whole
  <2>4. docRow \in DocRows /\ lance \in TopicRows
    BY <2>1, <2>2, <2>3 DEF DocRowOf, DocRows, TopicRows, IndexFile, TopicFile
  <2>5. docRow # None /\ lance # None
    BY <2>4, NoneAssumption
  <2> QED
    BY <2>2, <2>3, <2>5 DEF DocRowOf, Hit
<1>2. KnowledgeInv => FoundAsWritten
    BY <1>1 DEF FoundAsWritten
<1> QED
  BY <1>2, KnowledgeInvariant, PTL
================================================================================
