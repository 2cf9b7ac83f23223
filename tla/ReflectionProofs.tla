--------------------------- MODULE ReflectionProofs ---------------------------
(***************************************************************************)
(* Proofs about Reflection, for any episodes, any number of runs and of    *)
(* faults: a narrative stands for what it deprecates, and at rest the file *)
(* and the index, entries and facts, members and count agree.              *)
(***************************************************************************)
EXTENDS Reflection, TLAPS, FiniteSetTheorems

Written == {"wait"} \cup Locked

RunType ==
    [pc : {"none", "load", "merge", "wait", "done"} \cup Locked, snap : SUBSET Entries,
     loaded : SUBSET Entries, todo : SUBSET Entries, tells : SUBSET Episodes]

\* A run's narrative is on disk from its merge on, and what the run has seen is on disk.
Placed ==
    /\ run \in [Runs -> RunType]
    /\ \A r \in Runs : run[r].pc \in {"none", "load", "merge"} => r \notin md
    /\ \A r \in Runs : run[r].pc \in Written => r \in md
    /\ \A r \in Runs : run[r].snap \subseteq md

\* Nobody has a trace of an entry before it is written; its facts are asked for with it.
Unseen ==
    /\ \A x \in Entries \ md :
         /\ mark[x] = None /\ row[x] = None /\ fact[x] = "none"
         /\ handler # None => handler.marks[x] = None
    /\ \A x \in md : fact[x] # "none"

\* A run tells of all that it has loaded, and deprecates nothing else; the marks in the hands
\* of a cascade handler are like those in the file.
RunsTell ==
    Without({"lag", "dropped"}) =>
        \A r \in Runs :
            /\ run[r].pc \in Written => \A x \in run[r].loaded : Told(x) \subseteq run[r].tells
            /\ run[r].pc = "wait" => run[r].snap = run[r].loaded
            /\ run[r].pc \in Locked => run[r].todo = run[r].loaded

HandlerTells ==
    Without({"lag", "dropped"}) /\ handler # None =>
        \A x \in Entries, r \in Runs :
            handler.marks[x] = r => r \in md /\ Told(x) \subseteq run[r].tells

\* The extraction of a narrative's facts is over when its run begins to deprecate.
FactsThere ==
    /\ "failed" \notin mishaps => \A x \in Entries : fact[x] # "failed"
    /\ \A r \in Runs : run[r].pc \in Locked => fact[r] \in Extracted

ReflectionInv ==
    /\ TypeOK /\ Placed /\ Unseen /\ RunsTell /\ HandlerTells /\ FactsThere
    /\ NothingForgotten /\ FactsReplaced

--------------------------------------------------------------------------------
(* The initial state. *)

LEMMA ReflectionInit == Init => ReflectionInv
<1> SUFFICES ASSUME Init PROVE ReflectionInv
    OBVIOUS
<1> USE ReflectionAssumption DEF Init, Entries
<1>1. Cardinality(Settled) \in Nat
    BY FS_CardinalityType
<1>2. \A r \in Runs : run[r] = NoRun
    OBVIOUS
<1>3. TypeOK
    BY <1>1, <1>2 DEF TypeOK, NoRun, Locked
<1>4. Placed /\ Unseen
  <2>1. NoRun \in RunType
    BY DEF NoRun, RunType
  <2> QED
    BY <1>2, <2>1 DEF Placed, Unseen, NoRun, Written, Locked
<1>5. RunsTell /\ HandlerTells /\ FactsThere
    BY <1>2 DEF RunsTell, HandlerTells, FactsThere, NoRun, Written, Locked
<1>6. NothingForgotten /\ FactsReplaced
    BY DEF NothingForgotten, FactsReplaced
<1> QED
    BY <1>3, <1>4, <1>5, <1>6 DEF ReflectionInv

--------------------------------------------------------------------------------
(* Types. *)

LEMMA ConverseTypes == ASSUME ReflectionInv, Converse PROVE TypeOK'
<1> USE ReflectionAssumption DEF Entries, ReflectionInv, files, index, cluster, TypeOK
<1>1. ASSUME NEW e \in Episodes, WriteEpisode(e) PROVE TypeOK'
    BY <1>1 DEF WriteEpisode
<1>2. ASSUME NEW e \in Episodes, ReadCluster(e) PROVE TypeOK'
    BY <1>2 DEF ReadCluster
<1>3. CASE JoinCluster \/ JoinAndFail
    BY <1>3 DEF JoinCluster, JoinAndFail, Upsert, Stale
<1>4. ASSUME NEW x \in Entries, ExtractFacts(x) PROVE TypeOK'
    BY <1>4 DEF ExtractFacts
<1>5. ASSUME NEW x \in Entries, FindNoFacts(x) \/ FactsFail(x) PROVE TypeOK'
    BY <1>5 DEF FindNoFacts, FactsFail, Fault
<1> QED
    BY <1>1, <1>2, <1>3, <1>4, <1>5 DEF Converse

LEMMA CascadeTypes == ASSUME ReflectionInv, Cascade PROVE TypeOK'
<1> USE ReflectionAssumption DEF Entries, ReflectionInv, files, index, cluster, TypeOK
<1>1. CASE ReadLog
  <2>1. handler' \in Reading /\ handler'.entries = md /\ md' = md
    BY <1>1 DEF ReadLog, Reading
  <2> QED
    BY <1>1, <2>1 DEF ReadLog
<1>2. CASE IndexLog
  <2>1. handler.marks \in [Entries -> Runs \cup {None}]
    BY <1>2 DEF IndexLog, Reading
  <2>2. PICK lost \in SUBSET handler.entries : ApplyMarks(lost)
    BY <1>2 DEF IndexLog
  <2>3. row' \in [Entries -> Runs \cup {None, Live}]
    BY <2>1, <2>2 DEF ApplyMarks
  <2>4. mishaps' = mishaps \/ mishaps' = mishaps \cup {"unmarked"}
    BY <1>2 DEF IndexLog, Fault
  <2> QED
    BY <1>2, <2>3, <2>4 DEF IndexLog
<1>3. CASE Rebuild
    BY <1>3 DEF Rebuild, Fault
<1> QED
    BY <1>1, <1>2, <1>3 DEF Cascade

\* How a run changes: its next step, its end, or another record of the type.
LEMMA RunGoes ==
    ASSUME ReflectionInv, NEW r \in Runs,
           NEW pc \in {"none", "load", "merge", "wait", "done"} \cup Locked, Goto(r, pc)
    PROVE  /\ run' \in [Runs -> RunType] /\ \A q \in Runs : q # r => run'[q] = run[q]
           /\ run'[r].pc = pc /\ run'[r].snap = run[r].snap /\ run'[r].loaded = run[r].loaded
           /\ run'[r].todo = run[r].todo /\ run'[r].tells = run[r].tells
<1>1. run[r] \in RunType
    BY DEF ReflectionInv, Placed
<1>2. run'[r] = [run[r] EXCEPT !.pc = pc]
    BY DEF Goto, ReflectionInv, Placed
<1>3. run'[r] \in RunType
    BY <1>1, <1>2 DEF RunType
<1> QED
    BY <1>1, <1>2, <1>3 DEF Goto, ReflectionInv, Placed, RunType

LEMMA RunEnds ==
    ASSUME ReflectionInv, NEW r \in Runs,
           run' = [run EXCEPT ![r] = Ended(run[r].tells)] \/ run' = [run EXCEPT ![r] = Ended({})]
    PROVE  /\ run' \in [Runs -> RunType] /\ \A q \in Runs : q # r => run'[q] = run[q]
           /\ run'[r].pc = "done" /\ run'[r].snap = {} /\ run'[r].loaded = {}
           /\ run'[r].todo = {} /\ run'[r].tells \in {run[r].tells, {}}
           /\ run' = [run EXCEPT ![r] = Ended(run[r].tells)] => run'[r].tells = run[r].tells
<1>1. run[r] \in RunType
    BY DEF ReflectionInv, Placed
<1>2. ASSUME NEW tells \in SUBSET Episodes
      PROVE  /\ Ended(tells) \in RunType
             /\ Ended(tells).pc = "done" /\ Ended(tells).snap = {} /\ Ended(tells).loaded = {}
             /\ Ended(tells).todo = {} /\ Ended(tells).tells = tells
    BY DEF Ended, NoRun, RunType
<1>3. run[r].tells \in SUBSET Episodes /\ {} \in SUBSET Episodes
    BY <1>1 DEF RunType
<1>4. Ended(run[r].tells) \in RunType /\ Ended({}) \in RunType
    BY <1>2, <1>3
<1>5. CASE run' = [run EXCEPT ![r] = Ended(run[r].tells)]
  <2>1. run'[r] = Ended(run[r].tells)
    BY <1>5 DEF ReflectionInv, Placed
  <2> QED
    BY <1>2, <1>3, <1>4, <1>5, <2>1 DEF ReflectionInv, Placed
<1>6. CASE run' = [run EXCEPT ![r] = Ended({})]
  <2>1. run'[r] = Ended({})
    BY <1>6 DEF ReflectionInv, Placed
  <2>2. run' = [run EXCEPT ![r] = Ended(run[r].tells)] => run'[r] = Ended(run[r].tells)
    BY DEF ReflectionInv, Placed
  <2> QED
    BY <1>2, <1>3, <1>4, <1>6, <2>1, <2>2 DEF ReflectionInv, Placed
<1> QED
    BY <1>5, <1>6

LEMMA RunSelects ==
    ASSUME ReflectionInv, NEW r \in Runs, Select(r)
    PROVE  /\ run' \in [Runs -> RunType] /\ \A q \in Runs : q # r => run'[q] = run[q]
           /\ run'[r].pc = "load" /\ run'[r].snap = run[r].snap
           /\ run'[r].loaded = run[r].loaded /\ run'[r].todo = run[r].todo
           /\ run'[r].tells = run[r].tells
BY RunGoes DEF Select

LEMMA RunLoads ==
    ASSUME ReflectionInv, NEW r \in Runs, Load(r)
    PROVE  /\ run' \in [Runs -> RunType] /\ \A q \in Runs : q # r => run'[q] = run[q]
           /\ run'[r].pc = "merge" /\ run'[r].snap = members
           /\ run'[r].loaded = run[r].loaded /\ run'[r].todo = run[r].todo
           /\ run'[r].tells = run[r].tells
<1>1. run[r] \in RunType /\ members \in SUBSET Entries
    BY DEF ReflectionInv, Placed, TypeOK
<1>2. run'[r] = [run[r] EXCEPT !.pc = "merge", !.snap = members]
    BY DEF Load, ReflectionInv, Placed
<1>3. run'[r] \in RunType
    BY <1>1, <1>2 DEF RunType
<1> QED
    BY <1>1, <1>2, <1>3 DEF Load, ReflectionInv, Placed, RunType

Loaded(r) == {x \in run[r].snap : row[x] # None}

LEMMA RunMerges ==
    ASSUME ReflectionInv, NEW r \in Runs, Merge(r)
    PROVE  /\ run' \in [Runs -> RunType] /\ \A q \in Runs : q # r => run'[q] = run[q]
           /\ run'[r].pc = "wait" /\ run'[r].snap = run[r].snap /\ run'[r].loaded = Loaded(r)
           /\ run'[r].todo = run[r].todo /\ MergedText(Loaded(r), run'[r].tells)
<1>1. run[r] \in RunType
    BY DEF ReflectionInv, Placed
<1>2. PICK tells \in SUBSET Episodes :
        /\ MergedText(Loaded(r), tells)
        /\ run' = [run EXCEPT ![r] = [@ EXCEPT !.pc = "wait", !.loaded = Loaded(r), !.tells = tells]]
    BY DEF Merge, Loaded
<1>3. run'[r] = [run[r] EXCEPT !.pc = "wait", !.loaded = Loaded(r), !.tells = tells]
    BY <1>2 DEF ReflectionInv, Placed
<1>4. Loaded(r) \in SUBSET Entries
    BY <1>1 DEF Loaded, RunType
<1>5. run'[r] \in RunType
    BY <1>1, <1>3, <1>4 DEF RunType
<1>6. /\ run'[r].pc = "wait" /\ run'[r].snap = run[r].snap /\ run'[r].loaded = Loaded(r)
      /\ run'[r].todo = run[r].todo /\ run'[r].tells = tells
    BY <1>1, <1>3 DEF RunType
<1> QED
    BY <1>2, <1>5, <1>6 DEF ReflectionInv, Placed

Todo(r) == run[r].snap \cap members

LEMMA RunResolves ==
    ASSUME ReflectionInv, NEW r \in Runs, Resolve(r), Todo(r) # {}
    PROVE  /\ run' \in [Runs -> RunType] /\ \A q \in Runs : q # r => run'[q] = run[q]
           /\ run'[r].pc = "patch" /\ run'[r].snap = {}
           /\ run'[r].loaded = run[r].loaded \cap Todo(r)
           /\ run'[r].todo = Todo(r) /\ run'[r].tells = run[r].tells
<1>1. run[r] \in RunType
    BY DEF ReflectionInv, Placed
<1>2. run'[r] = [run[r] EXCEPT !.pc = "patch", !.todo = Todo(r), !.snap = {},
                               !.loaded = @ \cap Todo(r)]
    BY DEF Resolve, Todo, ReflectionInv, Placed
<1>3. /\ Todo(r) \in SUBSET Entries /\ run[r].loaded \cap Todo(r) \in SUBSET Entries
      /\ "patch" \in {"none", "load", "merge", "wait", "done"} \cup Locked /\ {} \in SUBSET Entries
    BY <1>1 DEF Todo, RunType, Locked
<1>4. run'[r] \in RunType
  <2> DEFINE Pcs == {"none", "load", "merge", "wait", "done"} \cup Locked
             kept == run[r].loaded \cap Todo(r)
             todo == Todo(r)
  <2>1. RunType = [pc : Pcs, snap : SUBSET Entries, loaded : SUBSET Entries,
                   todo : SUBSET Entries, tells : SUBSET Episodes]
    BY DEF RunType
  <2>2. run'[r] = [run[r] EXCEPT !.pc = "patch", !.todo = todo, !.snap = {}, !.loaded = kept]
    BY <1>2
  <2>3. todo \in SUBSET Entries /\ kept \in SUBSET Entries /\ "patch" \in Pcs
    BY <1>3
  <2> HIDE DEF Pcs, kept, todo
  <2> QED
    BY <1>1, <2>1, <2>2, <2>3
<1>5. /\ run'[r].pc = "patch" /\ run'[r].snap = {}
      /\ run'[r].loaded = run[r].loaded \cap Todo(r)
      /\ run'[r].todo = Todo(r) /\ run'[r].tells = run[r].tells
    BY <1>1, <1>2 DEF RunType
<1> QED
    BY <1>4, <1>5 DEF Resolve, Todo, ReflectionInv, Placed

LEMMA RunStops ==
    ASSUME ReflectionInv, NEW r \in Runs, Resolve(r), Todo(r) = {}
    PROVE  run' = [run EXCEPT ![r] = Ended(run[r].tells)]
BY DEF Resolve, Todo

\* The part of TypeOK about the runs.
RunsInOrder ==
    /\ \A r \in Runs :
         /\ run[r].pc \in {"none", "load", "merge", "wait", "done"} \cup Locked
         /\ run[r].loaded \subseteq md /\ run[r].tells \subseteq Episodes
         /\ run[r].pc \in Locked => r \in md /\ run[r].todo # {} /\ run[r].loaded \subseteq run[r].todo
    /\ \A q, r \in Runs : run[q].pc \in Locked /\ run[r].pc \in Locked => q = r

LEMMA RunOrder ==
    ASSUME ReflectionInv, NEW r \in Runs, run' \in [Runs -> RunType], md \subseteq md',
           \A q \in Runs : q # r => run'[q] = run[q],
           run'[r].loaded \subseteq md',
           run'[r].pc \in Locked =>
             /\ r \in md' /\ run'[r].todo # {} /\ run'[r].loaded \subseteq run'[r].todo
             /\ \A q \in Runs : run[q].pc \in Locked => q = r
    PROVE  RunsInOrder'
<1>1. /\ run'[r].pc \in {"none", "load", "merge", "wait", "done"} \cup Locked
      /\ run'[r].tells \subseteq Episodes
    BY DEF RunType
<1>2. RunsInOrder
    BY DEF ReflectionInv, TypeOK, RunsInOrder
<1>3. ASSUME NEW q \in Runs
      PROVE  /\ run'[q].pc \in {"none", "load", "merge", "wait", "done"} \cup Locked
             /\ run'[q].loaded \subseteq md' /\ run'[q].tells \subseteq Episodes
             /\ run'[q].pc \in Locked
                  => q \in md' /\ run'[q].todo # {} /\ run'[q].loaded \subseteq run'[q].todo
    BY <1>1, <1>2 DEF RunsInOrder
<1>4. ASSUME NEW q \in Runs, NEW s \in Runs, run'[q].pc \in Locked, run'[s].pc \in Locked
      PROVE  q = s
    BY <1>2, <1>4 DEF RunsInOrder
<1> QED
    BY <1>3, <1>4 DEF RunsInOrder

\* What a run does under the lock, one step after the other.
LEMMA LockedGoes ==
    ASSUME ReflectionInv, NEW r \in Runs, run[r].pc \in Locked, md \subseteq md',
           NEW pc \in Locked, Goto(r, pc)
    PROVE  RunsInOrder'
<1>1. /\ run' \in [Runs -> RunType] /\ \A q \in Runs : q # r => run'[q] = run[q]
      /\ run'[r].pc = pc /\ run'[r].loaded = run[r].loaded /\ run'[r].todo = run[r].todo
    BY RunGoes
<1> QED
    BY <1>1, RunOrder DEF ReflectionInv, TypeOK

LEMMA EndsInOrder ==
    ASSUME ReflectionInv, NEW r \in Runs, md \subseteq md',
           run' = [run EXCEPT ![r] = Ended(run[r].tells)] \/ run' = [run EXCEPT ![r] = Ended({})]
    PROVE  RunsInOrder'
<1>1. /\ run' \in [Runs -> RunType] /\ \A q \in Runs : q # r => run'[q] = run[q]
      /\ run'[r].pc = "done" /\ run'[r].loaded = {}
    BY RunEnds
<1>2. "done" \notin Locked
    BY DEF Locked
<1> QED
    BY <1>1, <1>2, RunOrder

LEMMA ReflectTypes ==
    ASSUME ReflectionInv, NEW r \in Runs, Reflect(r) PROVE TypeOK'
<1> USE ReflectionAssumption DEF Entries, files, index, cluster
<1>0. TypeOK /\ RunsInOrder /\ Placed
    BY DEF ReflectionInv, TypeOK, RunsInOrder
<1>1. CASE Select(r)
  <2>1. run'[r].pc \notin Locked
    BY <1>1, RunSelects DEF Locked
  <2>2. RunsInOrder'
    BY <1>0, <1>1, <2>1, RunSelects, RunOrder DEF Select, RunsInOrder
  <2> QED
    BY <1>0, <1>1, <2>2 DEF Select, TypeOK, RunsInOrder
<1>a. CASE Load(r)
  <2>1. run'[r].pc \notin Locked
    BY <1>a, RunLoads DEF Locked
  <2>2. RunsInOrder'
    BY <1>0, <1>a, <2>1, RunLoads, RunOrder DEF Load, RunsInOrder
  <2> QED
    BY <1>0, <1>a, <2>2 DEF Load, TypeOK, RunsInOrder
<1>2. CASE Merge(r)
  <2>1. run'[r].pc \notin Locked /\ Loaded(r) \subseteq md
    BY <1>0, <1>2, RunMerges DEF Locked, Loaded, Placed
  <2>2. md \subseteq md'
    BY <1>2 DEF Merge
  <2>3. RunsInOrder'
    BY <1>2, <2>1, <2>2, RunMerges, RunOrder
  <2>4. mishaps' \subseteq mishaps \cup {"lag", "dropped"}
    BY <1>2 DEF Merge
  <2> QED
    BY <1>0, <1>2, <2>3, <2>4 DEF Merge, TypeOK, RunsInOrder
<1>3. CASE Skip(r)
    BY <1>0, <1>3, EndsInOrder DEF Skip, TypeOK, RunsInOrder
<1>4. CASE Timeout(r)
    BY <1>0, <1>4, EndsInOrder DEF Timeout, TypeOK, RunsInOrder
<1>5. CASE Resolve(r)
  <2>1. RunsInOrder'
    <3>1. CASE Todo(r) = {}
        BY <1>5, <3>1, RunStops, EndsInOrder DEF Resolve
    <3>2. CASE Todo(r) # {}
      <4>1. run[r].loaded \cap Todo(r) \subseteq md
        BY <1>0 DEF RunsInOrder
      <4>2. r \in md
        BY <1>0, <1>5 DEF Resolve, At, Placed, Written
      <4>3. md' = md /\ \A q \in Runs : run[q].pc \notin Locked
        BY <1>5 DEF Resolve
      <4>4. /\ run' \in [Runs -> RunType] /\ \A q \in Runs : q # r => run'[q] = run[q]
            /\ run'[r].loaded = run[r].loaded \cap Todo(r) /\ run'[r].todo = Todo(r)
        BY <1>5, <3>2, RunResolves
      <4> QED
        BY <3>2, <4>1, <4>2, <4>3, <4>4, RunOrder
    <3> QED
        BY <3>1, <3>2
  <2> QED
    BY <1>0, <1>5, <2>1 DEF Resolve, TypeOK, RunsInOrder, Mishap
<1>6. CASE PatchLog(r)
  <2>1. RunsInOrder'
    BY <1>6, LockedGoes DEF PatchLog, At, Locked
  <2> QED
    BY <1>0, <1>6, <2>1 DEF PatchLog, TypeOK, RunsInOrder
<1>7. CASE DeprecateRows(r)
  <2>1. RunsInOrder'
    BY <1>7, LockedGoes DEF DeprecateRows, At, Locked
  <2> QED
    BY <1>0, <1>7, <2>1 DEF DeprecateRows, TypeOK, RunsInOrder
<1>8. CASE DeprecateFacts(r)
  <2>1. RunsInOrder'
    BY <1>8, LockedGoes DEF DeprecateFacts, At, Locked
  <2> QED
    BY <1>0, <1>8, <2>1 DEF DeprecateFacts, TypeOK, RunsInOrder, Mishap
<1>9. CASE RemoveMembers(r)
  <2>1. RunsInOrder'
    BY <1>9, LockedGoes DEF RemoveMembers, At, Locked
  <2> QED
    BY <1>0, <1>9, <2>1 DEF RemoveMembers, TypeOK, RunsInOrder
<1>10. CASE AddMember(r)
  <2>1. RunsInOrder'
    BY <1>10, LockedGoes DEF AddMember, At, Locked
  <2>2. r \in md
    BY <1>0, <1>10 DEF AddMember, At, Placed, Written, Locked
  <2> QED
    BY <1>0, <1>10, <2>1, <2>2 DEF AddMember, TypeOK, RunsInOrder
<1>11. CASE UpdateMetadata(r)
    BY <1>0, <1>11, EndsInOrder DEF UpdateMetadata, TypeOK, RunsInOrder, Mishap
<1>12. CASE Interrupted(r)
    BY <1>0, <1>12, EndsInOrder DEF Interrupted, TypeOK, RunsInOrder, Fault
<1> QED
    BY <1>1, <1>a, <1>2, <1>3, <1>4, <1>5, <1>6, <1>7, <1>8, <1>9, <1>10, <1>11, <1>12 DEF Reflect

--------------------------------------------------------------------------------
(* What every step leaves alone. *)

\* Entries stay in the file, a narrative that is on disk keeps its text, and history is kept.
LEMMA TextsStay ==
    ASSUME ReflectionInv, Next
    PROVE  /\ md \subseteq md' /\ mishaps \subseteq mishaps'
           /\ \A r \in Runs : r \in md => run'[r].tells = run[r].tells
<1> USE DEF files, index, cluster
<1>1. CASE Converse
    BY <1>1 DEF Converse, WriteEpisode, ReadCluster, JoinCluster, JoinAndFail, Upsert,
                ExtractFacts, FindNoFacts, FactsFail, Fault
<1>2. CASE Cascade
    BY <1>2 DEF Cascade, ReadLog, IndexLog, Rebuild, Fault
<1>3. ASSUME NEW r \in Runs, Reflect(r)
      PROVE  /\ md \subseteq md' /\ mishaps \subseteq mishaps'
             /\ \A q \in Runs : q \in md => run'[q].tells = run[q].tells
  <2>0. run[r].pc \in {"none", "load", "merge"} => r \notin md
    BY DEF ReflectionInv, Placed
  <2>1. CASE Select(r)
    BY <2>1, RunSelects DEF Select
  <2>a. CASE Load(r)
    BY <2>a, RunLoads DEF Load
  <2>2. CASE Merge(r)
    BY <2>0, <2>2, RunMerges DEF Merge, At
  <2>3. CASE Skip(r)
    BY <2>0, <2>3, RunEnds DEF Skip
  <2>4. CASE Timeout(r)
    BY <2>4, RunEnds DEF Timeout
  <2>5. CASE Resolve(r)
    <3>1. mishaps \subseteq mishaps' /\ md' = md
        BY <2>5 DEF Resolve, Mishap
    <3>2. CASE Todo(r) = {}
        BY <2>5, <3>1, <3>2, RunStops, RunEnds
    <3>3. CASE Todo(r) # {}
        BY <2>5, <3>1, <3>3, RunResolves
    <3> QED
        BY <3>2, <3>3
  <2>6. CASE PatchLog(r)
    BY <2>6, RunGoes DEF PatchLog, Locked
  <2>7. CASE DeprecateRows(r)
    BY <2>7, RunGoes DEF DeprecateRows, Locked
  <2>8. CASE DeprecateFacts(r)
    BY <2>8, RunGoes DEF DeprecateFacts, Locked, Mishap
  <2>9. CASE RemoveMembers(r)
    BY <2>9, RunGoes DEF RemoveMembers, Locked
  <2>10. CASE AddMember(r)
    BY <2>10, RunGoes DEF AddMember, Locked
  <2>11. CASE UpdateMetadata(r)
    BY <2>11, RunEnds DEF UpdateMetadata, Mishap
  <2>12. CASE Interrupted(r)
    BY <2>12, RunEnds DEF Interrupted, Fault
  <2> QED
    BY <1>3, <2>1, <2>a, <2>2, <2>3, <2>4, <2>5, <2>6, <2>7, <2>8, <2>9, <2>10, <2>11, <2>12
    DEF Reflect
<1> QED
    BY <1>1, <1>2, <1>3 DEF Next

LEMMA ToldStays ==
    ASSUME ReflectionInv, Next, NEW x \in md
    PROVE  Told(x)' = Told(x)
BY TextsStay DEF Told

\* What a run that is on disk tells of an entry that is on disk, it goes on to tell.
LEMMA TellingStays ==
    ASSUME ReflectionInv, Next, NEW x \in md, NEW r \in Runs, r \in md,
           Told(x) \subseteq run[r].tells
    PROVE  r \in md' /\ Told(x)' \subseteq run'[r].tells
BY TextsStay, ToldStays

--------------------------------------------------------------------------------
(* Where narratives and their traces are. *)

LEMMA PlacedStays == ASSUME ReflectionInv, Next PROVE Placed'
<1> USE DEF files, index, cluster
<1>0. Placed /\ TypeOK /\ md \subseteq md'
    BY TextsStay DEF ReflectionInv
<1>1. CASE Converse
  <2>1. run' = run /\ md' \cap Runs = md \cap Runs
    BY <1>0, <1>1, ReflectionAssumption
    DEF Converse, WriteEpisode, ReadCluster, JoinCluster, JoinAndFail, ExtractFacts,
        FindNoFacts, FactsFail, Fault, TypeOK, Entries
  <2> QED
    BY <1>0, <2>1 DEF Placed
<1>2. CASE Cascade
    BY <1>0, <1>2 DEF Cascade, ReadLog, IndexLog, Rebuild, Fault, Placed
<1>3. ASSUME NEW r \in Runs, Reflect(r) PROVE Placed'
  <2>0. /\ run[r].pc \in {"none", "load", "merge"} => r \notin md
        /\ run[r].pc \in Written => r \in md
        /\ run[r].snap \subseteq md
    BY <1>0 DEF Placed
  \* Enough about the run that takes the step.
  <2>a. ASSUME run' \in [Runs -> RunType], \A q \in Runs : q # r => run'[q] = run[q],
               md' \subseteq md \cup {r}, run'[r].pc \in {"none", "load", "merge"} => r \notin md',
               run'[r].pc \in Written => r \in md', run'[r].snap \subseteq md'
        PROVE  Placed'
    BY <1>0, <2>a DEF Placed
  <2>1. CASE Select(r)
    <3>1. md' = md /\ r \notin md
        BY <2>0, <2>1 DEF Select, At
    <3>2. "load" \notin Written
        BY DEF Written, Locked
    <3> QED
        BY <2>0, <2>1, <2>a, <3>1, <3>2, RunSelects
  <2>d. CASE Load(r)
    <3>1. md' = md /\ members \subseteq md /\ r \notin md
        BY <1>0, <2>0, <2>d DEF Load, At, TypeOK
    <3>2. "merge" \notin Written
        BY DEF Written, Locked
    <3> QED
        BY <2>d, <2>a, <3>1, <3>2, RunLoads
  <2>2. CASE Merge(r)
    BY <1>0, <2>0, <2>2, <2>a, RunMerges DEF Merge
  <2>b. CASE Skip(r) \/ Timeout(r) \/ UpdateMetadata(r) \/ Interrupted(r)
    <3>1. /\ run' \in [Runs -> RunType] /\ \A q \in Runs : q # r => run'[q] = run[q]
          /\ run'[r].pc = "done" /\ run'[r].snap = {}
        BY <2>b, RunEnds DEF Skip, Timeout, UpdateMetadata, Interrupted
    <3>2. md' = md
        BY <2>b DEF Skip, Timeout, UpdateMetadata, Interrupted
    <3> QED
        BY <2>a, <3>1, <3>2 DEF Written, Locked
  <2>5. CASE Resolve(r)
    <3>1. md' = md /\ r \in md
        BY <2>0, <2>5 DEF Resolve, At, Written
    <3>2. CASE Todo(r) = {}
        BY <2>5, <2>a, <3>1, <3>2, RunStops, RunEnds DEF Written, Locked
    <3>3. CASE Todo(r) # {}
        BY <2>5, <2>a, <3>1, <3>3, RunResolves DEF Written, Locked
    <3> QED
        BY <3>2, <3>3
  <2>c. ASSUME NEW pc \in Locked, Goto(r, pc), run[r].pc \in Locked, md' = md PROVE Placed'
    <3>1. /\ run' \in [Runs -> RunType] /\ \A q \in Runs : q # r => run'[q] = run[q]
          /\ run'[r].pc = pc /\ run'[r].snap = run[r].snap
        BY <2>c, RunGoes
    <3>2. pc \notin {"none", "load", "merge"} /\ r \in md
        BY <2>0, <2>c DEF Locked, Written
    <3> QED
        BY <2>0, <2>a, <2>c, <3>1, <3>2
  <2>6. CASE PatchLog(r)
    BY <2>6, <2>c DEF PatchLog, At, Locked
  <2>7. CASE DeprecateRows(r)
    BY <2>7, <2>c DEF DeprecateRows, At, Locked
  <2>8. CASE DeprecateFacts(r)
    BY <2>8, <2>c DEF DeprecateFacts, At, Locked
  <2>9. CASE RemoveMembers(r)
    BY <2>9, <2>c DEF RemoveMembers, At, Locked
  <2>10. CASE AddMember(r)
    BY <2>10, <2>c DEF AddMember, At, Locked
  <2> QED
    BY <1>3, <2>1, <2>d, <2>2, <2>b, <2>5, <2>6, <2>7, <2>8, <2>9, <2>10 DEF Reflect
<1> QED
    BY <1>1, <1>2, <1>3 DEF Next

LEMMA UnseenStays == ASSUME ReflectionInv, Next PROVE Unseen'
<1> USE DEF files, index, cluster
<1>0. TypeOK /\ Unseen /\ md \subseteq md'
    BY TextsStay DEF ReflectionInv
<1>1. CASE Converse
  <2>1. ASSUME NEW e \in Episodes, WriteEpisode(e) PROVE Unseen'
    BY <1>0, <2>1 DEF WriteEpisode, Unseen, TypeOK, Entries
  <2>2. ASSUME NEW e \in Episodes, ReadCluster(e) PROVE Unseen'
    BY <1>0, <2>2 DEF ReadCluster, Unseen
  <2>3. CASE JoinCluster \/ JoinAndFail
    BY <1>0, <2>3 DEF JoinCluster, JoinAndFail, Unseen
  <2>4. ASSUME NEW x \in Entries, ExtractFacts(x) PROVE Unseen'
    BY <1>0, <2>4 DEF ExtractFacts, Unseen, TypeOK
  <2>5. ASSUME NEW x \in Entries, FindNoFacts(x) \/ FactsFail(x) PROVE Unseen'
    BY <1>0, <2>5 DEF FindNoFacts, FactsFail, Unseen, TypeOK
  <2> QED
    BY <1>1, <2>1, <2>2, <2>3, <2>4, <2>5 DEF Converse
<1>2. CASE Cascade
  <2>1. CASE ReadLog
    BY <1>0, <2>1 DEF ReadLog, Unseen
  <2>2. CASE IndexLog
    <3>1. PICK lost \in SUBSET handler.entries : ApplyMarks(lost)
        BY <2>2 DEF IndexLog
    <3>2. handler.entries \subseteq md
        BY <1>0, <2>2 DEF IndexLog, TypeOK
    <3>3. \A x \in Entries \ md : row'[x] = row[x]
        BY <3>1, <3>2 DEF ApplyMarks
    <3> QED
        BY <1>0, <2>2, <3>3 DEF IndexLog, Unseen
  <2>3. CASE Rebuild
    BY <1>0, <2>3 DEF Rebuild, Unseen, TypeOK
  <2> QED
    BY <1>2, <2>1, <2>2, <2>3 DEF Cascade
<1>3. ASSUME NEW r \in Runs, Reflect(r) PROVE Unseen'
  <2>0. run[r].loaded \subseteq md
    BY <1>0 DEF TypeOK
  <2>1. CASE Merge(r)
    <3>1. /\ md' = md \cup {r} /\ fact' = [fact EXCEPT ![r] = "open"]
          /\ mark' = mark /\ row' = row /\ handler' = handler
        BY <2>1 DEF Merge
    <3>2. r \in Entries /\ md \subseteq Entries
        BY <1>0 DEF TypeOK, Entries
    <3>3. \A x \in Entries : fact'[x] = IF x = r THEN "open" ELSE fact[x]
        BY <1>0, <3>1 DEF TypeOK
    <3> QED
        BY <1>0, <3>1, <3>2, <3>3 DEF Unseen
  <2>2. CASE PatchLog(r)
    BY <1>0, <2>0, <2>2 DEF PatchLog, Unseen
  <2>3. CASE DeprecateRows(r)
    BY <1>0, <2>3 DEF DeprecateRows, Unseen
  <2>4. CASE DeprecateFacts(r)
    BY <1>0, <2>4 DEF DeprecateFacts, Unseen, TypeOK
  <2>5. CASE \/ Select(r) \/ Load(r) \/ Skip(r) \/ Timeout(r) \/ Resolve(r)
             \/ RemoveMembers(r) \/ AddMember(r) \/ UpdateMetadata(r) \/ Interrupted(r)
    BY <1>0, <2>5 DEF Select, Load, Skip, Timeout, Resolve, RemoveMembers, AddMember,
                      UpdateMetadata, Interrupted, Unseen
  <2> QED
    BY <1>3, <2>1, <2>2, <2>3, <2>4, <2>5 DEF Reflect
<1> QED
    BY <1>1, <1>2, <1>3 DEF Next

--------------------------------------------------------------------------------
(* What runs tell of. *)

\* A merge tells of everything it has loaded, unless it drops a second narrative.
LEMMA MergeTells ==
    ASSUME NEW loaded \in SUBSET Entries, NEW tells \in SUBSET Episodes,
           MergedText(loaded, tells), \A q, s \in loaded \cap Runs : q = s
    PROVE  \A x \in loaded : Told(x) \subseteq tells
<1>1. CASE loaded \cap Runs = {}
    BY <1>1 DEF MergedText
<1>2. CASE loaded \cap Runs # {}
  <2>1. PICK old \in loaded \cap Runs :
            tells = UNION {Told(x) : x \in {old} \cup (loaded \cap Episodes)}
    BY <1>2 DEF MergedText
  <2>2. \A x \in loaded : x \in {old} \cup (loaded \cap Episodes)
    BY DEF Entries
  <2> QED
    BY <2>1, <2>2
<1> QED
    BY <1>1, <1>2

\* A run changes by its own steps only.
LEMMA OthersStay ==
    ASSUME ReflectionInv, NEW q \in Runs, Reflect(q), NEW r \in Runs, r # q
    PROVE  run'[r] = run[r]
<1>1. CASE Select(q) \/ Load(q)
    BY <1>1, RunSelects, RunLoads
<1>2. CASE Merge(q)
    BY <1>2, RunMerges
<1>3. CASE Skip(q) \/ Timeout(q) \/ UpdateMetadata(q) \/ Interrupted(q)
    BY <1>3, RunEnds DEF Skip, Timeout, UpdateMetadata, Interrupted
<1>4. CASE Resolve(q)
    BY <1>4, RunStops, RunEnds, RunResolves
<1>5. CASE \/ PatchLog(q) \/ DeprecateRows(q) \/ DeprecateFacts(q) \/ RemoveMembers(q)
           \/ AddMember(q)
    BY <1>5, RunGoes
    DEF PatchLog, DeprecateRows, DeprecateFacts, RemoveMembers, AddMember, Locked
<1> QED
    BY <1>1, <1>2, <1>3, <1>4, <1>5 DEF Reflect

LEMMA RunStays ==
    ASSUME ReflectionInv, Next, NEW r \in Runs, ~Reflect(r)
    PROVE  run'[r] = run[r]
<1>1. ASSUME NEW q \in Runs, Reflect(q) PROVE run'[r] = run[r]
    BY <1>1, OthersStay
<1>2. CASE Converse \/ Cascade
    BY <1>2 DEF Converse, WriteEpisode, ReadCluster, JoinCluster, JoinAndFail, ExtractFacts,
                FindNoFacts, FactsFail, Cascade, ReadLog, IndexLog, Rebuild
<1> QED
    BY <1>1, <1>2 DEF Next

LEMMA OnlyResolveLocks ==
    ASSUME ReflectionInv, Next, NEW r \in Runs, run'[r].pc \in Locked
    PROVE  run[r].pc \in Locked \/ Resolve(r)
<1>1. CASE Reflect(r)
  <2>1. CASE Select(r) \/ Load(r) \/ Merge(r)
    BY <2>1, RunSelects, RunLoads, RunMerges DEF Locked
  <2>2. CASE Skip(r) \/ Timeout(r) \/ UpdateMetadata(r) \/ Interrupted(r)
    <3>1. run'[r].pc = "done"
        BY <2>2, RunEnds DEF Skip, Timeout, UpdateMetadata, Interrupted
    <3> QED
        BY <3>1 DEF Locked
  <2>3. CASE \/ PatchLog(r) \/ DeprecateRows(r) \/ DeprecateFacts(r) \/ RemoveMembers(r)
             \/ AddMember(r)
    BY <2>3
    DEF PatchLog, DeprecateRows, DeprecateFacts, RemoveMembers, AddMember, At, Locked
  <2> QED
    BY <1>1, <2>1, <2>2, <2>3 DEF Reflect
<1>2. CASE ~Reflect(r)
    BY <1>2, RunStays
<1> QED
    BY <1>1, <1>2

LEMMA RunsTellStays == ASSUME ReflectionInv, Next PROVE RunsTell'
<1> USE DEF files, index, cluster
<1>1. SUFFICES ASSUME Without({"lag", "dropped"})',
                      NEW r \in Runs
               PROVE  /\ run'[r].pc \in Written
                           => \A x \in run'[r].loaded : Told(x)' \subseteq run'[r].tells
                      /\ run'[r].pc = "wait" => run'[r].snap = run'[r].loaded
                      /\ run'[r].pc \in Locked => run'[r].todo = run'[r].loaded
    BY DEF RunsTell
<1>2. Without({"lag", "dropped"})
    BY <1>1, TextsStay DEF Without
<1>3. /\ run[r].pc \in Written => \A x \in run[r].loaded : Told(x) \subseteq run[r].tells
      /\ run[r].pc = "wait" => run[r].snap = run[r].loaded
      /\ run[r].pc \in Locked => run[r].todo = run[r].loaded
      /\ run[r].pc \in Written => r \in md
      /\ run[r].loaded \subseteq md
    BY <1>2 DEF ReflectionInv, RunsTell, TypeOK, Placed
\* A run goes on with what it has loaded, or with a part of it.
<1>4. ASSUME run[r].pc \in Written, run'[r].loaded \subseteq run[r].loaded
      PROVE  \A x \in run'[r].loaded : Told(x)' \subseteq run'[r].tells
    BY <1>3, <1>4, TellingStays
<1>5. CASE run'[r] = run[r]
    BY <1>3, <1>4, <1>5
<1>6. CASE Reflect(r)
  <2>1. CASE Select(r) \/ Load(r)
    BY <2>1, RunSelects, RunLoads DEF Written, Locked
  <2>2. CASE Merge(r)
    <3>1. /\ run'[r].pc = "wait" /\ run'[r].snap = run[r].snap /\ run'[r].loaded = Loaded(r)
          /\ MergedText(Loaded(r), run'[r].tells) /\ run'[r].tells \in SUBSET Episodes
        BY <2>2, RunMerges DEF RunType
    <3>2. Loaded(r) = run[r].snap /\ \A q, s \in Loaded(r) \cap Runs : q = s
        BY <1>1, <2>2 DEF Merge, Loaded, Without
    <3>3. Loaded(r) \subseteq md /\ Loaded(r) \in SUBSET Entries
        BY DEF Loaded, ReflectionInv, Placed, TypeOK
    <3>4. \A x \in Loaded(r) : Told(x) \subseteq run'[r].tells
        BY <3>1, <3>2, <3>3, MergeTells
    <3>5. \A x \in Loaded(r) : Told(x)' \subseteq run'[r].tells
        BY <3>3, <3>4, ToldStays
    <3> QED
        BY <3>1, <3>2, <3>5 DEF Locked
  <2>3. CASE Skip(r) \/ Timeout(r) \/ UpdateMetadata(r) \/ Interrupted(r)
    <3>1. run'[r].pc = "done"
        BY <2>3, RunEnds DEF Skip, Timeout, UpdateMetadata, Interrupted
    <3> QED
        BY <3>1 DEF Written, Locked
  <2>4. CASE Resolve(r)
    <3>1. CASE Todo(r) = {}
        BY <2>4, <3>1, RunStops, RunEnds DEF Written, Locked
    <3>2. CASE Todo(r) # {}
      <4>1. run[r].pc = "wait" /\ run[r].pc \in Written
        BY <2>4 DEF Resolve, At, Written
      <4>2. /\ run'[r].pc = "patch" /\ run'[r].loaded = run[r].loaded \cap Todo(r)
            /\ run'[r].todo = Todo(r)
        BY <2>4, <3>2, RunResolves
      <4>3. Todo(r) \subseteq run[r].loaded
        BY <1>3, <4>1 DEF Todo
      <4>4. run'[r].todo = run'[r].loaded
        BY <4>2, <4>3
      <4> QED
        BY <1>4, <4>1, <4>2, <4>4
    <3> QED
        BY <3>1, <3>2
  <2>c. ASSUME NEW pc \in Locked, Goto(r, pc), run[r].pc \in Locked
        PROVE  /\ run'[r].pc = pc /\ run'[r].loaded = run[r].loaded
               /\ run'[r].todo = run[r].loaded
               /\ \A x \in run'[r].loaded : Told(x)' \subseteq run'[r].tells
    BY <1>3, <1>4, <2>c, RunGoes DEF Written
  <2>d. "wait" \notin Locked
    BY DEF Locked
  <2>6. CASE PatchLog(r)
    BY <2>6, <2>c, <2>d DEF PatchLog, At, Locked
  <2>7. CASE DeprecateRows(r)
    BY <2>7, <2>c, <2>d DEF DeprecateRows, At, Locked
  <2>8. CASE DeprecateFacts(r)
    BY <2>8, <2>c, <2>d DEF DeprecateFacts, At, Locked
  <2>9. CASE RemoveMembers(r)
    BY <2>9, <2>c, <2>d DEF RemoveMembers, At, Locked
  <2>10. CASE AddMember(r)
    BY <2>10, <2>c, <2>d DEF AddMember, At, Locked
  <2> QED
    BY <1>6, <2>1, <2>2, <2>3, <2>4, <2>6, <2>7, <2>8, <2>9, <2>10 DEF Reflect
<1>7. CASE ~Reflect(r)
    BY <1>5, <1>7, RunStays
<1> QED
    BY <1>6, <1>7

LEMMA HandlerTellsStays == ASSUME ReflectionInv, Next PROVE HandlerTells'
<1> USE DEF files, index, cluster
<1>1. SUFFICES ASSUME Without({"lag", "dropped"})', handler' # None,
                      NEW x \in Entries, NEW r \in Runs, handler'.marks[x] = r
               PROVE  r \in md' /\ Told(x)' \subseteq run'[r].tells
    BY DEF HandlerTells
<1>2. Without({"lag", "dropped"})
    BY <1>1, TextsStay DEF Without
<1>3. r # None
    BY ReflectionAssumption
<1>4. CASE handler' = handler
  <2>1. x \in md /\ r \in md /\ Told(x) \subseteq run[r].tells
    BY <1>1, <1>2, <1>3, <1>4 DEF ReflectionInv, HandlerTells, Unseen
  <2> QED
    BY <2>1, TellingStays
<1>5. CASE ReadLog
  <2>1. mark[x] = r
    BY <1>1, <1>5 DEF ReadLog
  <2>2. x \in md /\ r \in md /\ Told(x) \subseteq run[r].tells
    BY <1>2, <1>3, <2>1 DEF ReflectionInv, NothingForgotten, Unseen
  <2> QED
    BY <2>2, TellingStays
<1>6. CASE IndexLog
    BY <1>1, <1>6 DEF IndexLog
<1>7. CASE Converse \/ Rebuild \/ \E q \in Runs : Reflect(q)
    BY <1>4, <1>7
    DEF Converse, WriteEpisode, ReadCluster, JoinCluster, JoinAndFail, ExtractFacts,
        FindNoFacts, FactsFail, Rebuild, Reflect, Select, Load, Merge, Skip, Timeout, Resolve,
        PatchLog, DeprecateRows, DeprecateFacts, RemoveMembers, AddMember, UpdateMetadata,
        Interrupted
<1> QED
    BY <1>4, <1>5, <1>6, <1>7 DEF Next, Cascade

LEMMA NothingForgottenStays == ASSUME ReflectionInv, Next PROVE NothingForgotten'
<1> USE DEF files, index, cluster
<1>1. SUFFICES ASSUME Without({"lag", "dropped"})',
                      NEW x \in Entries, NEW r \in Runs, r \in {mark'[x], row'[x]}
               PROVE  r \in md' /\ Told(x)' \subseteq run'[r].tells
    BY DEF NothingForgotten
<1>2. Without({"lag", "dropped"})
    BY <1>1, TextsStay DEF Without
<1>3. r # None /\ r # Live /\ TypeOK /\ Placed
    BY ReflectionAssumption DEF ReflectionInv
\* It was told before this step.
<1>4. ASSUME r \in {mark[x], row[x]} PROVE r \in md' /\ Told(x)' \subseteq run'[r].tells
  <2>1. x \in md /\ r \in md /\ Told(x) \subseteq run[r].tells
    BY <1>2, <1>3, <1>4 DEF ReflectionInv, NothingForgotten, Unseen
  <2> QED
    BY <2>1, TellingStays
\* This step deprecates it.
<1>5. ASSUME run[r].pc \in Locked, x \in run[r].todo
      PROVE  r \in md' /\ Told(x)' \subseteq run'[r].tells
  <2>1. x \in run[r].loaded /\ run[r].pc \in Written
    BY <1>2, <1>5 DEF ReflectionInv, RunsTell, Written
  <2>2. x \in md /\ r \in md /\ Told(x) \subseteq run[r].tells
    BY <1>2, <1>3, <2>1 DEF ReflectionInv, RunsTell, TypeOK, Placed
  <2> QED
    BY <2>2, TellingStays
<1>6. CASE mark' = mark /\ row' = row
    BY <1>1, <1>4, <1>6
<1>7. CASE IndexLog
  <2>1. CASE r \in {mark[x], row[x]}
    BY <1>4, <2>1
  <2>2. CASE r \notin {mark[x], row[x]}
    <3>1. handler # None /\ handler.marks[x] = r
        BY <1>1, <1>3, <1>7, <2>2 DEF IndexLog, ApplyMarks
    <3>2. x \in md /\ r \in md /\ Told(x) \subseteq run[r].tells
        BY <1>2, <1>3, <3>1 DEF ReflectionInv, HandlerTells, Unseen
    <3> QED
        BY <3>2, TellingStays
  <2> QED
    BY <2>1, <2>2
<1>8. CASE Rebuild
    BY <1>1, <1>3, <1>4, <1>8 DEF Rebuild
<1>9. ASSUME NEW q \in Runs, PatchLog(q) PROVE r \in md' /\ Told(x)' \subseteq run'[r].tells
  <2>1. run[q].pc \in Locked /\ run[q].loaded \subseteq run[q].todo
    BY <1>3, <1>9 DEF PatchLog, At, Locked, TypeOK
  <2>2. r \in {mark[x], row[x]} \/ (r = q /\ x \in run[q].loaded)
    BY <1>1, <1>9 DEF PatchLog
  <2> QED
    BY <1>4, <1>5, <2>1, <2>2
<1>10. ASSUME NEW q \in Runs, DeprecateRows(q)
       PROVE  r \in md' /\ Told(x)' \subseteq run'[r].tells
  <2>1. run[q].pc \in Locked
    BY <1>10 DEF DeprecateRows, At, Locked
  <2>2. r \in {mark[x], row[x]} \/ (r = q /\ x \in run[q].todo)
    BY <1>1, <1>10 DEF DeprecateRows
  <2> QED
    BY <1>4, <1>5, <2>1, <2>2
<1>11. CASE \/ Converse \/ ReadLog
            \/ \E q \in Runs : \/ Select(q) \/ Load(q) \/ Merge(q) \/ Skip(q) \/ Timeout(q)
                               \/ Resolve(q) \/ DeprecateFacts(q) \/ RemoveMembers(q) \/ AddMember(q)
                               \/ UpdateMetadata(q) \/ Interrupted(q)
    BY <1>6, <1>11
    DEF Converse, WriteEpisode, ReadCluster, JoinCluster, JoinAndFail, ExtractFacts,
        FindNoFacts, FactsFail, ReadLog, Select, Load, Merge, Skip, Timeout, Resolve,
        DeprecateFacts, RemoveMembers, AddMember, UpdateMetadata, Interrupted
<1> QED
    BY <1>7, <1>8, <1>9, <1>10, <1>11 DEF Next, Cascade, Reflect

--------------------------------------------------------------------------------
(* Facts. *)

\* An extraction that is over stays so; the facts of an entry on disk are asked for once.
LEMMA FactsStay ==
    ASSUME ReflectionInv, Next, NEW x \in Entries
    PROVE  /\ fact[x] \in Extracted => fact'[x] \in Extracted
           /\ fact'[x] = "failed" => fact[x] = "failed" \/ "failed" \in mishaps'
<1> USE DEF files, index, cluster, Extracted
<1>0. TypeOK /\ Unseen /\ Placed
    BY DEF ReflectionInv
<1>1. ASSUME NEW e \in Episodes, WriteEpisode(e)
      PROVE  /\ fact[x] \in Extracted => fact'[x] \in Extracted
             /\ fact'[x] = "failed" => fact[x] = "failed" \/ "failed" \in mishaps'
  <2>1. e \notin md /\ fact[e] = "none"
    BY <1>0, <1>1 DEF WriteEpisode, Unseen, Entries
  <2> QED
    BY <1>0, <1>1, <2>1 DEF WriteEpisode, TypeOK
<1>2. ASSUME NEW y \in Entries, ExtractFacts(y) \/ FindNoFacts(y) \/ FactsFail(y)
      PROVE  /\ fact[x] \in Extracted => fact'[x] \in Extracted
             /\ fact'[x] = "failed" => fact[x] = "failed" \/ "failed" \in mishaps'
    BY <1>0, <1>2 DEF ExtractFacts, FindNoFacts, FactsFail, Fault, TypeOK
<1>3. CASE Rebuild
    BY <1>0, <1>3 DEF Rebuild, TypeOK
<1>4. ASSUME NEW r \in Runs, Merge(r)
      PROVE  /\ fact[x] \in Extracted => fact'[x] \in Extracted
             /\ fact'[x] = "failed" => fact[x] = "failed" \/ "failed" \in mishaps'
  <2>1. r \notin md /\ fact[r] = "none"
    BY <1>0, <1>4 DEF Merge, At, Placed, Unseen, Entries
  <2> QED
    BY <1>0, <1>4, <2>1 DEF Merge, TypeOK
<1>5. ASSUME NEW r \in Runs, DeprecateFacts(r)
      PROVE  /\ fact[x] \in Extracted => fact'[x] \in Extracted
             /\ fact'[x] = "failed" => fact[x] = "failed" \/ "failed" \in mishaps'
    BY <1>0, <1>5 DEF DeprecateFacts, TypeOK
<1>6. CASE \/ (\E e \in Episodes : ReadCluster(e)) \/ JoinCluster \/ JoinAndFail \/ ReadLog
           \/ IndexLog
           \/ \E r \in Runs : \/ Select(r) \/ Load(r) \/ Skip(r) \/ Timeout(r) \/ Resolve(r)
                              \/ PatchLog(r) \/ DeprecateRows(r) \/ RemoveMembers(r) \/ AddMember(r)
                              \/ UpdateMetadata(r) \/ Interrupted(r)
    BY <1>6
    DEF ReadCluster, JoinCluster, JoinAndFail, ReadLog, IndexLog, Select, Load, Skip, Timeout,
        Resolve, PatchLog, DeprecateRows, RemoveMembers, AddMember, UpdateMetadata, Interrupted
<1> QED
    BY <1>1, <1>2, <1>3, <1>4, <1>5, <1>6 DEF Next, Converse, Cascade, Reflect

LEMMA FactsThereStays == ASSUME ReflectionInv, Next PROVE FactsThere'
<1> USE DEF files, index, cluster
<1>0. mishaps \subseteq mishaps' /\ FactsThere /\ TypeOK
    BY TextsStay DEF ReflectionInv
<1>1. ASSUME "failed" \notin mishaps', NEW x \in Entries PROVE fact'[x] # "failed"
    BY <1>0, <1>1, FactsStay DEF FactsThere
<1>2. ASSUME NEW r \in Runs, run'[r].pc \in Locked PROVE fact'[r] \in Extracted
  <2>1. CASE run[r].pc \in Locked
    BY <1>0, <2>1, FactsStay DEF FactsThere, Entries
  <2>2. CASE Resolve(r)
    <3>1. fact[r] # "open" /\ r \in md
        BY <2>2 DEF Resolve, At, ReflectionInv, Placed, Written
    <3>2. fact'[r] = fact[r]
        BY <2>2 DEF Resolve
    <3>3. fact[r] # "none"
        BY <3>1 DEF ReflectionInv, Unseen
    <3> QED
        BY <1>0, <3>1, <3>2, <3>3 DEF TypeOK, Entries, Extracted
  <2>3. CASE run[r].pc \notin Locked /\ ~Resolve(r)
    BY <1>2, <2>3, OnlyResolveLocks
  <2> QED
    BY <2>1, <2>2, <2>3
<1> QED
    BY <1>1, <1>2 DEF FactsThere

\* Facts become old in no other way.
LEMMA FactsGo ==
    ASSUME ReflectionInv, Next, NEW x \in Entries, fact'[x] = "old"
    PROVE  fact[x] = "old" \/ \E r \in Runs : DeprecateFacts(r) /\ x \in run[r].todo
<1> USE DEF files, index, cluster
<1>0. TypeOK
    BY DEF ReflectionInv
<1>1. CASE Converse
    BY <1>0, <1>1 DEF Converse, WriteEpisode, ReadCluster, JoinCluster, JoinAndFail,
                      ExtractFacts, FindNoFacts, FactsFail, TypeOK
<1>2. CASE Cascade
    BY <1>0, <1>2 DEF Cascade, ReadLog, IndexLog, Rebuild, TypeOK
<1>3. ASSUME NEW r \in Runs, Reflect(r)
      PROVE  fact[x] = "old" \/ (DeprecateFacts(r) /\ x \in run[r].todo)
  <2>1. CASE Merge(r)
    BY <1>0, <2>1 DEF Merge, TypeOK
  <2>2. CASE DeprecateFacts(r)
    BY <1>0, <2>2 DEF DeprecateFacts, TypeOK
  <2>3. CASE \/ Select(r) \/ Load(r) \/ Skip(r) \/ Timeout(r) \/ Resolve(r)
             \/ PatchLog(r) \/ DeprecateRows(r) \/ RemoveMembers(r) \/ AddMember(r) \/ UpdateMetadata(r)
             \/ Interrupted(r)
    BY <2>3 DEF Select, Load, Skip, Timeout, Resolve, PatchLog, DeprecateRows, RemoveMembers,
                AddMember, UpdateMetadata, Interrupted
  <2> QED
    BY <1>3, <2>1, <2>2, <2>3 DEF Reflect
<1> QED
    BY <1>1, <1>2, <1>3 DEF Next

LEMMA FactsReplacedStays == ASSUME ReflectionInv, Next PROVE FactsReplaced'
<1> USE DEF files, index, cluster
<1>0. mishaps \subseteq mishaps' /\ TypeOK /\ Unseen
    BY TextsStay DEF ReflectionInv
<1>1. SUFFICES ASSUME Without({"lag", "dropped"})', NEW x \in Entries, fact'[x] = "old"
               PROVE  \E r \in Runs : /\ fact'[r] \in Extracted
                                      /\ Told(x)' \subseteq run'[r].tells
    BY DEF FactsReplaced
<1>2. Without({"lag", "dropped"})
    BY <1>0, <1>1 DEF Without
<1>3. SUFFICES \E r \in Runs : /\ fact[r] \in Extracted /\ x \in md
                               /\ Told(x) \subseteq run[r].tells
  <2>1. ASSUME NEW r \in Runs, fact[r] \in Extracted, x \in md,
               Told(x) \subseteq run[r].tells
        PROVE  fact'[r] \in Extracted /\ Told(x)' \subseteq run'[r].tells
    <3>1. r \in md /\ r \in Entries
        BY <1>0, <2>1 DEF Unseen, Entries, Extracted
    <3> QED
        BY <2>1, <3>1, FactsStay, TellingStays
  <2> QED
    BY <2>1
<1>4. CASE fact[x] = "old"
    BY <1>0, <1>2, <1>4 DEF ReflectionInv, FactsReplaced, Unseen
<1>5. ASSUME NEW r \in Runs, DeprecateFacts(r), x \in run[r].todo
      PROVE  \E q \in Runs : /\ fact[q] \in Extracted /\ x \in md
                             /\ Told(x) \subseteq run[q].tells
  <2>1. run[r].pc \in Locked /\ run[r].pc \in Written
    BY <1>5 DEF DeprecateFacts, At, Locked, Written
  <2>2. x \in run[r].loaded /\ run[r].loaded \subseteq md
    BY <1>0, <1>2, <1>5, <2>1 DEF ReflectionInv, RunsTell, TypeOK
  <2>3. fact[r] \in Extracted
    BY <2>1 DEF ReflectionInv, FactsThere
  <2>4. Told(x) \subseteq run[r].tells
    BY <1>2, <2>1, <2>2 DEF ReflectionInv, RunsTell
  <2> QED
    BY <2>2, <2>3, <2>4
<1>6. fact[x] = "old" \/ \E r \in Runs : DeprecateFacts(r) /\ x \in run[r].todo
    BY <1>1, FactsGo
<1> QED
    BY <1>4, <1>5, <1>6

--------------------------------------------------------------------------------

LEMMA ReflectionStep == ReflectionInv /\ [Next]_vars => ReflectionInv'
<1> SUFFICES ASSUME ReflectionInv, [Next]_vars PROVE ReflectionInv'
    OBVIOUS
<1>1. CASE Next
  <2>1. TypeOK'
    BY <1>1, ConverseTypes, CascadeTypes, ReflectTypes DEF Next
  <2> QED
    BY <1>1, <2>1, PlacedStays, UnseenStays, RunsTellStays, HandlerTellsStays, FactsThereStays,
       NothingForgottenStays, FactsReplacedStays
    DEF ReflectionInv
<1>2. CASE UNCHANGED vars
  <2>1. TypeOK' /\ Placed' /\ Unseen'
    BY <1>2 DEF vars, files, index, cluster, ReflectionInv, TypeOK, Placed, Unseen
  <2>2. RunsTell' /\ HandlerTells' /\ FactsThere'
    BY <1>2 DEF vars, files, index, cluster, ReflectionInv, RunsTell, HandlerTells, FactsThere,
                Without, Told
  <2>3. NothingForgotten' /\ FactsReplaced'
    BY <1>2 DEF vars, files, index, cluster, ReflectionInv, NothingForgotten, FactsReplaced,
                Without, Told
  <2> QED
    BY <2>1, <2>2, <2>3 DEF ReflectionInv
<1> QED
    BY <1>1, <1>2

THEOREM ReflectionInvariant == Spec => []ReflectionInv
BY ReflectionInit, ReflectionStep, PTL DEF Spec

\* An entry is deprecated, in its file or in the index, only by a narrative that is on disk and
\* tells of all that it told: _execute_deprecation beside clustering, other runs and the cascade.
THEOREM NothingIsForgotten == Spec => []NothingForgotten
<1>1. ReflectionInv => NothingForgotten
    BY DEF ReflectionInv
<1> QED
    BY <1>1, ReflectionInvariant, PTL

\* Facts leave the search only when the extraction of the facts of a narrative that tells the
\* same has come to an end, however it ended: _emit_and_wait_extraction, which does not ask, before
\* _deprecate_lance_facts.
THEOREM FactsAreReplaced == Spec => []FactsReplaced
<1>1. ReflectionInv => FactsReplaced
    BY DEF ReflectionInv
<1> QED
    BY <1>1, ReflectionInvariant, PTL

\* Every part of the model has its type: this is the first conjunct of the invariant.
THEOREM TypeCorrect == Spec => []TypeOK
<1>1. ReflectionInv => TypeOK
    BY DEF ReflectionInv
<1> QED
    BY <1>1, ReflectionInvariant, PTL

--------------------------------------------------------------------------------
(* The four stores at rest: a second invariant, on top of the first. *)

\* The episodes whose clustering is still to come, or at work.
Newcomers == events \cup {e \in Episodes : join # None /\ e = join.episode}

Seen(r) == run[r].snap \cup run[r].loaded \cup run[r].todo

\* Nobody has seen an episode that is on its way to the cluster, unless it is for a second time.
NewcomersUnseen ==
    /\ Newcomers \subseteq Episodes \cap md
    /\ \A r \in Runs : Seen(r) \subseteq md
    /\ IsFiniteSet(members)
    /\ join # None => join.episode \in Episodes \ events /\ IsFiniteSet(join.members)
    /\ "again" \notin mishaps =>
         /\ \A e \in Newcomers : e \notin members /\ mark[e] = None /\ \A r \in Runs : e \notin Seen(r)
         /\ join # None => join.members \cap Newcomers = {}

\* The count is that of the members except between a removal and the end of its run.
CountKept ==
    (/\ Without({"stale", "again", "joined", "interrupted"})
     /\ \A r \in Runs : run[r].pc \notin {"add", "metadata"})
    => count = Cardinality(members)

\* What the cascade has in hand is in the file; when nothing has changed since it read it, it
\* is the file, and when it has also been indexed, every entry has a row, with its mark unless
\* one was lost.
CaughtUp ==
    /\ handler # None => \A x \in Entries : handler.marks[x] # None => mark[x] # None
    /\ ~dirty /\ handler # None => handler.entries = md /\ handler.marks = mark
    /\ ~dirty /\ handler = None =>
         \A x \in md : row[x] # None /\ (mark[x] # None /\ "unmarked" \notin mishaps => row[x] \in Runs)

\* A run deprecates what it has loaded and nothing else.
LoadsAll ==
    "lag" \notin mishaps =>
        \A r \in Runs : /\ run[r].pc = "wait" => run[r].snap = run[r].loaded /\ run[r].loaded # {}
                        /\ run[r].pc \in Locked => run[r].todo = run[r].loaded

\* The facts of an entry go after its row, and a run that has deprecated an entry is still
\* to take out its facts.
FactsFollow ==
    Without({"lag", "failed", "late", "interrupted", "rebuilt"}) =>
        /\ \A r \in Runs :
             /\ run[r].pc \in Written => \A x \in run[r].loaded : row[x] # None
             /\ run[r].pc = "facts" => \A x \in run[r].todo : row[x] \in Runs
        /\ \A x \in Entries :
             /\ fact[x] = "old" => row[x] \in Runs
             /\ (row[x] \in Runs \/ mark[x] # None) =>
                  \/ fact[x] \in {"old", "empty"}
                  \/ \E r \in Runs : run[r].pc \in {"rows", "facts"} /\ x \in run[r].todo

\* Narratives that have yet to replace what they tell of, and the entries that stand for
\* themselves, whatever the index has of them.
Pending == {r \in Runs : run[r].pc \in {"wait", "patch"}}
Standing == {x \in md \ Pending : mark[x] = None}

NoDoubt == Without({"lag", "dropped", "stale", "again", "timeout", "overlap", "interrupted"})

\* One entry stands for every episode.
OneStands ==
    NoDoubt =>
        /\ \A e \in Episodes \cap md : \E x \in Standing : e \in Told(x)
        /\ \A x, y \in Standing : Told(x) \cap Told(y) # {} => x = y
        /\ \A x \in md : Told(x) \subseteq md

\* A pending narrative tells only what its run has loaded; what it is about to replace stands,
\* and once it has replaced it, it stands itself.  All members stand or are about to go.
RunsReplace ==
    NoDoubt =>
        /\ \A r \in Pending : /\ mark[r] = None
                              /\ \A e \in run[r].tells : \E x \in run[r].loaded : e \in Told(x)
        /\ \A r \in Runs :
             /\ run[r].pc = "patch" => run[r].todo \subseteq Standing
             /\ run[r].pc \in {"rows", "facts", "remove", "add"} => r \in Standing
             /\ run[r].pc = "rows" => \A x \in run[r].todo : mark[x] # None
        /\ \A x \in members :
             \/ x \in Standing
             \/ \E r \in Runs : run[r].pc \in {"rows", "facts", "remove"} /\ x \in run[r].todo
        /\ \A x \in Entries : row[x] \in Runs => mark[x] # None

ReplacementInv ==
    /\ NewcomersUnseen /\ CountKept /\ CaughtUp /\ LoadsAll /\ FactsFollow
    /\ OneStands /\ RunsReplace

LEMMA ReplacementInit == Init => ReplacementInv
<1> SUFFICES ASSUME Init PROVE ReplacementInv
    OBVIOUS
<1> USE ReflectionAssumption DEF Init, Entries
<1>1. \A r \in Runs : run[r] = NoRun
    OBVIOUS
<1>2. Pending = {} /\ Standing = Settled
    BY <1>1 DEF Pending, Standing, NoRun
<1>3. NewcomersUnseen /\ CountKept
    BY <1>1 DEF NewcomersUnseen, Newcomers, Seen, CountKept, NoRun
<1>4. CaughtUp /\ LoadsAll /\ FactsFollow
    BY <1>1 DEF CaughtUp, LoadsAll, FactsFollow, NoRun, Written, Locked
<1>5. OneStands /\ RunsReplace
    BY <1>1, <1>2 DEF OneStands, RunsReplace, Told, NoRun
<1> QED
    BY <1>3, <1>4, <1>5 DEF ReplacementInv

--------------------------------------------------------------------------------
(* The cluster and its count. *)

\* A run sees no more than it saw, or the members there are.
LEMMA SeenStays ==
    ASSUME ReflectionInv, Next, NEW r \in Runs
    PROVE  Seen(r)' \subseteq Seen(r) \cup members
<1>1. CASE Select(r) \/ Load(r)
    BY <1>1, RunSelects, RunLoads DEF Seen
<1>2. CASE Merge(r)
    BY <1>2, RunMerges DEF Seen, Loaded
<1>3. CASE Skip(r) \/ Timeout(r) \/ UpdateMetadata(r) \/ Interrupted(r)
    BY <1>3, RunEnds DEF Skip, Timeout, UpdateMetadata, Interrupted, Seen
<1>4. CASE Resolve(r)
  <2>1. CASE Todo(r) = {}
    BY <1>4, <2>1, RunStops, RunEnds DEF Seen
  <2>2. CASE Todo(r) # {}
    BY <1>4, <2>2, RunResolves DEF Seen, Todo
  <2> QED
    BY <2>1, <2>2
<1>5. CASE \/ PatchLog(r) \/ DeprecateRows(r) \/ DeprecateFacts(r) \/ RemoveMembers(r)
           \/ AddMember(r)
    BY <1>5, RunGoes
    DEF PatchLog, DeprecateRows, DeprecateFacts, RemoveMembers, AddMember, Locked, Seen
<1>6. CASE ~Reflect(r)
    BY <1>6, RunStays DEF Seen
<1> QED
    BY <1>1, <1>2, <1>3, <1>4, <1>5, <1>6 DEF Reflect

LEMMA NewcomersStay ==
    ASSUME ReflectionInv, NewcomersUnseen, Next
    PROVE  NewcomersUnseen'
<1> USE DEF files, index, cluster
<1>0. /\ TypeOK /\ Unseen /\ md \subseteq md' /\ md \subseteq Entries
      /\ \A r \in Runs : Seen(r)' \subseteq Seen(r) \cup members
      /\ \A r \in Runs : Seen(r)' \subseteq md'
      /\ "again" \notin mishaps' => "again" \notin mishaps
    BY TextsStay, SeenStays DEF ReflectionInv, TypeOK, NewcomersUnseen
<1>1. ASSUME NEW e \in Episodes, WriteEpisode(e) PROVE NewcomersUnseen'
  <2>1. /\ e \notin md /\ e \in Entries /\ mark[e] = None /\ e \notin members
        /\ join # None => e \notin join.members /\ join.episode # e
    BY <1>0, <1>1 DEF WriteEpisode, Unseen, TypeOK, Entries
  <2>2. \A r \in Runs : e \notin Seen(r)'
    BY <1>0, <2>1 DEF NewcomersUnseen
  <2>3. Newcomers' = Newcomers \cup {e} /\ events' = events \cup {e}
    BY <1>1 DEF WriteEpisode, Newcomers
  <2>4. /\ mark' = mark /\ members' = members /\ join' = join /\ md' = md \cup {e}
        /\ mishaps' = mishaps
    BY <1>1 DEF WriteEpisode
  <2> QED
    BY <1>0, <2>1, <2>2, <2>3, <2>4 DEF NewcomersUnseen
<1>2. ASSUME NEW e \in Episodes, ReadCluster(e) PROVE NewcomersUnseen'
  <2>1. Newcomers' \subseteq Newcomers /\ e \in Newcomers
    BY <1>2 DEF ReadCluster, Newcomers
  <2>2. /\ mark' = mark /\ members' = members /\ md' = md /\ mishaps' = mishaps
        /\ join'.episode = e /\ join'.members = members /\ events' = events \ {e}
    BY <1>2 DEF ReadCluster
  <2>3. "again" \notin mishaps => members \cap Newcomers = {}
    BY DEF NewcomersUnseen
  <2> QED
    BY <1>0, <2>1, <2>2, <2>3 DEF NewcomersUnseen
<1>a. ASSUME Upsert PROVE IsFiniteSet(members') /\ join' = None
  <2>1. IsFiniteSet(members \cup join.members \cup {join.episode})
    BY <1>a, FS_Union, FS_Singleton DEF Upsert, NewcomersUnseen
  <2> QED
    BY <1>a, <2>1 DEF Upsert
<1>3. CASE JoinCluster
  <2>1. /\ Newcomers' = events /\ events \subseteq Newcomers /\ join.episode \notin events
        /\ "again" \notin mishaps => join.members \cap events = {}
    BY <1>3 DEF JoinCluster, Upsert, Newcomers, NewcomersUnseen
  <2>2. /\ mark' = mark /\ md' = md /\ events' = events
        /\ members' = members \cup join.members \cup {join.episode}
    BY <1>3 DEF JoinCluster, Upsert
  <2> QED
    BY <1>0, <1>3, <1>a, <2>1, <2>2 DEF NewcomersUnseen, JoinCluster
<1>b. CASE JoinAndFail
  <2>1. Newcomers' \subseteq Newcomers /\ md' = md
    BY <1>b DEF JoinAndFail, Upsert, Newcomers, NewcomersUnseen
  <2>2. "again" \in mishaps'
    BY <1>b DEF JoinAndFail
  <2> QED
    BY <1>0, <1>b, <1>a, <2>1, <2>2 DEF NewcomersUnseen, JoinAndFail
\* Every other step leaves the newcomers where they are.
<1>4. ASSUME events' = events, join' = join, md \subseteq md', IsFiniteSet(members'),
             members' \subseteq members \cup Runs,
             \A x \in Entries : mark'[x] = mark[x] \/ \E r \in Runs : x \in run[r].loaded
      PROVE  NewcomersUnseen'
  <2>1. Newcomers' = Newcomers
    BY <1>4 DEF Newcomers
  <2>2. ASSUME NEW e \in Newcomers, "again" \notin mishaps'
        PROVE  /\ e \notin members' /\ mark'[e] = None
               /\ \A r \in Runs : e \notin Seen(r)'
    <3>1. e \in Episodes \cap md /\ e \notin members /\ mark[e] = None /\ \A r \in Runs : e \notin Seen(r)
        BY <1>0, <2>2 DEF NewcomersUnseen
    <3>2. e \notin Runs /\ e \in Entries
        BY <3>1, ReflectionAssumption DEF Entries
    <3> QED
        BY <1>0, <1>4, <3>1, <3>2 DEF Seen
  <2> QED
    BY <1>0, <1>4, <2>1, <2>2 DEF NewcomersUnseen
<1>5. IsFiniteSet(members)
    BY DEF NewcomersUnseen
<1>6. ASSUME NEW x \in Entries, ExtractFacts(x) \/ FindNoFacts(x) \/ FactsFail(x) PROVE NewcomersUnseen'
    BY <1>4, <1>5, <1>6 DEF ExtractFacts, FindNoFacts, FactsFail
<1>7. CASE Cascade
    BY <1>0, <1>4, <1>5, <1>7 DEF Cascade, ReadLog, IndexLog, Rebuild
<1>8. ASSUME NEW r \in Runs, Reflect(r) PROVE NewcomersUnseen'
  <2>1. CASE \/ Select(r) \/ Load(r) \/ Merge(r) \/ Skip(r) \/ Timeout(r) \/ Resolve(r)
             \/ DeprecateRows(r)
             \/ DeprecateFacts(r) \/ UpdateMetadata(r) \/ Interrupted(r)
    BY <1>0, <1>4, <1>5, <2>1 DEF Select, Load, Merge, Skip, Timeout, Resolve, DeprecateRows,
                                  DeprecateFacts, UpdateMetadata, Interrupted
  <2>2. CASE PatchLog(r)
    BY <1>0, <1>4, <1>5, <2>2 DEF PatchLog
  <2>3. CASE RemoveMembers(r)
    BY <1>0, <1>4, <1>5, <2>3, FS_Difference DEF RemoveMembers
  <2>4. CASE AddMember(r)
    BY <1>0, <1>4, <1>5, <2>4, FS_AddElement DEF AddMember
  <2> QED
    BY <1>8, <2>1, <2>2, <2>3, <2>4 DEF Reflect
<1> QED
    BY <1>1, <1>2, <1>3, <1>b, <1>6, <1>7, <1>8 DEF Next, Converse

LEMMA CountStays ==
    ASSUME ReflectionInv, NewcomersUnseen, CountKept, Next
    PROVE  CountKept'
<1> USE DEF files, index, cluster
<1>0. SUFFICES ASSUME Without({"stale", "again", "joined", "interrupted"})',
                      \A r \in Runs : run'[r].pc \notin {"add", "metadata"}
               PROVE  count' = Cardinality(members')
    BY DEF CountKept
<1>1. Without({"stale", "again", "joined", "interrupted"}) /\ TypeOK
    BY <1>0, TextsStay DEF Without, ReflectionInv
<1>2. ASSUME run' = run PROVE count = Cardinality(members)
    BY <1>0, <1>1, <1>2 DEF CountKept
<1>3. CASE JoinCluster
  <2>1. members = join.members /\ count = join.count /\ run' = run
    BY <1>0, <1>3 DEF JoinCluster, Stale, Without
  <2>2. join.episode \notin members /\ IsFiniteSet(members)
    BY <1>1, <1>3 DEF JoinCluster, Upsert, NewcomersUnseen, Newcomers, Without
  <2>3. members' = members \cup {join.episode} /\ count' = count + 1
    BY <1>3, <2>1 DEF JoinCluster, Upsert
  <2> QED
    BY <1>2, <2>1, <2>2, <2>3, FS_AddElement
<1>a. CASE JoinAndFail
    BY <1>0, <1>a DEF JoinAndFail, Without
<1>4. CASE \/ \E e \in Episodes : WriteEpisode(e) \/ ReadCluster(e)
           \/ \E x \in Entries : ExtractFacts(x) \/ FindNoFacts(x) \/ FactsFail(x)
           \/ Cascade
    BY <1>2, <1>4 DEF WriteEpisode, ReadCluster, ExtractFacts, FindNoFacts, FactsFail, Cascade,
                      ReadLog, IndexLog, Rebuild
<1>5. ASSUME NEW r \in Runs, Reflect(r) PROVE count' = Cardinality(members')
  <2>1. CASE RemoveMembers(r) \/ AddMember(r)
    <3>1. run'[r].pc \in {"add", "metadata"}
        BY <2>1, RunGoes DEF RemoveMembers, AddMember, Locked
    <3> QED
        BY <1>0, <3>1
  <2>2. CASE UpdateMetadata(r)
    BY <1>0, <2>2, FS_Singleton DEF UpdateMetadata, Mishap, Without
  <2>3. CASE Interrupted(r)
    BY <1>0, <2>3 DEF Interrupted, Fault, Without
  <2>4. CASE \/ Select(r) \/ Load(r) \/ Merge(r) \/ Skip(r) \/ Timeout(r) \/ Resolve(r) \/ PatchLog(r)
             \/ DeprecateRows(r) \/ DeprecateFacts(r)
    <3>1. count' = count /\ members' = members /\ run[r].pc \notin {"add", "metadata"}
        BY <2>4 DEF Select, Load, Merge, Skip, Timeout, Resolve, PatchLog, DeprecateRows,
                    DeprecateFacts, At
    <3>2. \A q \in Runs : run[q].pc \notin {"add", "metadata"}
        BY <1>0, <1>5, <3>1, OthersStay
    <3> QED
        BY <1>1, <3>1, <3>2 DEF CountKept
  <2> QED
    BY <1>5, <2>1, <2>2, <2>3, <2>4 DEF Reflect
<1> QED
    BY <1>3, <1>a, <1>4, <1>5 DEF Next, Converse

--------------------------------------------------------------------------------
(* The cascade and the runs. *)

LEMMA CaughtUpStays ==
    ASSUME ReflectionInv, CaughtUp, Next
    PROVE  CaughtUp'
<1> USE DEF files, index, cluster
<1>0. /\ TypeOK /\ Unseen /\ md \subseteq Entries
      /\ \A r \in Runs : r # None /\ r # Live
      /\ mishaps \subseteq mishaps'
    BY TextsStay, ReflectionAssumption DEF ReflectionInv, TypeOK
<1>1. CASE ReadLog
  <2>1. /\ handler'.marks = mark /\ handler'.entries = md /\ handler' \in Reading
        /\ mark' = mark /\ md' = md
    BY <1>0, <1>1 DEF ReadLog, Reading, TypeOK
  <2> QED
    BY <2>1, NoneAssumption DEF CaughtUp
<1>2. CASE IndexLog
  <2>1. handler # None /\ handler' = None /\ mark' = mark /\ md' = md /\ dirty' = dirty
    BY <1>2 DEF IndexLog
  <2>a. PICK lost \in SUBSET handler.entries :
          ApplyMarks(lost) /\ ("unmarked" \notin mishaps' => lost = {})
    BY <1>2 DEF IndexLog, Fault
  <2>2. \A x \in Entries : handler.marks[x] \in Runs \cup {None}
    BY <1>0, <2>1 DEF TypeOK, Reading
  <2>3. ASSUME ~dirty, NEW x \in md
        PROVE  row'[x] # None /\ (mark[x] # None /\ "unmarked" \notin mishaps' => row'[x] \in Runs)
    <3>1. x \in Entries /\ x \in handler.entries /\ handler.marks[x] = mark[x]
        BY <1>0, <2>1, <2>3 DEF CaughtUp
    <3>2. row'[x] = IF handler.marks[x] # None /\ x \notin lost THEN handler.marks[x]
                    ELSE IF row[x] = None THEN Live ELSE row[x]
        BY <2>a, <3>1 DEF ApplyMarks
    <3> QED
        BY <1>0, <2>a, <2>2, <3>1, <3>2, ReflectionAssumption
  <2> QED
    BY <2>1, <2>3 DEF CaughtUp
<1>3. CASE Rebuild
    BY <1>3 DEF Rebuild, CaughtUp
<1>4. ASSUME NEW r \in Runs, DeprecateRows(r) PROVE CaughtUp'
  <2>1. /\ handler' = handler /\ mark' = mark /\ md' = md /\ dirty' = dirty
        /\ \A x \in Entries : row'[x] = IF x \in run[r].todo /\ row[x] # None THEN r ELSE row[x]
    BY <1>4 DEF DeprecateRows
  <2> QED
    BY <1>0, <2>1 DEF CaughtUp
<1>5. ASSUME NEW r \in Runs, PatchLog(r) PROVE CaughtUp'
  <2>1. /\ handler' = handler /\ row' = row /\ md' = md
        /\ \A x \in Entries : mark'[x] = IF x \in run[r].loaded THEN r ELSE mark[x]
        /\ dirty' \in BOOLEAN /\ (~dirty' => ~dirty /\ run[r].loaded = {})
    BY <1>0, <1>5 DEF PatchLog, TypeOK
  <2>2. ~dirty' => mark' = mark
    <3>1. mark' \in [Entries -> Runs \cup {None}] /\ mark \in [Entries -> Runs \cup {None}]
        BY <1>0, <1>5 DEF PatchLog, TypeOK
    <3> QED
        BY <2>1, <3>1
  <2> QED
    BY <1>0, <2>1, <2>2 DEF CaughtUp
\* Every other step leaves the index alone, and makes the file dirty if it writes it.
<1>6. ASSUME handler' = handler, row' = row, mark' = mark, (dirty' = dirty /\ md' = md) \/ dirty'
      PROVE  CaughtUp'
    BY <1>0, <1>6 DEF CaughtUp
<1>7. CASE Converse
    BY <1>6, <1>7 DEF Converse, WriteEpisode, ReadCluster, JoinCluster, JoinAndFail, ExtractFacts,
        FindNoFacts, FactsFail
<1>8. CASE \E r \in Runs : \/ Select(r) \/ Load(r) \/ Merge(r) \/ Skip(r) \/ Timeout(r) \/ Resolve(r)
                           \/ DeprecateFacts(r) \/ RemoveMembers(r) \/ AddMember(r)
                           \/ UpdateMetadata(r) \/ Interrupted(r)
    BY <1>6, <1>8 DEF Select, Load, Merge, Skip, Timeout, Resolve, DeprecateFacts, RemoveMembers,
                      AddMember, UpdateMetadata, Interrupted
<1> QED
    BY <1>1, <1>2, <1>3, <1>4, <1>5, <1>7, <1>8 DEF Next, Cascade, Reflect

\* A step of a run under the lock changes where it is and nothing else of it.
LEMMA LockedSteps ==
    ASSUME ReflectionInv, NEW r \in Runs,
           \/ PatchLog(r) \/ DeprecateRows(r) \/ DeprecateFacts(r) \/ RemoveMembers(r)
           \/ AddMember(r)
    PROVE  /\ run[r].pc \in Locked /\ run'[r].pc \in Locked
           /\ run'[r].snap = run[r].snap /\ run'[r].loaded = run[r].loaded
           /\ run'[r].todo = run[r].todo /\ run'[r].tells = run[r].tells
           /\ PatchLog(r) => run[r].pc = "patch" /\ run'[r].pc = "rows"
           /\ DeprecateRows(r) => run[r].pc = "rows" /\ run'[r].pc = "facts"
           /\ DeprecateFacts(r) => run[r].pc = "facts" /\ run'[r].pc = "remove"
           /\ RemoveMembers(r) => run[r].pc = "remove" /\ run'[r].pc = "add"
           /\ AddMember(r) => run[r].pc = "add" /\ run'[r].pc = "metadata"
<1>1. CASE PatchLog(r)
    BY <1>1, RunGoes DEF PatchLog, DeprecateRows, DeprecateFacts, RemoveMembers, AddMember, At,
                         Locked
<1>2. CASE DeprecateRows(r)
    BY <1>2, RunGoes DEF PatchLog, DeprecateRows, DeprecateFacts, RemoveMembers, AddMember, At,
                         Locked
<1>3. CASE DeprecateFacts(r)
    BY <1>3, RunGoes DEF PatchLog, DeprecateRows, DeprecateFacts, RemoveMembers, AddMember, At,
                         Locked
<1>4. CASE RemoveMembers(r)
    BY <1>4, RunGoes DEF PatchLog, DeprecateRows, DeprecateFacts, RemoveMembers, AddMember, At,
                         Locked
<1>5. CASE AddMember(r)
    BY <1>5, RunGoes DEF PatchLog, DeprecateRows, DeprecateFacts, RemoveMembers, AddMember, At,
                         Locked
<1> QED
    BY <1>1, <1>2, <1>3, <1>4, <1>5

\* Where a run that has written its narrative comes from.
LEMMA WrittenRuns ==
    ASSUME ReflectionInv, Next, NEW r \in Runs, run'[r].pc \in Written
    PROVE  \/ run'[r] = run[r]
           \/ Merge(r)
           \/ (Resolve(r) /\ Todo(r) # {})
           \/ PatchLog(r) \/ DeprecateRows(r) \/ DeprecateFacts(r) \/ RemoveMembers(r) \/ AddMember(r)
<1>1. CASE Select(r) \/ Load(r)
    BY <1>1, RunSelects, RunLoads DEF Written, Locked
<1>2. CASE Skip(r) \/ Timeout(r) \/ UpdateMetadata(r) \/ Interrupted(r)
  <2>1. run'[r].pc = "done"
    BY <1>2, RunEnds DEF Skip, Timeout, UpdateMetadata, Interrupted
  <2> QED
    BY <2>1 DEF Written, Locked
<1>3. CASE Resolve(r)
  <2>1. Todo(r) = {} => run'[r].pc = "done"
    BY <1>3, RunStops, RunEnds
  <2> QED
    BY <1>3, <2>1 DEF Written, Locked
<1>4. CASE ~Reflect(r)
    BY <1>4, RunStays
<1> QED
    BY <1>1, <1>2, <1>3, <1>4 DEF Reflect

LEMMA LoadsAllStays ==
    ASSUME ReflectionInv, LoadsAll, Next
    PROVE  LoadsAll'
<1>0. SUFFICES ASSUME "lag" \notin mishaps', NEW r \in Runs, run'[r].pc \in Written
               PROVE  /\ run'[r].pc = "wait" => run'[r].snap = run'[r].loaded /\ run'[r].loaded # {}
                      /\ run'[r].pc \in Locked => run'[r].todo = run'[r].loaded
    BY DEF LoadsAll, Written
<1>1. /\ run[r].pc = "wait" => run[r].snap = run[r].loaded /\ run[r].loaded # {}
      /\ run[r].pc \in Locked => run[r].todo = run[r].loaded
    BY <1>0, TextsStay DEF LoadsAll
<1>2. "wait" \notin Locked /\ "patch" # "wait"
    BY DEF Locked
<1>3. CASE Merge(r)
  <2>1. /\ run'[r].pc = "wait" /\ run'[r].snap = run[r].snap /\ run'[r].loaded = Loaded(r)
    BY <1>3, RunMerges
  <2>2. Loaded(r) # {} /\ Loaded(r) = run[r].snap
    BY <1>0, <1>3 DEF Merge, Loaded
  <2> QED
    BY <1>2, <2>1, <2>2
<1>4. CASE Resolve(r) /\ Todo(r) # {}
  <2>1. /\ run'[r].pc = "patch" /\ run'[r].loaded = run[r].loaded \cap Todo(r)
        /\ run'[r].todo = Todo(r)
    BY <1>4, RunResolves
  <2>2. run[r].snap = run[r].loaded
    BY <1>1, <1>4 DEF Resolve, At
  <2> QED
    BY <1>2, <2>1, <2>2 DEF Todo
<1>5. CASE \/ PatchLog(r) \/ DeprecateRows(r) \/ DeprecateFacts(r) \/ RemoveMembers(r)
           \/ AddMember(r)
    BY <1>1, <1>2, <1>5, LockedSteps
<1> QED
    BY <1>0, <1>1, <1>3, <1>4, <1>5, WrittenRuns

--------------------------------------------------------------------------------
(* Facts follow rows. *)

\* Rows stay, and stay deprecated, unless the index is made again.
LEMMA RowsStay ==
    ASSUME ReflectionInv, Next, "rebuilt" \notin mishaps', NEW x \in Entries
    PROVE  /\ row[x] # None => row'[x] # None
           /\ row[x] \in Runs => row'[x] \in Runs
<1> USE DEF files, index, cluster
<1>0. TypeOK /\ \A r \in Runs : r # None /\ r # Live
    BY ReflectionAssumption DEF ReflectionInv
<1>1. CASE IndexLog
  <2>1. handler.marks[x] \in Runs \cup {None}
    BY <1>0, <1>1 DEF IndexLog, TypeOK, Reading
  <2> QED
    BY <1>0, <1>1, <2>1, ReflectionAssumption DEF IndexLog, ApplyMarks
<1>2. CASE Rebuild
    BY <1>2 DEF Rebuild, Fault
<1>3. CASE \E r \in Runs : DeprecateRows(r)
    BY <1>0, <1>3 DEF DeprecateRows
<1>4. CASE row' = row
    BY <1>4
<1> QED
    BY <1>1, <1>2, <1>3, <1>4
    DEF Next, Converse, WriteEpisode, ReadCluster, JoinCluster, JoinAndFail, ExtractFacts,
        FindNoFacts, FactsFail, Cascade, ReadLog, Reflect, Select, Load, Merge, Skip, Timeout,
        Resolve, PatchLog, DeprecateFacts, RemoveMembers, AddMember, UpdateMetadata, Interrupted

\* Facts that are old stay old, unless the index is made again; an entry without facts stays so.
LEMMA OldFactsStay ==
    ASSUME ReflectionInv, Next, "rebuilt" \notin mishaps', NEW x \in Entries,
           fact[x] \in {"old", "empty"}
    PROVE  fact'[x] = fact[x]
<1> USE DEF files, index, cluster
<1>0. TypeOK /\ Unseen /\ Placed
    BY DEF ReflectionInv
<1>1. ASSUME NEW e \in Episodes, WriteEpisode(e) PROVE fact'[x] = fact[x]
  <2>1. fact[e] = "none" /\ e \in Entries
    BY <1>0, <1>1 DEF WriteEpisode, Unseen, Entries
  <2> QED
    BY <1>0, <1>1, <2>1 DEF WriteEpisode, TypeOK
<1>2. ASSUME NEW r \in Runs, Merge(r) PROVE fact'[x] = fact[x]
  <2>1. fact[r] = "none" /\ r \in Entries
    BY <1>0, <1>2 DEF Merge, At, Placed, Unseen, Entries
  <2> QED
    BY <1>0, <1>2, <2>1 DEF Merge, TypeOK
<1>3. ASSUME NEW y \in Entries, ExtractFacts(y) \/ FindNoFacts(y) \/ FactsFail(y)
      PROVE  fact'[x] = fact[x]
    BY <1>0, <1>3 DEF ExtractFacts, FindNoFacts, FactsFail, TypeOK
<1>4. CASE Rebuild
    BY <1>4 DEF Rebuild, Fault
<1>5. CASE \E r \in Runs : DeprecateFacts(r)
    BY <1>5 DEF DeprecateFacts
<1>6. CASE fact' = fact
    BY <1>6
<1> QED
    BY <1>1, <1>2, <1>3, <1>4, <1>5, <1>6
    DEF Next, Converse, ReadCluster, JoinCluster, JoinAndFail, Cascade, ReadLog, IndexLog,
        Reflect, Select, Load, Skip, Timeout, Resolve, PatchLog, DeprecateRows, RemoveMembers,
        AddMember, UpdateMetadata, Interrupted

\* What deprecates an entry, in its file or in the index: a run, or the cascade with what the
\* file says.
LEMMA Deprecates ==
    ASSUME ReflectionInv, CaughtUp, Next, NEW x \in Entries, row'[x] \in Runs \/ mark'[x] # None
    PROVE  \/ row[x] \in Runs \/ mark[x] # None
           \/ \E r \in Runs : PatchLog(r) /\ x \in run[r].loaded
           \/ \E r \in Runs : DeprecateRows(r) /\ x \in run[r].todo
<1> USE DEF files, index, cluster
<1>0. TypeOK /\ Live \notin Runs /\ None \notin Runs
    BY ReflectionAssumption DEF ReflectionInv
<1>1. CASE IndexLog
    BY <1>0, <1>1 DEF IndexLog, ApplyMarks, CaughtUp
<1>2. CASE Rebuild
    BY <1>0, <1>2 DEF Rebuild
<1>3. ASSUME NEW r \in Runs, DeprecateRows(r)
      PROVE  row[x] \in Runs \/ mark[x] # None \/ x \in run[r].todo
    BY <1>3 DEF DeprecateRows
<1>4. ASSUME NEW r \in Runs, PatchLog(r)
      PROVE  row[x] \in Runs \/ mark[x] # None \/ x \in run[r].loaded
    BY <1>4 DEF PatchLog
<1>5. CASE row' = row /\ mark' = mark
    BY <1>5
<1> QED
    BY <1>1, <1>2, <1>3, <1>4, <1>5
    DEF Next, Converse, WriteEpisode, ReadCluster, JoinCluster, JoinAndFail, ExtractFacts,
        FindNoFacts, FactsFail, Cascade, ReadLog, Reflect, Select, Load, Merge, Skip, Timeout,
        Resolve, DeprecateFacts, RemoveMembers, AddMember, UpdateMetadata, Interrupted

LEMMA FactsFollowStays ==
    ASSUME ReflectionInv, NewcomersUnseen, CaughtUp, LoadsAll, FactsFollow, Next
    PROVE  FactsFollow'
<1> USE DEF files, index, cluster
<1>0. SUFFICES ASSUME Without({"lag", "failed", "late", "interrupted", "rebuilt"})'
               PROVE  /\ \A r \in Runs :
                           /\ run'[r].pc \in Written => \A x \in run'[r].loaded : row'[x] # None
                           /\ run'[r].pc = "facts" => \A x \in run'[r].todo : row'[x] \in Runs
                      /\ \A x \in Entries :
                           /\ fact'[x] = "old" => row'[x] \in Runs
                           /\ (row'[x] \in Runs \/ mark'[x] # None) =>
                                \/ fact'[x] \in {"old", "empty"}
                                \/ \E r \in Runs : /\ run'[r].pc \in {"rows", "facts"}
                                                   /\ x \in run'[r].todo
    BY DEF FactsFollow
<1>1. /\ Without({"lag", "failed", "late", "interrupted", "rebuilt"})
      /\ "lag" \notin mishaps /\ "rebuilt" \notin mishaps'
      /\ "failed" \notin mishaps /\ "late" \notin mishaps'
      /\ "interrupted" \notin mishaps'
    BY <1>0, TextsStay DEF Without
<1>2. /\ TypeOK /\ Unseen /\ FactsThere /\ md \subseteq Entries
      /\ \A r \in Runs : run[r].todo \subseteq md /\ run[r].loaded \subseteq md /\ run[r].snap \subseteq md
    BY DEF ReflectionInv, TypeOK, NewcomersUnseen, Seen
<1>a. \A x \in Entries : /\ row[x] # None => row'[x] # None
                         /\ row[x] \in Runs => row'[x] \in Runs
    BY <1>1, RowsStay
<1>3. ASSUME NEW r \in Runs, run'[r].pc \in Written, NEW x \in run'[r].loaded
      PROVE  row'[x] # None
  <2>1. CASE Merge(r)
    <3>1. x \in Loaded(r) /\ x \in Entries
        BY <1>2, <1>3, <2>1, RunMerges DEF Loaded
    <3> QED
        BY <1>a, <3>1 DEF Loaded
  <2>2. CASE run[r].pc \in Written /\ x \in run[r].loaded
    BY <1>1, <1>2, <1>a, <2>2 DEF FactsFollow
  <2>3. CASE run'[r] = run[r]
    BY <1>3, <2>2, <2>3
  <2>4. CASE Resolve(r) /\ Todo(r) # {}
    BY <1>3, <2>2, <2>4, RunResolves DEF Resolve, At, Written
  <2>5. CASE \/ PatchLog(r) \/ DeprecateRows(r) \/ DeprecateFacts(r) \/ RemoveMembers(r)
             \/ AddMember(r)
    BY <1>3, <2>2, <2>5, LockedSteps DEF Written
  <2> QED
    BY <1>3, <2>1, <2>3, <2>4, <2>5, WrittenRuns
<1>4. ASSUME NEW r \in Runs, run'[r].pc = "facts", NEW x \in run'[r].todo
      PROVE  row'[x] \in Runs
  <2>0. run'[r].pc \in Written
    BY <1>4 DEF Written, Locked
  <2>1. CASE run'[r] = run[r]
    BY <1>1, <1>2, <1>4, <1>a, <2>1 DEF FactsFollow
  <2>2. CASE DeprecateRows(r)
    <3>1. x \in run[r].todo /\ run[r].pc \in Locked
        BY <1>4, <2>2, LockedSteps
    <3>2. x \in run[r].loaded /\ run[r].pc \in Written /\ x \in Entries
        BY <1>1, <1>2, <3>1 DEF LoadsAll, Written
    <3>3. row[x] # None
        BY <1>1, <3>2 DEF FactsFollow
    <3> QED
        BY <2>2, <3>1, <3>2, <3>3 DEF DeprecateRows
  <2>3. CASE PatchLog(r) \/ DeprecateFacts(r) \/ RemoveMembers(r) \/ AddMember(r)
    BY <1>4, <2>3, LockedSteps
  <2>4. CASE Merge(r) \/ (Resolve(r) /\ Todo(r) # {})
    BY <1>4, <2>4, RunMerges, RunResolves
  <2> QED
    BY <2>0, <2>1, <2>2, <2>3, <2>4, WrittenRuns
<1>5. ASSUME NEW x \in Entries, fact'[x] = "old" PROVE row'[x] \in Runs
  <2>1. CASE fact[x] = "old"
    BY <1>1, <1>a, <2>1 DEF FactsFollow
  <2>2. ASSUME NEW r \in Runs, DeprecateFacts(r), x \in run[r].todo PROVE row'[x] \in Runs
    <3>1. run[r].pc = "facts"
        BY <2>2, LockedSteps
    <3> QED
        BY <1>1, <1>a, <2>2, <3>1 DEF FactsFollow
  <2> QED
    BY <1>5, <2>1, <2>2, FactsGo
<1>6. ASSUME NEW x \in Entries, row'[x] \in Runs \/ mark'[x] # None
      PROVE  \/ fact'[x] \in {"old", "empty"}
             \/ \E r \in Runs : run'[r].pc \in {"rows", "facts"} /\ x \in run'[r].todo
  <2>1. CASE fact[x] \in {"old", "empty"}
    BY <1>1, <2>1, OldFactsStay
  \* Its run is at work, and goes on to its facts.
  <2>2. ASSUME NEW r \in Runs, run[r].pc \in {"rows", "facts"}, x \in run[r].todo
        PROVE  \/ fact'[x] \in {"old", "empty"}
               \/ run'[r].pc \in {"rows", "facts"} /\ x \in run'[r].todo
    <3>1. CASE ~Reflect(r)
        BY <2>2, <3>1, RunStays
    <3>2. CASE DeprecateRows(r)
        BY <2>2, <3>2, LockedSteps
    <3>3. CASE DeprecateFacts(r)
      <4>1. fact[x] \notin {"open", "failed"} /\ x \in md
        BY <1>1, <1>2, <2>2, <3>3 DEF DeprecateFacts, Mishap
      <4>2. fact[x] \in {"live", "old", "empty"}
        BY <1>2, <4>1 DEF Unseen, TypeOK
      <4> QED
        BY <2>2, <3>3, <4>2 DEF DeprecateFacts
    <3>4. CASE Interrupted(r)
        BY <1>1, <3>4 DEF Interrupted, Fault
    <3>5. CASE \/ Select(r) \/ Load(r) \/ Merge(r) \/ Skip(r) \/ Timeout(r) \/ Resolve(r) \/ PatchLog(r)
               \/ RemoveMembers(r) \/ AddMember(r) \/ UpdateMetadata(r)
        BY <2>2, <3>5 DEF Select, Load, Merge, Skip, Timeout, Resolve, PatchLog, RemoveMembers,
                          AddMember, UpdateMetadata, At
    <3> QED
        BY <3>1, <3>2, <3>3, <3>4, <3>5 DEF Reflect
  <2>3. CASE row[x] \in Runs \/ mark[x] # None
    BY <1>1, <2>1, <2>2, <2>3 DEF FactsFollow
  <2>4. ASSUME NEW r \in Runs, PatchLog(r), x \in run[r].loaded
        PROVE  run'[r].pc \in {"rows", "facts"} /\ x \in run'[r].todo
    BY <1>1, <2>4, LockedSteps DEF LoadsAll
  <2>5. ASSUME NEW r \in Runs, DeprecateRows(r), x \in run[r].todo
        PROVE  run'[r].pc \in {"rows", "facts"} /\ x \in run'[r].todo
    BY <2>5, LockedSteps
  <2> QED
    BY <1>6, <2>3, <2>4, <2>5, Deprecates
<1> QED
    BY <1>3, <1>4, <1>5, <1>6

--------------------------------------------------------------------------------
(* One entry stands for every episode. *)

\* When nothing has been taken from the cluster meanwhile, a run resolves all it has loaded.
LEMMA ResolvesAll ==
    ASSUME ReflectionInv, LoadsAll, Next, NoDoubt', NEW r \in Runs, Resolve(r)
    PROVE  /\ run[r].pc = "wait" /\ run'[r].pc = "patch" /\ Todo(r) # {}
           /\ run'[r].todo = run[r].loaded /\ run'[r].loaded = run[r].loaded
           /\ run'[r].tells = run[r].tells /\ run[r].loaded \subseteq members
<1>1. "lag" \notin mishaps /\ "overlap" \notin mishaps'
    BY TextsStay DEF NoDoubt, Without
<1>2. run[r].snap = run[r].loaded /\ run[r].loaded # {} /\ run[r].pc = "wait"
    BY <1>1 DEF LoadsAll, Resolve, At
<1>3. Todo(r) = run[r].snap
    BY <1>1 DEF Resolve, Mishap, Todo
<1> QED
    BY <1>2, <1>3, RunResolves DEF Todo

\* Who is pending after a step: a merge adds its narrative, and a run that marks its entries
\* is pending no more.
LEMMA PendingSteps ==
    ASSUME ReflectionInv, LoadsAll, Next, NoDoubt'
    PROVE  /\ \A r \in Runs : Merge(r) => Pending' = Pending \cup {r}
           /\ \A r \in Runs : PatchLog(r) => Pending' = Pending \ {r}
           /\ (\A r \in Runs : ~Merge(r) /\ ~PatchLog(r)) => Pending' = Pending
<1>0. "timeout" \notin mishaps' /\ "interrupted" \notin mishaps'
    BY DEF NoDoubt, Without
<1>1. ASSUME NEW q \in Runs, ~Merge(q), ~PatchLog(q)
      PROVE  q \in Pending' <=> q \in Pending
  <2>1. CASE ~Reflect(q)
    BY <2>1, RunStays DEF Pending
  <2>2. CASE Select(q) \/ Load(q)
    BY <2>2, RunSelects, RunLoads DEF Pending, Select, Load, At
  <2>3. CASE Skip(q) \/ UpdateMetadata(q)
    BY <2>3, RunEnds DEF Pending, Skip, UpdateMetadata, At
  <2>4. CASE Timeout(q) \/ Interrupted(q)
    BY <1>0, <2>4 DEF Timeout, Interrupted, Fault
  <2>5. CASE Resolve(q)
    BY <2>5, ResolvesAll DEF Pending
  <2>6. CASE DeprecateRows(q) \/ DeprecateFacts(q) \/ RemoveMembers(q) \/ AddMember(q)
    BY <2>6, LockedSteps DEF Pending
  <2> QED
    BY <1>1, <2>1, <2>2, <2>3, <2>4, <2>5, <2>6 DEF Reflect
<1>2. ASSUME NEW r \in Runs, Merge(r) PROVE Pending' = Pending \cup {r}
  <2>1. run'[r].pc = "wait" /\ \A q \in Runs : q # r => run'[q] = run[q]
    BY <1>2, RunMerges
  <2> QED
    BY <2>1 DEF Pending
<1>3. ASSUME NEW r \in Runs, PatchLog(r) PROVE Pending' = Pending \ {r}
  <2>1. run'[r].pc = "rows" /\ \A q \in Runs : q # r => run'[q] = run[q]
    BY <1>3, LockedSteps, OthersStay DEF Reflect
  <2> QED
    BY <2>1 DEF Pending
<1> QED
    BY <1>1, <1>2, <1>3 DEF Pending

\* What a step makes of those that stand.
LEMMA StandingSteps ==
    ASSUME ReflectionInv, LoadsAll, RunsReplace, Next, NoDoubt', NoDoubt
    PROVE  \/ \E e \in Episodes : WriteEpisode(e) /\ Standing' = Standing \cup {e}
           \/ \E r \in Runs : Merge(r) /\ Standing' = Standing
           \/ \E r \in Runs : PatchLog(r) /\ Standing' = (Standing \ run[r].loaded) \cup {r}
           \/ md' = md /\ mark' = mark /\ Pending' = Pending /\ Standing' = Standing
<1> USE DEF files, index, cluster
<1>0. TypeOK /\ Unseen /\ Placed /\ md \subseteq Entries
    BY DEF ReflectionInv, TypeOK
<1>1. ASSUME NEW e \in Episodes, WriteEpisode(e) PROVE Standing' = Standing \cup {e}
  <2>1. e \notin md /\ mark[e] = None /\ e \notin Runs
    BY <1>0, <1>1, ReflectionAssumption DEF WriteEpisode, Unseen, Entries
  <2>2. md' = md \cup {e} /\ mark' = mark /\ Pending' = Pending /\ Pending \subseteq Runs
    BY <1>1 DEF WriteEpisode, Pending
  <2> QED
    BY <2>1, <2>2 DEF Standing
<1>2. ASSUME NEW r \in Runs, Merge(r) PROVE Standing' = Standing
  <2>1. Pending' = Pending \cup {r} /\ r \notin md
    BY <1>0, <1>2, PendingSteps DEF Merge, At, Placed
  <2>2. md' = md \cup {r} /\ mark' = mark
    BY <1>2 DEF Merge
  <2> QED
    BY <2>1, <2>2 DEF Standing
<1>3. ASSUME NEW r \in Runs, PatchLog(r)
      PROVE  Standing' = (Standing \ run[r].loaded) \cup {r}
  <2>1. Pending' = Pending \ {r} /\ r \in Pending /\ r \in md
    BY <1>0, <1>3, PendingSteps DEF PatchLog, At, Pending, Placed, Written, Locked
  <2>2. "lag" \notin mishaps /\ run[r].pc = "patch" /\ run[r].pc \in Locked
    BY <1>3 DEF NoDoubt, Without, PatchLog, At, Locked
  <2>3. run[r].loaded \subseteq Standing
    BY <2>2 DEF LoadsAll, RunsReplace
  <2>4. mark[r] = None /\ r \notin run[r].loaded
    BY <2>1, <2>3 DEF RunsReplace, Standing
  <2>5. md' = md /\ \A x \in Entries : mark'[x] = IF x \in run[r].loaded THEN r ELSE mark[x]
    BY <1>3 DEF PatchLog
  <2>6. r # None
    BY ReflectionAssumption
  <2> QED
    BY <1>0, <2>1, <2>4, <2>5, <2>6 DEF Standing
<1>4. ASSUME \A e \in Episodes : ~WriteEpisode(e), \A r \in Runs : ~Merge(r) /\ ~PatchLog(r)
      PROVE  md' = md /\ mark' = mark /\ Pending' = Pending /\ Standing' = Standing
  <2>1. md' = md /\ mark' = mark
    BY <1>4
    DEF Next, Converse, ReadCluster, JoinCluster, JoinAndFail, ExtractFacts, FindNoFacts,
        FactsFail, Cascade, ReadLog, IndexLog, Rebuild, Reflect, Select, Load, Skip, Timeout,
        Resolve, DeprecateRows, DeprecateFacts, RemoveMembers, AddMember, UpdateMetadata,
        Interrupted
  <2>2. Pending' = Pending
    BY <1>4, PendingSteps
  <2> QED
    BY <2>1, <2>2 DEF Standing
<1> QED
    BY <1>1, <1>2, <1>3, <1>4

\* A merge that drops nothing tells only of what it has loaded.
LEMMA MergeTellsOnly ==
    ASSUME NEW loaded \in SUBSET Entries, NEW tells, MergedText(loaded, tells)
    PROVE  \A e \in tells : \E x \in loaded : e \in Told(x)
<1>1. CASE loaded \cap Runs = {}
    BY <1>1 DEF MergedText
<1>2. CASE loaded \cap Runs # {}
  <2>1. PICK old \in loaded \cap Runs :
            tells = UNION {Told(x) : x \in {old} \cup (loaded \cap Episodes)}
    BY <1>2 DEF MergedText
  <2> QED
    BY <2>1
<1> QED
    BY <1>1, <1>2

LEMMA OneStandsStays ==
    ASSUME ReflectionInv, LoadsAll, OneStands, RunsReplace, Next
    PROVE  OneStands'
<1> USE DEF files, index, cluster
<1>0. SUFFICES ASSUME NoDoubt'
               PROVE  /\ \A e \in Episodes \cap md' : \E x \in Standing' : e \in Told(x)'
                      /\ \A x, y \in Standing' : Told(x)' \cap Told(y)' # {} => x = y
                      /\ \A x \in md' : Told(x)' \subseteq md'
    BY DEF OneStands
<1>1. NoDoubt /\ "lag" \notin mishaps /\ "dropped" \notin mishaps
    BY <1>0, TextsStay DEF NoDoubt, Without
<1>2. /\ \A e \in Episodes \cap md : \E x \in Standing : e \in Told(x)
      /\ \A x, y \in Standing : Told(x) \cap Told(y) # {} => x = y
      /\ \A x \in md : Told(x) \subseteq md
    BY <1>1 DEF OneStands
<1>3. /\ TypeOK /\ Placed /\ md \subseteq md' /\ md \subseteq Entries /\ Standing \subseteq md
      /\ \A x \in md : Told(x)' = Told(x)
    BY TextsStay, ToldStays DEF ReflectionInv, TypeOK, Standing
<1>4. ASSUME NEW e \in Episodes, WriteEpisode(e), Standing' = Standing \cup {e}
      PROVE  /\ \A d \in Episodes \cap md' : \E x \in Standing' : d \in Told(x)'
             /\ \A x, y \in Standing' : Told(x)' \cap Told(y)' # {} => x = y
             /\ \A x \in md' : Told(x)' \subseteq md'
  <2>1. Told(e)' = {e} /\ e \notin md /\ md' = md \cup {e}
    BY <1>4, ReflectionAssumption DEF WriteEpisode, Told
  <2> QED
    BY <1>2, <1>3, <1>4, <2>1
<1>5. ASSUME NEW r \in Runs, Merge(r), Standing' = Standing
      PROVE  /\ \A d \in Episodes \cap md' : \E x \in Standing' : d \in Told(x)'
             /\ \A x, y \in Standing' : Told(x)' \cap Told(y)' # {} => x = y
             /\ \A x \in md' : Told(x)' \subseteq md'
  <2>1. md' = md \cup {r} /\ Episodes \cap md' = Episodes \cap md
    BY <1>5, ReflectionAssumption DEF Merge
  <2>2. Loaded(r) \subseteq md /\ Loaded(r) \in SUBSET Entries
    BY <1>3 DEF Loaded, Placed
  <2>3. \A d \in run'[r].tells : \E x \in Loaded(r) : d \in Told(x)
    BY <1>5, <2>2, RunMerges, MergeTellsOnly
  <2>4. Told(r)' = run'[r].tells
    BY DEF Told
  <2>5. Told(r)' \subseteq md
    BY <1>2, <2>2, <2>3, <2>4
  <2> QED
    BY <1>2, <1>3, <1>5, <2>1, <2>5
<1>6. ASSUME NEW r \in Runs, PatchLog(r), Standing' = (Standing \ run[r].loaded) \cup {r}
      PROVE  /\ \A d \in Episodes \cap md' : \E x \in Standing' : d \in Told(x)'
             /\ \A x, y \in Standing' : Told(x)' \cap Told(y)' # {} => x = y
             /\ \A x \in md' : Told(x)' \subseteq md'
  <2>1. md' = md /\ r \in md /\ r \in Pending /\ run[r].pc \in Locked /\ run[r].pc \in Written
    BY <1>3, <1>6 DEF PatchLog, At, Pending, Placed, Written, Locked
  <2>2. run[r].loaded \subseteq Standing
    BY <1>1, <1>6, <2>1 DEF LoadsAll, RunsReplace, PatchLog, At
  <2>3. \A e \in Episodes : e \in Told(r) <=> \E x \in run[r].loaded : e \in Told(x)
    <3>1. \A x \in run[r].loaded : Told(x) \subseteq run[r].tells
        BY <1>1, <2>1 DEF ReflectionInv, RunsTell, Without
    <3>2. \A e \in run[r].tells : \E x \in run[r].loaded : e \in Told(x)
        BY <1>1, <2>1 DEF RunsReplace
    <3>3. Told(r) = run[r].tells
        BY DEF Told
    <3> QED
        BY <3>1, <3>2, <3>3
  <2>4. \A x \in md : Told(x) \subseteq Episodes
    BY <1>3 DEF Told, TypeOK, Entries
  <2>5. ASSUME NEW d \in Episodes \cap md PROVE \E x \in Standing' : d \in Told(x)
    BY <1>2, <1>6, <2>3
  <2>6. ASSUME NEW x \in Standing \ run[r].loaded PROVE Told(x) \cap Told(r) = {}
    BY <1>2, <1>3, <2>2, <2>3, <2>4
  <2>7. ASSUME NEW x \in Standing', NEW y \in Standing', Told(x) \cap Told(y) # {} PROVE x = y
    BY <1>2, <1>6, <2>6, <2>7
  <2>8. Standing' \subseteq md
    BY <1>3, <1>6, <2>1
  <2> QED
    BY <1>2, <1>3, <2>1, <2>5, <2>7, <2>8
<1>7. CASE md' = md /\ mark' = mark /\ Pending' = Pending /\ Standing' = Standing
    BY <1>2, <1>3, <1>7
<1> QED
    BY <1>0, <1>1, <1>4, <1>5, <1>6, <1>7, StandingSteps

LEMMA PendingTells ==
    ASSUME ReflectionInv, LoadsAll, RunsReplace, Next, NoDoubt, NoDoubt',
           NEW r \in Runs, r \in Pending'
    PROVE  /\ mark'[r] = None
           /\ \A e \in run'[r].tells : \E x \in run'[r].loaded : e \in Told(x)'
<1> USE DEF files, index, cluster
<1>0. /\ TypeOK /\ Placed /\ Unseen /\ r \in Entries /\ md \subseteq Entries
      /\ \A x \in md : Told(x)' = Told(x)
    BY ToldStays DEF ReflectionInv, TypeOK, Entries
<1>1. CASE Merge(r)
  <2>1. r \notin md /\ mark'[r] = mark[r] /\ mark[r] = None
    BY <1>0, <1>1 DEF Merge, At, Placed, Unseen
  <2>2. Loaded(r) \subseteq md /\ Loaded(r) \in SUBSET Entries
    BY <1>0 DEF Loaded, Placed
  <2>3. \A e \in run'[r].tells : \E x \in Loaded(r) : e \in Told(x)
    BY <1>1, <2>2, RunMerges, MergeTellsOnly
  <2>4. run'[r].loaded = Loaded(r)
    BY <1>1, RunMerges
  <2> QED
    BY <1>0, <2>1, <2>2, <2>3, <2>4
<1>2. CASE ~Merge(r)
  <2>1. r \in Pending /\ ~PatchLog(r)
    <3>1. ~PatchLog(r)
        BY LockedSteps DEF Pending
    <3>2. ASSUME NEW q \in Runs, Merge(q) PROVE r \in Pending
        BY <1>2, <3>2, PendingSteps
    <3>3. ASSUME NEW q \in Runs, PatchLog(q) PROVE r \in Pending
        BY <3>3, PendingSteps
    <3> QED
        BY <3>1, <3>2, <3>3, PendingSteps
  <2>2. run'[r].tells = run[r].tells /\ run'[r].loaded = run[r].loaded
    <3>1. CASE Resolve(r)
        BY <3>1, ResolvesAll
    <3>2. CASE run'[r] = run[r]
        BY <3>2
    <3>3. CASE DeprecateRows(r) \/ DeprecateFacts(r) \/ RemoveMembers(r) \/ AddMember(r)
        BY <3>3, LockedSteps
    <3>4. run'[r].pc \in Written
        BY DEF Pending, Written, Locked
    <3> QED
        BY <1>2, <2>1, <3>1, <3>2, <3>3, <3>4, WrittenRuns
  <2>3. mark[r] = None /\ \A e \in run[r].tells : \E x \in run[r].loaded : e \in Told(x)
    BY <2>1 DEF RunsReplace
  <2>4. mark'[r] = None
    <3>1. ASSUME NEW q \in Runs, PatchLog(q) PROVE mark'[r] = None
      <4>1. run[q].loaded \subseteq Standing
        BY <3>1 DEF NoDoubt, Without, LoadsAll, RunsReplace, PatchLog, At, Locked
      <4>2. r \notin run[q].loaded
        BY <2>1, <4>1 DEF Standing
      <4> QED
        BY <1>0, <2>3, <3>1, <4>2 DEF PatchLog
    <3>2. (\A q \in Runs : ~PatchLog(q)) => mark' = mark
        BY DEF Next, Converse, WriteEpisode, ReadCluster, JoinCluster, JoinAndFail, ExtractFacts,
               FindNoFacts, FactsFail, Cascade, ReadLog, IndexLog, Rebuild, Reflect, Select, Load,
               Merge, Skip, Timeout, Resolve, DeprecateRows, DeprecateFacts, RemoveMembers,
               AddMember, UpdateMetadata, Interrupted
    <3> QED
        BY <2>3, <3>1, <3>2
  <2> QED
    BY <1>0, <2>2, <2>3, <2>4 DEF TypeOK
<1> QED
    BY <1>1, <1>2

\* Under the lock a run deprecates what stands, and then stands in its place.
LEMMA LockedReplace ==
    ASSUME ReflectionInv, LoadsAll, RunsReplace, Next, NoDoubt, NoDoubt', NEW r \in Runs
    PROVE  /\ run'[r].pc = "patch" => run'[r].todo \subseteq Standing'
           /\ run'[r].pc \in {"rows", "facts", "remove", "add"} => r \in Standing'
           /\ run'[r].pc = "rows" => \A x \in run'[r].todo : mark'[x] # None
<1>0. /\ TypeOK /\ Placed /\ md \subseteq Entries /\ "lag" \notin mishaps
      /\ \A q \in Runs : q # None
    BY ReflectionAssumption DEF ReflectionInv, TypeOK, NoDoubt, Without
<1>a. /\ run[r].pc = "patch" => run[r].todo \subseteq Standing
      /\ run[r].pc \in {"rows", "facts", "remove", "add"} => r \in Standing
      /\ run[r].pc = "rows" => \A x \in run[r].todo : mark[x] # None
      /\ run[r].pc \in Locked => run[r].todo = run[r].loaded /\ run[r].todo \subseteq md
    BY <1>0 DEF RunsReplace, LoadsAll, TypeOK
<1>1. CASE PatchLog(r)
  <2>1. /\ run[r].pc = "patch" /\ run'[r].pc = "rows" /\ run'[r].todo = run[r].todo
        /\ run[r].pc \in Locked
    BY <1>1, LockedSteps
  <2>2. r \in Standing'
    <3>1. \A e \in Episodes : ~WriteEpisode(e)
        BY <1>1 DEF PatchLog, WriteEpisode
    <3>2. \A q \in Runs : PatchLog(q) => q = r
        BY <1>0, <1>1, <2>1 DEF PatchLog, At, TypeOK, Locked
    <3>3. \A q \in Runs : ~Merge(q)
        BY <1>1 DEF Merge, PatchLog, At, Placed, ReflectionInv
    <3>4. Pending' # Pending
        BY <1>1, <2>1, PendingSteps DEF Pending
    <3> QED
        BY <3>1, <3>2, <3>3, <3>4, StandingSteps
  <2>3. \A x \in run[r].todo : mark'[x] # None
    BY <1>0, <1>1, <1>a, <2>1 DEF PatchLog
  <2> QED
    BY <2>1, <2>2, <2>3
<1>2. ASSUME ~PatchLog(r), run[r].pc \in Locked PROVE Standing \subseteq Standing'
  <2>1. \A q \in Runs : ~PatchLog(q)
    BY <1>0, <1>2 DEF PatchLog, At, TypeOK, Locked
  <2> QED
    BY <2>1, StandingSteps
<1>3. ASSUME ~PatchLog(r), NEW x \in Entries, run[r].pc \in Locked PROVE mark'[x] = mark[x]
  <2>1. \A q \in Runs : ~PatchLog(q)
    BY <1>0, <1>3 DEF PatchLog, At, TypeOK, Locked
  <2> QED
    BY <2>1
    DEF Next, Converse, WriteEpisode, ReadCluster, JoinCluster, JoinAndFail, ExtractFacts,
        FindNoFacts, FactsFail, Cascade, ReadLog, IndexLog, Rebuild, Reflect, Select, Load, Merge,
        Skip, Timeout, Resolve, DeprecateRows, DeprecateFacts, RemoveMembers, AddMember,
        UpdateMetadata, Interrupted, files, index, cluster
<1>4. CASE run'[r] = run[r] /\ run[r].pc \in Locked
    BY <1>0, <1>a, <1>1, <1>2, <1>3, <1>4
<1>5. CASE Resolve(r) /\ Todo(r) # {}
  <2>1. /\ run'[r].pc = "patch" /\ run'[r].todo = run[r].loaded /\ run[r].loaded \subseteq members
        /\ \A q \in Runs : run[q].pc \notin Locked
    BY <1>5, ResolvesAll DEF Resolve
  <2>2. members \subseteq Standing
    BY <2>1 DEF RunsReplace, Locked
  <2>3. \A q \in Runs : ~PatchLog(q)
    BY <2>1 DEF PatchLog, At, Locked
  <2>4. Standing \subseteq Standing'
    BY <2>3, StandingSteps
  <2> QED
    BY <2>1, <2>2, <2>4
<1>6. CASE DeprecateRows(r) \/ DeprecateFacts(r) \/ RemoveMembers(r) \/ AddMember(r)
  <2>1. run[r].pc \in {"rows", "facts", "remove", "add"} /\ run[r].pc \in Locked /\ ~PatchLog(r)
        /\ run'[r].pc \notin {"patch", "rows"}
    BY <1>6, LockedSteps
  <2> QED
    BY <1>2, <1>a, <2>1
<1>7. CASE Merge(r)
    BY <1>7, RunMerges
<1>8. CASE run'[r].pc \notin Locked
    BY <1>8 DEF Locked
<1>9. CASE run'[r].pc \in Written
    BY <1>1, <1>4, <1>5, <1>6, <1>7, <1>8, <1>9, WrittenRuns
<1> QED
    BY <1>8, <1>9 DEF Written

\* A member stands, or its run is about to take it out.
LEMMA MembersStand ==
    ASSUME ReflectionInv, NewcomersUnseen, LoadsAll, RunsReplace, Next, NoDoubt, NoDoubt',
           NEW x \in members'
    PROVE  \/ x \in Standing'
           \/ \E r \in Runs : run'[r].pc \in {"rows", "facts", "remove"} /\ x \in run'[r].todo
<1> USE DEF files, index, cluster
<1>0. /\ TypeOK /\ Placed /\ "lag" \notin mishaps
      /\ "stale" \notin mishaps' /\ "interrupted" \notin mishaps'
      /\ "again" \notin mishaps /\ "again" \notin mishaps'
    BY DEF ReflectionInv, NoDoubt, Without
\* A step takes from those that stand only what its run is then to take out.
<1>1. ASSUME NEW y \in Standing
      PROVE  \/ y \in Standing'
             \/ \E r \in Runs : run'[r].pc \in {"rows", "facts", "remove"} /\ y \in run'[r].todo
  <2>1. ASSUME NEW r \in Runs, PatchLog(r), y \in run[r].loaded
        PROVE  run'[r].pc \in {"rows", "facts", "remove"} /\ y \in run'[r].todo
    BY <1>0, <2>1, LockedSteps DEF LoadsAll
  <2> QED
    BY <2>1, StandingSteps
\* A run that is to take entries out goes on, until it takes them out.
<1>2. ASSUME NEW r \in Runs, run[r].pc \in {"rows", "facts", "remove"}, ~RemoveMembers(r)
      PROVE  run'[r].pc \in {"rows", "facts", "remove"} /\ run'[r].todo = run[r].todo
  <2>1. CASE ~Reflect(r)
    BY <1>2, <2>1, RunStays
  <2>2. CASE DeprecateRows(r) \/ DeprecateFacts(r)
    BY <2>2, LockedSteps
  <2>3. CASE Interrupted(r)
    BY <1>0, <2>3 DEF Interrupted, Fault
  <2>4. CASE \/ Select(r) \/ Load(r) \/ Merge(r) \/ Skip(r) \/ Timeout(r) \/ Resolve(r) \/ PatchLog(r)
             \/ AddMember(r) \/ UpdateMetadata(r)
    BY <1>2, <2>4 DEF Select, Load, Merge, Skip, Timeout, Resolve, PatchLog, AddMember,
                      UpdateMetadata, At
  <2> QED
    BY <1>2, <2>1, <2>2, <2>3, <2>4 DEF Reflect
<1>3. CASE x \in members
  <2>1. CASE x \in Standing
    BY <1>1, <2>1
  <2>2. ASSUME NEW r \in Runs, run[r].pc \in {"rows", "facts", "remove"}, x \in run[r].todo
        PROVE  run'[r].pc \in {"rows", "facts", "remove"} /\ x \in run'[r].todo
    <3>1. ~RemoveMembers(r)
        BY <2>2 DEF RemoveMembers
    <3> QED
        BY <1>2, <2>2, <3>1
  <2> QED
    BY <1>3, <2>1, <2>2 DEF RunsReplace
<1>4. CASE JoinCluster
  <2>1. x \in members \/ x = join.episode
    BY <1>0, <1>4 DEF JoinCluster, Upsert, Stale
  <2>2. join.episode \in Standing
    BY <1>0, <1>4, ReflectionAssumption
    DEF JoinCluster, Upsert, NewcomersUnseen, Newcomers, Standing, Pending
  <2> QED
    BY <1>1, <1>3, <2>1, <2>2
<1>5. ASSUME NEW r \in Runs, AddMember(r), x = r PROVE x \in Standing'
  <2>1. run[r].pc = "add"
    BY <1>5, LockedSteps
  <2>2. r \in Standing
    BY <2>1 DEF RunsReplace
  <2>3. \A q \in Runs : ~PatchLog(q)
    BY <1>5 DEF AddMember, PatchLog, At, TypeOK, ReflectionInv, Locked
  <2> QED
    BY <1>5, <2>2, <2>3, StandingSteps
<1>a. ~JoinAndFail
    BY <1>0 DEF JoinAndFail
<1>6. x \in members \/ JoinCluster \/ \E r \in Runs : AddMember(r) /\ x = r
    BY <1>a
    DEF Next, Converse, WriteEpisode, ReadCluster, ExtractFacts, FindNoFacts, FactsFail, Cascade,
        ReadLog, IndexLog, Rebuild, Reflect, Select, Load, Merge, Skip, Timeout, Resolve,
        PatchLog, DeprecateRows, DeprecateFacts, RemoveMembers, AddMember, UpdateMetadata,
        Interrupted
<1> QED
    BY <1>3, <1>4, <1>5, <1>6

\* A row is deprecated after its entry has been marked.
LEMMA RowsMarked ==
    ASSUME ReflectionInv, CaughtUp, RunsReplace, Next, NoDoubt,
           NEW x \in Entries, row'[x] \in Runs
    PROVE  mark'[x] # None
<1>1. mark[x] # None => mark'[x] # None
  <2>1. ASSUME NEW r \in Runs, PatchLog(r) PROVE mark[x] # None => mark'[x] # None
    BY <2>1, ReflectionAssumption DEF PatchLog
  <2> QED
    BY <2>1
    DEF Next, Converse, WriteEpisode, ReadCluster, JoinCluster, JoinAndFail, ExtractFacts,
        FindNoFacts, FactsFail, Cascade, ReadLog, IndexLog, Rebuild, Reflect, Select, Load, Merge,
        Skip, Timeout, Resolve, DeprecateRows, DeprecateFacts, RemoveMembers, AddMember,
        UpdateMetadata, Interrupted, files, index, cluster
<1>2. ASSUME NEW r \in Runs, DeprecateRows(r), x \in run[r].todo PROVE mark[x] # None
    BY <1>2 DEF RunsReplace, DeprecateRows, At
<1>3. ASSUME NEW r \in Runs, PatchLog(r), x \in run[r].loaded PROVE mark'[x] # None
    BY <1>3, ReflectionAssumption DEF PatchLog
<1>4. row[x] \in Runs => mark[x] # None
    BY DEF RunsReplace
<1> QED
    BY <1>1, <1>2, <1>3, <1>4, Deprecates

LEMMA RunsReplaceStays ==
    ASSUME ReflectionInv, NewcomersUnseen, CaughtUp, LoadsAll, RunsReplace, Next
    PROVE  RunsReplace'
<1>0. NoDoubt' => NoDoubt
    BY TextsStay DEF NoDoubt, Without
<1>1. Pending' \subseteq Runs
    BY DEF Pending
<1> QED
    BY <1>0, <1>1, PendingTells, LockedReplace, MembersStand, RowsMarked DEF RunsReplace

--------------------------------------------------------------------------------

LEMMA ReplacementStep == ReflectionInv /\ ReplacementInv /\ [Next]_vars => ReplacementInv'
<1> SUFFICES ASSUME ReflectionInv, ReplacementInv, [Next]_vars PROVE ReplacementInv'
    OBVIOUS
<1>1. CASE Next
    BY <1>1, NewcomersStay, CountStays, CaughtUpStays, LoadsAllStays, FactsFollowStays,
       OneStandsStays, RunsReplaceStays
    DEF ReplacementInv
<1>2. CASE UNCHANGED vars
  <2>1. NewcomersUnseen' /\ CountKept' /\ CaughtUp' /\ LoadsAll'
    BY <1>2 DEF vars, files, index, cluster, ReplacementInv, NewcomersUnseen, Newcomers, Seen,
                CountKept, CaughtUp, LoadsAll, Without
  <2>2. FactsFollow'
    BY <1>2 DEF vars, files, index, cluster, ReplacementInv, FactsFollow, Without
  <2>3. Standing' = Standing /\ Pending' = Pending /\ NoDoubt' = NoDoubt
    BY <1>2 DEF vars, files, index, cluster, Standing, Pending, NoDoubt, Without
  <2>4. OneStands' /\ RunsReplace'
    BY <1>2, <2>3 DEF vars, files, index, cluster, ReplacementInv, OneStands, RunsReplace, Told
  <2> QED
    BY <2>1, <2>2, <2>4 DEF ReplacementInv
<1> QED
    BY <1>1, <1>2

THEOREM ReplacementInvariant == Spec => []ReplacementInv
BY ReflectionInvariant, ReplacementInit, ReplacementStep, PTL DEF Spec

\* At rest the count of the cluster is the number of its members, if no clustering run was
\* retried after its write: trigger_profile_clustering beside _resolve_deprecation_targets and
\* the membership swap.
THEOREM CountIsTrue == Spec => []CountIsSize
<1>1. ReplacementInv => CountIsSize
    BY DEF ReplacementInv, CountKept, CountIsSize, AtRest, Without
<1> QED
    BY <1>1, ReplacementInvariant, PTL

\* At rest an entry and its facts are found together or not at all: _deprecate_lance_facts
\* after the rows, the frontmatter and the cascade that reads it.
THEOREM FactsAndRowsAgree == Spec => []FactsAgree
<1>1. ReflectionInv /\ ReplacementInv => FactsAgree
  <2> SUFFICES ASSUME ReflectionInv, ReplacementInv, AtRest,
                      Without({"lag", "failed", "late", "interrupted", "rebuilt"}),
                      NEW x \in md, fact[x] # "empty"
               PROVE  fact[x] = "live" <=> row[x] = Live
    BY DEF FactsAgree
  <2>1. x \in Entries /\ Live \notin Runs
    BY ReflectionAssumption DEF ReflectionInv, TypeOK
  <2>2. fact[x] \in {"live", "old"}
    BY <2>1 DEF ReflectionInv, TypeOK, Unseen, FactsThere, AtRest, Without
  <2>3. row[x] \in Runs \cup {Live}
    BY <2>1 DEF ReflectionInv, ReplacementInv, TypeOK, CaughtUp, AtRest
  <2>4. fact[x] = "old" => row[x] \in Runs
    BY <2>1 DEF ReplacementInv, FactsFollow
  <2>5. \A r \in Runs : run[r].pc \notin {"rows", "facts"}
    BY DEF AtRest
  <2>6. row[x] \in Runs => fact[x] = "old"
    BY <2>1, <2>5 DEF ReplacementInv, FactsFollow
  <2> QED
    BY <2>1, <2>2, <2>3, <2>4, <2>6
<1> QED
    BY <1>1, ReflectionInvariant, ReplacementInvariant, PTL

\* At rest every episode is found exactly once, if no mark was lost: the frontmatter patch, the
\* rows and the membership of one run after the other, beside clustering, the cascade and
\* rebuilds.
THEOREM EveryEpisodeFoundOnce == Spec => []FoundOnce
<1>1. ReflectionInv /\ ReplacementInv => FoundOnce
  <2> SUFFICES ASSUME ReflectionInv, ReplacementInv, AtRest, NoDoubt, "unmarked" \notin mishaps,
                      NEW e \in Episodes \cap md
               PROVE  Cardinality(Tellers(e)) = 1
    BY DEF FoundOnce, NoDoubt, Without
  <2>1. TypeOK /\ Unseen /\ md \subseteq Entries /\ Live # None /\ Live \notin Runs
    BY ReflectionAssumption DEF ReflectionInv, TypeOK
  <2>2. Pending = {}
    BY DEF Pending, AtRest
  <2>3. ASSUME NEW x \in Entries PROVE row[x] = Live <=> x \in Standing
    <3>1. CASE x \in md
      <4>1. row[x] # None /\ (mark[x] # None => row[x] \in Runs)
        BY <3>1 DEF ReplacementInv, CaughtUp, AtRest
      <4>2. row[x] \in Runs => mark[x] # None
        BY DEF ReplacementInv, RunsReplace
      <4>3. row[x] \in Runs \cup {None, Live}
        BY <2>1 DEF TypeOK
      <4> QED
        BY <2>1, <2>2, <3>1, <4>1, <4>2, <4>3 DEF Standing
    <3>2. CASE x \notin md
        BY <2>1, <3>2 DEF Unseen, Standing
    <3> QED
        BY <3>1, <3>2
  <2>4. PICK x \in Standing : e \in Told(x)
    BY DEF ReplacementInv, OneStands
  <2>5. \A y \in Standing : e \in Told(y) => y = x
    BY <2>4 DEF ReplacementInv, OneStands
  <2>6. Tellers(e) = {x}
    BY <2>1, <2>3, <2>4, <2>5 DEF Tellers, Standing
  <2> QED
    BY <2>6, FS_Singleton
<1> QED
    BY <1>1, ReflectionInvariant, ReplacementInvariant, PTL
================================================================================
