----------------------------- MODULE MemorizeProofs -----------------------------
(***************************************************************************)
(* Proofs about Memorize.tla, for every set of messages, senders and       *)
(* calls.  No message whose call was answered is lost; a call that is      *)
(* answered "extracted" has its episodes; an answered flush has carved     *)
(* what was acknowledged before it; and messages are carved twice only     *)
(* after a retry or a call that broke.                                     *)
(***************************************************************************)
EXTENDS Memorize, WellFoundedInduction, TLAPS

--------------------------------------------------------------------------------
(* Cutting a buffer into cells and a tail loses nothing. *)

\* Every nonempty set of natural numbers has a least one: the first cut at or after a
\* message is the cut of its cell.
LEMMA LeastNumber ==
    ASSUME NEW S \in SUBSET Nat, S # {}
    PROVE  \E m \in S : \A n \in S : m <= n
<1>1. \E m \in S : \A n \in S : ~(<<n, m>> \in OpToRel(<, Nat))
  BY NatLessThanWellFounded, WFMin
<1>2. \A a, b \in Nat : a < b => <<a, b>> \in OpToRel(<, Nat)
  BY DEF OpToRel
<1>3. PICK m \in S : \A n \in S : ~(n < m)
  BY <1>1, <1>2
<1> QED BY <1>3

\* What prepare_cells reads is in its cells or in its tail (Cut and Tail of boundary_stage).
LEMMA CellsAndTailCover ==
    ASSUME NEW msgs \in SUBSET Nat, NEW cuts \in SUBSET Nat, NEW i \in msgs
    PROVE  i \in Tail(msgs, cuts) \/ \E m \in cuts : i \in CellUpTo(msgs, cuts, m)
<1> DEFINE after == {j \in cuts : ~(j < i)}
<1>1. CASE after = {}
  BY <1>1 DEF Tail
<1>2. CASE after # {}
  <2>1. PICK m \in after : \A n \in after : m <= n
    BY <1>2, LeastNumber
  <2>2. i <= m
    BY <2>1
  <2>3. \A j \in cuts : j < m => j < i
    BY <2>1
  <2> QED BY <2>1, <2>2, <2>3 DEF CellUpTo
<1> QED BY <1>1, <1>2

--------------------------------------------------------------------------------
(* Type correctness. *)

LEMMA EndedType ==
    ASSUME TypeOK, NEW c \in Calls,
           NEW phase \in {"failed"} \cup Acked \cup {"pipelines"}
    PROVE  Ended(c, phase) \in CallType
<1>1. call[c] \in CallType
  BY DEF TypeOK
<1>2. phase \in {"none", "failed"} \cup Open \cup Acked
  BY DEF Open, Holding, Acked
<1> QED BY <1>1, <1>2 DEF Ended, CallType

LEMMA CutType ==
    ASSUME TypeOK, NEW c \in Calls
    PROVE  Cut(c) \subseteq Memcells
BY DEF Cut, CellUpTo, Memcells, TypeOK, CallType

LEMMA TypeInductive ==
    ASSUME TypeOK, Next
    PROVE  TypeOK'
<1> USE DEF TypeOK
<1>1. ASSUME NEW c \in Calls, NEW k \in Kinds, NEW msgs \in SUBSET Messages, Post(c, k, msgs)
      PROVE  TypeOK'
  <2> DEFINE due == UNION {call[d].msgs : d \in {a \in Sent : In(a, Acked)}}
  <2>1. due \in SUBSET Messages
    BY DEF Sent, CallType
  <2>2. [NoCall EXCEPT !.kind = k, !.msgs = msgs, !.phase = "sent", !.due = due] \in CallType
    BY <2>1 DEF NoCall, CallType, Open
  <2> HIDE DEF due
  <2>3. call' \in [Calls -> CallType]
    BY <1>1, <2>2 DEF Post, due
  <2> QED BY <1>1, <2>3 DEF Post
<1>2. ASSUME NEW c \in Calls, Acquire(c)
      PROVE  TypeOK'
  BY <1>2 DEF Acquire, Goto, CallType, Open, Holding
<1>3. ASSUME NEW c \in Calls, NothingToDo(c)
      PROVE  TypeOK'
  BY <1>3, EndedType DEF NothingToDo, End, Acked
<1>4. ASSUME NEW c \in Calls, ReadBuffer(c)
      PROVE  TypeOK'
  <2>1. Merge(buffer, Fresh(c)) \in SUBSET Messages
    BY DEF Merge, Fresh, CallType
  <2>2. \A read \in SUBSET Messages :
            [call[c] EXCEPT !.phase = "merged", !.read = read] \in CallType
    BY DEF CallType, Open, Holding
  <2>3. call' = [call EXCEPT ![c] =
                     [call[c] EXCEPT !.phase = "merged", !.read = Merge(buffer, Fresh(c))]]
    BY <1>4 DEF ReadBuffer
  <2>4. call' \in [Calls -> CallType]
    BY <2>1, <2>2, <2>3
  <2> QED BY <1>4, <2>4 DEF ReadBuffer
<1>5. ASSUME NEW c \in Calls, Accumulate(c)
      PROVE  TypeOK'
  <2>1. PICK phase \in {"accumulated", "failed"} : End(c, phase)
    BY <1>5 DEF Accumulate
  <2> QED BY <1>5, <2>1, EndedType DEF Accumulate, End, Acked, CallType
<1>6. ASSUME NEW c \in Calls, Detect(c)
      PROVE  TypeOK'
  <2>1. PICK cuts \in SUBSET call[c].read :
            call' = [call EXCEPT ![c] = [@ EXCEPT !.phase = "cut", !.cuts = cuts]]
    BY <1>6 DEF Detect
  <2>2. [call[c] EXCEPT !.phase = "cut", !.cuts = cuts] \in CallType
    <3>1. call[c] \in CallType /\ cuts \in SUBSET Messages
      BY DEF CallType
    <3>2. "cut" \in Open
      BY DEF Open, Holding
    <3> QED BY <3>1, <3>2 DEF CallType
  <2>3. call' = [call EXCEPT ![c] = [call[c] EXCEPT !.phase = "cut", !.cuts = cuts]]
    BY <2>1
  <2>4. call' \in [Calls -> CallType]
    BY <2>2, <2>3
  <2> QED BY <1>6, <2>4 DEF Detect
<1>7. ASSUME NEW c \in Calls, InsertMemcells(c)
      PROVE  TypeOK'
  BY <1>7, CutType DEF InsertMemcells, Goto, CallType, Open, Holding
<1>8. ASSUME NEW c \in Calls, ReplaceByTail(c)
      PROVE  TypeOK'
  BY <1>8, EndedType DEF ReplaceByTail, End, Tail, Tasks, CallType
<1>9. ASSUME NEW c \in Calls, Pipeline(c)
      PROVE  TypeOK'
  <2>1. ASSUME NEW t \in Tasks, EmitStarted(c, t)
        PROVE  TypeOK'
    BY <2>1 DEF EmitStarted, IsFirst, Unstarted, CellsOf
  <2>2. ASSUME NEW t \in Tasks, TaskFails(c, t)
        PROVE  TypeOK'
    BY <2>2, EndedType DEF TaskFails, End
  <2>3. ASSUME NEW s \in Senders, WriteEpisode(c, s)
        PROVE  TypeOK'
    BY <2>3 DEF WriteEpisode, IsFirst, Unwritten, CellsOf, UsersOf
  <2>4. ASSUME NEW x \in CellsOf(c), NEW s \in Senders, EmitExtracted(c, x, s)
        PROVE  TypeOK'
    BY <2>4 DEF EmitExtracted, CellsOf
  <2> QED BY <1>9, <2>1, <2>2, <2>3, <2>4 DEF Pipeline
<1>10. ASSUME NEW c \in Calls, Return(c)
       PROVE  TypeOK'
  BY <1>10, EndedType DEF Return, End, Acked
<1>11. ASSUME NEW c \in Calls, Fail(c)
       PROVE  TypeOK'
  BY <1>11, EndedType DEF Fail, End
<1>12. ASSUME Crash
       PROVE  TypeOK'
  BY <1>12, EndedType DEF Crash
<1> QED
  BY <1>1, <1>2, <1>3, <1>4, <1>5, <1>6, <1>7, <1>8, <1>9, <1>10, <1>11, <1>12
  DEF Next, Boundary

\* Every variable keeps the type of its table, event or task.
THEOREM TypeInvariant == Spec => []TypeOK
<1>1. Init => TypeOK
  BY DEF Init, TypeOK, NoCall, CallType
<1>2. TypeOK /\ UNCHANGED vars => TypeOK'
  BY DEF TypeOK, vars
<1> QED BY <1>1, <1>2, TypeInductive, PTL DEF Spec
--------------------------------------------------------------------------------
(* What has been read is written back or carved. *)

\* The cells of a call and the tail together are what it has read.
LEMMA CarvedAndTail ==
    ASSUME TypeOK, NEW c \in Calls, Cut(c) \subseteq memcells
    PROVE  call[c].read \subseteq Tail(call[c].read, call[c].cuts) \cup Carved
<1> SUFFICES ASSUME NEW i \in call[c].read, i \notin Tail(call[c].read, call[c].cuts)
             PROVE  i \in Carved
  OBVIOUS
<1>1. call[c].read \in SUBSET Nat /\ call[c].cuts \in SUBSET Nat
  BY MessageAssumption DEF TypeOK, CallType
<1>2. PICK m \in call[c].cuts : i \in CellUpTo(call[c].read, call[c].cuts, m)
  BY <1>1, CellsAndTailCover
<1>3. [call |-> c, msgs |-> CellUpTo(call[c].read, call[c].cuts, m)] \in memcells
  BY DEF Cut
<1> QED BY <1>2, <1>3 DEF Carved

\* A step that leaves the tables alone, and moves no call but c, and c to a phase that
\* promises nothing, keeps what the calls have.
LEMMA NothingPromised ==
    ASSUME KeptInv, NEW c \in Calls,
           mode' = mode, buffer' = buffer, memcells' = memcells,
           \A d \in Calls \ {c} : call'[d] = call[d],
           ~In(c, Holding)' \/ In(c, Holding) \/ \A d \in Calls : ~In(d, Holding),
           ~In(c, {"merged", "cut", "inserted", "pipelines"} \cup Acked)'
    PROVE  (OneHolder /\ ReadAll /\ StillThere)'
<1>1. OneHolder'
  BY DEF KeptInv, OneHolder, In
<1>2. ReadAll'
  BY DEF KeptInv, ReadAll, In, Fresh, Cut
<1>3. StillThere'
  BY DEF KeptInv, StillThere, In, Fresh, Carved
<1> QED BY <1>1, <1>2, <1>3

LEMMA KeptInductive ==
    ASSUME KeptInv, Next
    PROVE  KeptInv'
<1> TypeOK /\ OneHolder /\ ReadAll /\ StillThere
  BY DEF KeptInv
<1> TypeOK'
  BY TypeInductive
<1>1. ASSUME NEW c \in Calls, NEW k \in Kinds, NEW msgs \in SUBSET Messages, Post(c, k, msgs)
      PROVE  (OneHolder /\ ReadAll /\ StillThere)'
  <2>1. call'[c].phase = "sent" /\ \A d \in Calls \ {c} : call'[d] = call[d]
    BY <1>1 DEF Post, NoCall, TypeOK
  <2> QED BY <1>1, <2>1, NothingPromised DEF Post, In, Holding, Acked
<1>2. ASSUME NEW c \in Calls, Acquire(c)
      PROVE  (OneHolder /\ ReadAll /\ StillThere)'
  <2>1. call'[c].phase = "reading" /\ \A d \in Calls \ {c} : call'[d] = call[d]
    BY <1>2 DEF Acquire, Goto, TypeOK, CallType
  <2> QED BY <1>2, <2>1, NothingPromised DEF Acquire, In, Holding, Acked
<1>3. ASSUME NEW c \in Calls, NothingToDo(c)
      PROVE  (OneHolder /\ ReadAll /\ StillThere)'
  <2>1. /\ call'[c].phase = "accumulated" /\ call'[c].msgs = call[c].msgs
        /\ \A d \in Calls \ {c} : call'[d] = call[d]
    BY <1>3 DEF NothingToDo, End, Ended, TypeOK, CallType
  <2>2. Fresh(c) = {}
    BY <1>3 DEF NothingToDo, Merge
  <2>3. OneHolder'
    BY <2>1 DEF OneHolder, In, Holding
  <2>4. ReadAll'
    BY <1>3, <2>1 DEF NothingToDo, ReadAll, In, Fresh, Cut
  <2>5. StillThere'
    BY <1>3, <2>1, <2>2 DEF NothingToDo, StillThere, In, Fresh, Carved, Acked
  <2> QED BY <2>3, <2>4, <2>5
<1>4. ASSUME NEW c \in Calls, ReadBuffer(c)
      PROVE  (OneHolder /\ ReadAll /\ StillThere)'
  <2>1. /\ call'[c].phase = "merged" /\ call'[c].msgs = call[c].msgs
        /\ call'[c].read = Merge(buffer, Fresh(c))
        /\ \A d \in Calls \ {c} : call'[d] = call[d]
    BY <1>4 DEF ReadBuffer, TypeOK, CallType
  <2>2. OneHolder'
    BY <1>4, <2>1 DEF ReadBuffer, OneHolder, In, Holding
  <2>3. ReadAll'
    <3>1. UNCHANGED <<buffer, mode, memcells>>
      BY <1>4 DEF ReadBuffer
    <3>2. ~In(c, {"inserted"})' /\ (buffer \cup Fresh(c) \subseteq call[c].read)'
      BY <2>1, <3>1 DEF In, Fresh, Merge
    <3>3. \A d \in Calls \ {c} : Fresh(d)' = Fresh(d) /\ Cut(d)' = Cut(d)
      BY <2>1, <3>1 DEF Fresh, Cut
    <3> QED BY <2>1, <3>1, <3>2, <3>3 DEF ReadAll, In
  <2>4. StillThere'
    <3>1. ~In(c, {"pipelines"} \cup Acked)'
      BY <2>1 DEF In, Acked
    <3>2. UNCHANGED <<buffer, mode, memcells>>
      BY <1>4 DEF ReadBuffer
    <3>3. \A d \in Calls \ {c} : Fresh(d)' = Fresh(d) /\ In(d, {"pipelines"} \cup Acked)' = In(d, {"pipelines"} \cup Acked)
      BY <2>1, <3>2 DEF Fresh, In
    <3> QED BY <3>1, <3>2, <3>3 DEF StillThere, Carved
  <2> QED BY <2>2, <2>3, <2>4
<1>5. ASSUME NEW c \in Calls, Accumulate(c)
      PROVE  (OneHolder /\ ReadAll /\ StillThere)'
  <2>1. /\ call'[c].phase \in {"accumulated", "failed"} /\ call'[c].msgs = call[c].msgs
        /\ \A d \in Calls \ {c} : call'[d] = call[d]
    BY <1>5 DEF Accumulate, End, Ended, TypeOK, CallType
  <2>2. buffer \cup Fresh(c) \subseteq buffer'
    BY <1>5 DEF Accumulate, ReadAll, In
  <2>3. \A d \in Calls \ {c} : ~In(d, Holding)
    BY <1>5 DEF Accumulate, OneHolder, In, Holding
  <2>4. OneHolder'
    BY <2>1 DEF OneHolder, In, Holding
  <2>5. ReadAll'
    BY <2>1, <2>3 DEF ReadAll, In, Holding
  <2>6. StillThere'
    BY <1>5, <2>1, <2>2 DEF Accumulate, StillThere, In, Fresh, Carved, Acked
  <2> QED BY <2>4, <2>5, <2>6
<1>6. ASSUME NEW c \in Calls, Detect(c)
      PROVE  (OneHolder /\ ReadAll /\ StillThere)'
  <2>1. /\ call'[c].phase = "cut" /\ call'[c].msgs = call[c].msgs
        /\ call'[c].read = call[c].read
        /\ \A d \in Calls \ {c} : call'[d] = call[d]
    BY <1>6 DEF Detect, TypeOK, CallType
  <2>2. OneHolder'
    BY <1>6, <2>1 DEF Detect, OneHolder, In, Holding
  <2>3. ReadAll'
    BY <1>6, <2>1 DEF Detect, ReadAll, In, Fresh, Cut
  <2>4. StillThere'
    BY <1>6, <2>1 DEF Detect, StillThere, In, Fresh, Carved, Acked
  <2> QED BY <2>2, <2>3, <2>4
<1>7. ASSUME NEW c \in Calls, InsertMemcells(c)
      PROVE  (OneHolder /\ ReadAll /\ StillThere)'
  <2>1. /\ call'[c].phase = "inserted" /\ call'[c].msgs = call[c].msgs
        /\ call'[c].read = call[c].read /\ call'[c].cuts = call[c].cuts
        /\ \A d \in Calls \ {c} : call'[d] = call[d]
    BY <1>7 DEF InsertMemcells, Goto, TypeOK, CallType
  <2>2. OneHolder'
    BY <1>7, <2>1 DEF InsertMemcells, OneHolder, In, Holding
  <2>3. ReadAll'
    BY <1>7, <2>1 DEF InsertMemcells, ReadAll, In, Fresh, Cut
  <2>4. StillThere'
    BY <1>7, <2>1 DEF InsertMemcells, StillThere, In, Fresh, Carved, Acked
  <2> QED BY <2>2, <2>3, <2>4
<1>8. ASSUME NEW c \in Calls, ReplaceByTail(c)
      PROVE  (OneHolder /\ ReadAll /\ StillThere)'
  <2>1. /\ call'[c].phase = "pipelines" /\ call'[c].msgs = call[c].msgs
        /\ \A d \in Calls \ {c} : call'[d] = call[d]
    BY <1>8 DEF ReplaceByTail, End, Ended, TypeOK, CallType
  <2>2. buffer \cup Fresh(c) \subseteq buffer' \cup Carved
    BY <1>8, CarvedAndTail DEF ReplaceByTail, ReadAll, In
  <2>3. \A d \in Calls \ {c} : ~In(d, Holding)
    BY <1>8 DEF ReplaceByTail, OneHolder, In, Holding
  <2>4. OneHolder'
    BY <2>1, <2>3 DEF OneHolder, In
  <2>5. ReadAll'
    BY <2>1, <2>3 DEF ReadAll, In, Holding
  <2>6. StillThere'
    BY <1>8, <2>1, <2>2 DEF ReplaceByTail, StillThere, In, Fresh, Carved, Acked
  <2> QED BY <2>4, <2>5, <2>6
<1>9. ASSUME NEW c \in Calls, NEW phase \in {"extracted", "failed"}, End(c, phase),
             phase = "extracted" => In(c, {"pipelines"}),
             UNCHANGED <<mode, buffer, memcells>>
      PROVE  (OneHolder /\ ReadAll /\ StillThere)'
  <2>1. /\ call'[c].phase = phase /\ call'[c].msgs = call[c].msgs
        /\ \A d \in Calls \ {c} : call'[d] = call[d]
    BY <1>9 DEF End, Ended, TypeOK, CallType
  <2>2. OneHolder'
    BY <2>1 DEF OneHolder, In, Holding
  <2>3. ReadAll'
    BY <1>9, <2>1 DEF ReadAll, In, Fresh, Cut
  <2>4. StillThere'
    BY <1>9, <2>1 DEF StillThere, In, Fresh, Carved, Acked
  <2> QED BY <2>2, <2>3, <2>4
<1>10. ASSUME NEW c \in Calls, Pipeline(c)
       PROVE  (OneHolder /\ ReadAll /\ StillThere)'
  <2>1. CASE UNCHANGED <<mode, buffer, memcells, call>>
    BY <2>1 DEF OneHolder, ReadAll, StillThere, In, Fresh, Cut, Carved
  <2>2. CASE End(c, "failed") /\ UNCHANGED <<mode, buffer, memcells>>
    BY <1>9, <2>2
  <2> QED BY <1>10, <2>1, <2>2 DEF Pipeline, EmitStarted, TaskFails, WriteEpisode, EmitExtracted
<1>11. ASSUME NEW c \in Calls, Return(c) \/ Fail(c)
       PROVE  (OneHolder /\ ReadAll /\ StillThere)'
  BY <1>9, <1>11 DEF Return, Fail
<1>12. ASSUME Crash
       PROVE  (OneHolder /\ ReadAll /\ StillThere)'
  <2>1. \A d \in Calls : (call'[d] = call[d] /\ ~In(d, Open)) \/ call'[d].phase = "failed"
    BY <1>12 DEF Crash, Ended, TypeOK, CallType
  <2>2. OneHolder' /\ ReadAll'
    BY <2>1 DEF OneHolder, ReadAll, In, Holding, Open
  <2>3. StillThere'
    BY <1>12, <2>1 DEF Crash, StillThere, In, Fresh, Carved, Acked
  <2> QED BY <2>2, <2>3
<1> QED
  BY <1>1, <1>2, <1>3, <1>4, <1>5, <1>6, <1>7, <1>8, <1>10, <1>11, <1>12
  DEF Next, Boundary, KeptInv

\* One call of a session at a time is past the lock, and what it has read covers the
\* buffer and its own messages until they are written back or carved.
THEOREM KeptInvariant == Spec => []KeptInv
<1>1. Init => KeptInv
  BY DEF Init, KeptInv, TypeOK, NoCall, CallType, OneHolder, ReadAll, StillThere,
         In, Holding, Acked
<1>2. KeptInv /\ UNCHANGED vars => KeptInv'
  BY DEF KeptInv, TypeOK, OneHolder, ReadAll, StillThere, In, Fresh, Cut, Carved, vars
<1> QED BY <1>1, <1>2, KeptInductive, PTL DEF Spec

\* A message whose call was answered stays in the buffer or in a memcell, whatever the
\* calls after it do, fail at, or are cut off from.
THEOREM NothingIsLost == Spec => []NothingLost
<1>1. KeptInv => NothingLost
  BY DEF KeptInv, StillThere, NothingLost, In
<1> QED BY <1>1, KeptInvariant, PTL

--------------------------------------------------------------------------------
(* How a step moves a call. *)

\* Call c goes to a phase, keeps its request, and the other calls stay where they are.
Moves(c, phase) ==
    /\ call'[c].phase = phase
    /\ call'[c].kind = call[c].kind /\ call'[c].msgs = call[c].msgs /\ call'[c].due = call[c].due
    /\ \A d \in Calls \ {c} : call'[d] = call[d]

LEMMA EndMoves ==
    ASSUME TypeOK, NEW c \in Calls, NEW phase, End(c, phase)
    PROVE  Moves(c, phase) /\ call'[c].read = {}
BY DEF End, Ended, Moves, TypeOK, CallType

LEMMA GotoMoves ==
    ASSUME TypeOK, NEW c \in Calls, NEW phase, Goto(c, phase)
    PROVE  Moves(c, phase) /\ call'[c].read = call[c].read /\ call'[c].cuts = call[c].cuts
BY DEF Goto, Moves, TypeOK, CallType

LEMMA PostMoves ==
    ASSUME TypeOK, NEW c \in Calls, NEW k \in Kinds, NEW msgs \in SUBSET Messages, Post(c, k, msgs)
    PROVE  /\ call[c].phase = "none" /\ call'[c].phase = "sent" /\ call'[c].kind = k
           /\ call'[c].due = UNION {call[d].msgs : d \in {a \in Sent : In(a, Acked)}}
           /\ \A d \in Calls \ {c} : call'[d] = call[d]
BY DEF Post, NoCall, TypeOK, Sent, In

LEMMA ReadMoves ==
    ASSUME TypeOK, NEW c \in Calls, ReadBuffer(c)
    PROVE  Moves(c, "merged") /\ call'[c].read = Merge(buffer, Fresh(c))
BY DEF ReadBuffer, Moves, TypeOK, CallType

LEMMA DetectMoves ==
    ASSUME TypeOK, NEW c \in Calls, Detect(c)
    PROVE  /\ Moves(c, "cut") /\ call'[c].read = call[c].read
           /\ call'[c].cuts \in SUBSET Messages
           /\ call[c].kind = "flush" => Tail(call'[c].read, call'[c].cuts) = {}
<1>1. PICK cuts \in SUBSET call[c].read :
          /\ call[c].kind = "flush" => Tail(call[c].read, cuts) = {}
          /\ call' = [call EXCEPT ![c] = [@ EXCEPT !.phase = "cut", !.cuts = cuts]]
  BY DEF Detect
<1>2. call'[c] = [call[c] EXCEPT !.phase = "cut", !.cuts = cuts]
  BY <1>1 DEF TypeOK
<1>3. \A d \in Calls \ {c} : call'[d] = call[d]
  BY <1>1 DEF TypeOK
<1>4. call[c] \in CallType
  BY DEF TypeOK
<1>5. call'[c].phase = "cut" /\ call'[c].cuts = cuts /\ call'[c].read = call[c].read
  BY <1>2, <1>4 DEF CallType
<1>6. call'[c].kind = call[c].kind /\ call'[c].msgs = call[c].msgs /\ call'[c].due = call[c].due
  BY <1>2, <1>4 DEF CallType
<1>7. cuts \in SUBSET Messages
  BY <1>4 DEF CallType
<1> QED BY <1>1, <1>3, <1>5, <1>6, <1>7 DEF Moves

LEMMA CrashMoves ==
    ASSUME TypeOK, Crash, NEW c \in Calls
    PROVE  /\ call'[c].phase = IF In(c, Open) THEN "failed" ELSE call[c].phase
           /\ call'[c].kind = call[c].kind /\ call'[c].msgs = call[c].msgs
           /\ call'[c].due = call[c].due
           /\ ~In(c, Open) => call'[c] = call[c]
BY DEF Crash, Ended, TypeOK, CallType

--------------------------------------------------------------------------------
(* "extracted". *)

\* An event follows its entry; while a call waits for its pipelines, all are at work.
WrittenInv ==
    /\ TypeOK
    /\ extracted \subseteq episodes
    /\ \A c \in Calls : In(c, {"pipelines"}) =>
           "user" \in tasks[c] /\ (mode = "agent" => "agent" \in tasks[c])
    /\ ExtractedMeansWritten

\* A step after which no other call waits for pipelines or is answered than before keeps
\* the invariant, if it forgets no event.
LEMMA NoNewAnswer ==
    ASSUME WrittenInv, TypeOK', mode' = mode, extracted' \subseteq episodes',
           started \subseteq started', episodes \subseteq episodes', extracted \subseteq extracted',
           \A c \in Calls : In(c, {"pipelines"})' => In(c, {"pipelines"}) /\ tasks'[c] = tasks[c],
           \A c \in Calls : In(c, {"extracted"})' => In(c, {"extracted"}) /\ CellsOf(c)' = CellsOf(c)
    PROVE  WrittenInv'
<1>1. ExtractedMeansWritten'
  <2> SUFFICES ASSUME NEW c \in Calls, In(c, {"extracted"}), CellsOf(c)' = CellsOf(c), NEW x \in CellsOf(c)
               PROVE  /\ <<"user", x>> \in started'
                      /\ mode' = "agent" => <<"agent", x>> \in started'
                      /\ {x} \X UsersOf(x) \subseteq episodes' \cap extracted'
    <3>1. \A x : UsersOf(x)' = UsersOf(x)
      BY DEF UsersOf
    <3> QED BY <3>1 DEF ExtractedMeansWritten
  <2> QED BY DEF WrittenInv, ExtractedMeansWritten
<1> QED BY <1>1 DEF WrittenInv

LEMMA WrittenInductive ==
    ASSUME WrittenInv, Next
    PROVE  WrittenInv'
<1> TypeOK /\ TypeOK'
  BY TypeInductive DEF WrittenInv
<1>0. extracted \subseteq episodes
  BY DEF WrittenInv
<1>1. ASSUME NEW c \in Calls, NEW k \in Kinds, NEW msgs \in SUBSET Messages, Post(c, k, msgs)
      PROVE  WrittenInv'
  <2>1. call'[c].phase = "sent" /\ \A d \in Calls \ {c} : call'[d] = call[d]
    BY <1>1, PostMoves
  <2> QED BY <1>0, <1>1, <2>1, NoNewAnswer DEF Post, In, CellsOf
<1>2. ASSUME NEW c \in Calls, Acquire(c) \/ NothingToDo(c) \/ ReadBuffer(c) \/ Accumulate(c) \/ Detect(c)
      PROVE  WrittenInv'
  <2>1. /\ call'[c].phase \in {"reading", "accumulated", "failed", "merged", "cut"}
        /\ \A d \in Calls \ {c} : call'[d] = call[d]
    <3>1. CASE Acquire(c)
      BY <3>1, GotoMoves DEF Acquire, Moves
    <3>2. CASE NothingToDo(c) \/ Accumulate(c)
      BY <3>2, EndMoves DEF NothingToDo, Accumulate, Moves
    <3>3. CASE ReadBuffer(c) \/ Detect(c)
      BY <3>3, ReadMoves, DetectMoves DEF Moves
    <3> QED BY <1>2, <3>1, <3>2, <3>3
  <2>2. UNCHANGED <<mode, memcells, tasks, started, episodes, extracted>>
    BY <1>2 DEF Acquire, NothingToDo, ReadBuffer, Accumulate, Detect
  <2>3. \A d \in Calls : In(d, {"pipelines"})' => In(d, {"pipelines"})
    BY <2>1 DEF In
  <2>4. \A d \in Calls : In(d, {"extracted"})' => In(d, {"extracted"})
    BY <2>1 DEF In
  <2>5. \A d \in Calls : CellsOf(d)' = CellsOf(d)
    BY <2>2 DEF CellsOf
  <2> QED BY <1>0, <2>2, <2>3, <2>4, <2>5, NoNewAnswer
<1>3. ASSUME NEW c \in Calls, InsertMemcells(c)
      PROVE  WrittenInv'
  <2>1. call'[c].phase = "inserted" /\ \A d \in Calls \ {c} : call'[d] = call[d]
    BY <1>3, GotoMoves DEF InsertMemcells, Moves
  <2>2. \A d \in Calls \ {c} : CellsOf(d)' = CellsOf(d)
    BY <1>3 DEF InsertMemcells, CellsOf, Cut
  <2> QED BY <1>0, <1>3, <2>1, <2>2, NoNewAnswer DEF InsertMemcells, In
<1>4. ASSUME NEW c \in Calls, ReplaceByTail(c)
      PROVE  WrittenInv'
  <2>1. call'[c].phase = "pipelines" /\ \A d \in Calls \ {c} : call'[d] = call[d]
    BY <1>4, EndMoves DEF ReplaceByTail, Moves
  <2>2. UNCHANGED <<mode, memcells, started, episodes, extracted>>
    BY <1>4 DEF ReplaceByTail
  <2>3. "user" \in tasks'[c] /\ (mode' = "agent" => "agent" \in tasks'[c])
    BY <1>4 DEF ReplaceByTail, Tasks, TypeOK
  <2>4. \A d \in Calls \ {c} : tasks'[d] = tasks[d]
    BY <1>4 DEF ReplaceByTail, TypeOK
  <2>5. ExtractedMeansWritten'
    BY <2>1, <2>2 DEF WrittenInv, ExtractedMeansWritten, In, CellsOf, UsersOf
  <2> QED BY <2>1, <2>2, <2>3, <2>4, <2>5 DEF WrittenInv, In
<1>5. ASSUME NEW c \in Calls, Pipeline(c)
      PROVE  WrittenInv'
  <2>1. ASSUME NEW t \in Tasks, EmitStarted(c, t)
        PROVE  WrittenInv'
    BY <1>0, <2>1, NoNewAnswer DEF EmitStarted, In, CellsOf
  <2>2. ASSUME NEW t \in Tasks, TaskFails(c, t)
        PROVE  WrittenInv'
    <3>1. call'[c].phase = "failed" /\ \A d \in Calls \ {c} : call'[d] = call[d]
      BY <2>2, EndMoves DEF TaskFails, Moves
    <3>2. \A d \in Calls \ {c} : tasks'[d] = tasks[d]
      BY <2>2 DEF TaskFails, TypeOK
    <3> QED BY <1>0, <2>2, <3>1, <3>2, NoNewAnswer DEF TaskFails, In, CellsOf
  <2>3. ASSUME NEW s \in Senders, WriteEpisode(c, s)
        PROVE  WrittenInv'
    BY <1>0, <2>3, NoNewAnswer DEF WriteEpisode, In, CellsOf
  <2>4. ASSUME NEW x \in CellsOf(c), NEW s \in Senders, EmitExtracted(c, x, s)
        PROVE  WrittenInv'
    BY <1>0, <2>4, NoNewAnswer DEF EmitExtracted, In, CellsOf
  <2> QED BY <1>5, <2>1, <2>2, <2>3, <2>4 DEF Pipeline
<1>6. ASSUME NEW c \in Calls, Return(c)
      PROVE  WrittenInv'
  <2>1. call'[c].phase = "extracted" /\ \A d \in Calls \ {c} : call'[d] = call[d]
    BY <1>6, EndMoves DEF Return, Moves
  <2>2. UNCHANGED <<mode, memcells, started, episodes, extracted>>
    BY <1>6 DEF Return
  <2>3. Done(c, "user") /\ (mode = "agent" => Done(c, "agent"))
    BY <1>6 DEF Return, WrittenInv
  <2>4. \A x \in CellsOf(c) :
            /\ <<"user", x>> \in started
            /\ mode = "agent" => <<"agent", x>> \in started
            /\ \A s \in UsersOf(x) : <<x, s>> \in extracted
    BY <2>3 DEF Done, Unstarted, Unwritten
  <2>5. ExtractedMeansWritten'
    <3> SUFFICES ASSUME NEW d \in Calls, In(d, {"extracted"})', NEW x \in CellsOf(d)
                 PROVE  /\ <<"user", x>> \in started
                        /\ mode = "agent" => <<"agent", x>> \in started
                        /\ {x} \X UsersOf(x) \subseteq episodes \cap extracted
      BY <2>2 DEF ExtractedMeansWritten, CellsOf, UsersOf
    <3>1. CASE d = c
      BY <1>0, <2>4, <3>1
    <3>2. CASE d # c
      BY <2>1, <3>2 DEF WrittenInv, ExtractedMeansWritten, In
    <3> QED BY <3>1, <3>2
  <2>6. \A d \in Calls \ {c} : tasks'[d] = tasks[d]
    BY <1>6 DEF Return, TypeOK
  <2> QED BY <2>1, <2>2, <2>5, <2>6 DEF WrittenInv, In
<1>7. ASSUME NEW c \in Calls, Fail(c)
      PROVE  WrittenInv'
  <2>1. call'[c].phase = "failed" /\ \A d \in Calls \ {c} : call'[d] = call[d]
    BY <1>7, EndMoves DEF Fail, Moves
  <2>2. \A d \in Calls \ {c} : tasks'[d] = tasks[d]
    BY <1>7 DEF Fail, TypeOK
  <2> QED BY <1>0, <1>7, <2>1, <2>2, NoNewAnswer DEF Fail, In, CellsOf
<1>8. ASSUME Crash
      PROVE  WrittenInv'
  <2>1. \A d \in Calls : (call'[d] = call[d] /\ ~In(d, Open)) \/ call'[d].phase = "failed"
    BY <1>8, CrashMoves
  <2>2. UNCHANGED <<mode, memcells, started, episodes, extracted>>
    BY <1>8 DEF Crash
  <2> QED BY <1>0, <2>1, <2>2, NoNewAnswer DEF In, Open, Holding, CellsOf
<1> QED
  BY <1>1, <1>2, <1>3, <1>4, <1>5, <1>6, <1>7, <1>8 DEF Next, Boundary

\* An answer "extracted" is true: each user of each cell the call carved has an episode in
\* the files, and the engine has the events.
THEOREM ExtractedIsWritten == Spec => []ExtractedMeansWritten
<1>1. Init => WrittenInv
  BY DEF Init, WrittenInv, TypeOK, NoCall, CallType, ExtractedMeansWritten, In
<1>2. WrittenInv /\ UNCHANGED vars => WrittenInv'
  BY DEF WrittenInv, TypeOK, ExtractedMeansWritten, In, CellsOf, UsersOf, vars
<1>3. WrittenInv => ExtractedMeansWritten
  BY DEF WrittenInv
<1> QED BY <1>1, <1>2, <1>3, WrittenInductive, PTL DEF Spec

--------------------------------------------------------------------------------
(* Flushes. *)

\* The tables as a whole lose nothing, whoever the holder is.
LEMMA TablesGrow ==
    ASSUME KeptInv, Next
    PROVE  mode' = mode /\ memcells \subseteq memcells' /\ buffer \cup Carved \subseteq buffer' \cup Carved'
<1> TypeOK
  BY DEF KeptInv
<1>1. ASSUME NEW c \in Calls, Accumulate(c)
      PROVE  UNCHANGED <<mode, memcells>> /\ buffer \subseteq buffer'
  BY <1>1 DEF Accumulate, KeptInv, ReadAll, In
<1>2. ASSUME NEW c \in Calls, InsertMemcells(c)
      PROVE  UNCHANGED <<mode, buffer>> /\ memcells \subseteq memcells'
  BY <1>2 DEF InsertMemcells
<1>3. ASSUME NEW c \in Calls, ReplaceByTail(c)
      PROVE  UNCHANGED <<mode, memcells>> /\ buffer \subseteq buffer' \cup Carved
  BY <1>3, CarvedAndTail DEF ReplaceByTail, KeptInv, ReadAll, In
<1>4. UNCHANGED <<mode, memcells>> => Carved' = Carved
  BY DEF Carved
<1>5. memcells \subseteq memcells' => Carved \subseteq Carved'
  BY DEF Carved
<1>6. ASSUME NEW c \in Calls, Pipeline(c)
      PROVE  UNCHANGED <<mode, buffer, memcells>>
  BY <1>6 DEF Pipeline, EmitStarted, TaskFails, WriteEpisode, EmitExtracted
<1>7. CASE UNCHANGED <<mode, buffer, memcells>>
  BY <1>4, <1>7
<1> QED
  BY <1>1, <1>2, <1>3, <1>4, <1>5, <1>6, <1>7
  DEF Next, Boundary, Post, Acquire, NothingToDo, ReadBuffer, Detect, Return, Fail, Crash

\* From the moment it is sent a flush finds what it owes in the tables; it leaves no tail, so
\* what it has replaced the buffer by is carved.
FlushOwes ==
    \A c \in Calls : call[c].kind = "flush" =>
        /\ In(c, Open \cup Acked) => Kept(call[c].due) \subseteq buffer \cup Carved
        /\ In(c, {"cut", "inserted"}) => Tail(call[c].read, call[c].cuts) = {}
        /\ In(c, {"pipelines"} \cup Acked) => Owed(c) \subseteq Carved

FlushInv == KeptInv /\ FlushOwes

\* Calls that stay where they are, or fail, owe what they owed.
LEMMA OthersOwe ==
    ASSUME FlushInv, Next, NEW d \in Calls, call[d].kind = "flush",
           call'[d] = call[d] \/ ~In(d, Open \cup Acked)'
    PROVE  /\ In(d, Open \cup Acked)' => Kept(call[d].due)' \subseteq buffer' \cup Carved'
           /\ In(d, {"cut", "inserted"})' => Tail(call[d].read, call[d].cuts)' = {}
           /\ In(d, {"pipelines"} \cup Acked)' => Owed(d)' \subseteq Carved'
<1>1. /\ mode' = mode /\ Carved \subseteq Carved'
      /\ buffer \cup Carved \subseteq buffer' \cup Carved'
  BY TablesGrow DEF FlushInv, Carved
<1>2. CASE call'[d] = call[d]
  BY <1>1, <1>2 DEF FlushInv, FlushOwes, In, Owed, Kept, Tail
<1>3. CASE ~In(d, Open \cup Acked)'
  BY <1>3 DEF In, Open, Holding
<1> QED BY <1>2, <1>3

LEMMA FlushInductive ==
    ASSUME FlushInv, Next
    PROVE  FlushInv'
<1> KeptInv /\ KeptInv' /\ TypeOK /\ TypeOK' /\ FlushOwes
  BY KeptInductive DEF FlushInv, KeptInv
<1>0. /\ mode' = mode /\ memcells \subseteq memcells' /\ Carved \subseteq Carved'
      /\ buffer \cup Carved \subseteq buffer' \cup Carved'
  BY TablesGrow DEF Carved
<1> DEFINE Owes(c) ==
        /\ In(c, Open \cup Acked) => Kept(call[c].due) \subseteq buffer \cup Carved
        /\ In(c, {"cut", "inserted"}) => Tail(call[c].read, call[c].cuts) = {}
        /\ In(c, {"pipelines"} \cup Acked) => Owed(c) \subseteq Carved
<1> SUFFICES ASSUME NEW c \in Calls, call'[c].kind = "flush"
             PROVE  Owes(c)'
  BY DEF FlushInv, FlushOwes
<1>1. call[c].kind = "flush" => Owes(c)
  BY DEF FlushOwes
<1> HIDE DEF Owes
<1>2. CASE call'[c] = call[c] \/ ~In(c, Open \cup Acked)'
  BY <1>1, <1>2, OthersOwe DEF Owes, In, Open, Holding
<1>3. ASSUME NEW k \in Kinds, NEW msgs \in SUBSET Messages, Post(c, k, msgs)
      PROVE  Owes(c)'
  <2>1. /\ call'[c].phase = "sent"
        /\ call'[c].due = UNION {call[d].msgs : d \in {a \in Sent : In(a, Acked)}}
    BY <1>3, PostMoves
  <2>2. \A d \in Sent : In(d, Acked) => Kept(call[d].msgs) \subseteq buffer \cup Carved
    BY DEF KeptInv, StillThere, In, Fresh, Kept, Sent
  <2>3. Kept(call'[c].due) \subseteq buffer \cup Carved
    BY <2>1, <2>2 DEF Kept
  <2> QED BY <1>0, <2>1, <2>3 DEF Owes, In, Kept, Acked
<1>4. ASSUME Acquire(c)
      PROVE  Owes(c)'
  <2>1. Moves(c, "reading") /\ In(c, Open)
    BY <1>4, GotoMoves DEF Acquire, In, Open
  <2> QED BY <1>0, <1>1, <2>1 DEF Owes, Moves, In, Kept, Acked
<1>5. ASSUME NothingToDo(c)
      PROVE  Owes(c)'
  <2>1. Moves(c, "accumulated") /\ In(c, Open) /\ buffer = {}
    BY <1>5, EndMoves DEF NothingToDo, Merge, Moves, In, Open, Holding
  <2> QED BY <1>0, <1>1, <2>1 DEF Owes, Moves, In, Owed, Kept
<1>6. ASSUME ReadBuffer(c)
      PROVE  Owes(c)'
  <2>1. Moves(c, "merged") /\ In(c, Open)
    BY <1>6, ReadMoves DEF ReadBuffer, In, Open, Holding
  <2> QED BY <1>0, <1>1, <2>1 DEF Owes, Moves, In, Kept, Acked
<1>7. ASSUME Accumulate(c)
      PROVE  Owes(c)'
  <2>1. PICK phase \in {"accumulated", "failed"} : Moves(c, phase)
    BY <1>7, EndMoves DEF Accumulate
  <2>2. CASE phase = "failed"
    <3>1. ~In(c, Open \cup Acked)'
      BY <2>1, <2>2 DEF Moves, In, Open, Holding, Acked
    <3> QED BY <1>2, <3>1
  <2>3. CASE phase = "accumulated"
    <3>1. call[c].kind = "flush" /\ call[c].read \subseteq ToolRows
      BY <1>7, <2>1 DEF Accumulate, Accumulates, Moves
    <3>2. buffer \subseteq ToolRows
      BY <1>7, <3>1 DEF Accumulate, KeptInv, ReadAll, In
    <3>3. Kept(call[c].due) \subseteq buffer \cup Carved
      BY <1>1, <1>7, <3>1 DEF Owes, Accumulate, In, Open, Holding
    <3>4. call[c].due \ ToolRows \subseteq Carved
      BY <3>2, <3>3 DEF Kept
    <3>5. Kept(call[c].due)' \subseteq buffer' \cup Carved'
      BY <1>0, <2>1, <3>3 DEF Moves, Kept
    <3>6. Owed(c)' \subseteq Carved'
      BY <1>0, <2>1, <2>3, <3>4 DEF Moves, Owed, In
    <3> QED BY <2>1, <2>3, <3>5, <3>6 DEF Owes, Moves, In
  <2> QED BY <2>1, <2>2, <2>3
<1>8. ASSUME Detect(c)
      PROVE  Owes(c)'
  <2>1. Moves(c, "cut") /\ In(c, Open)
    BY <1>8, DetectMoves DEF Detect, In, Open, Holding
  <2>2. Tail(call'[c].read, call'[c].cuts) = {}
    BY <1>8, <2>1, DetectMoves DEF Moves
  <2>3. Tail(call[c].read, call[c].cuts)' = {}
    BY <2>2 DEF Tail
  <2> QED BY <1>0, <1>1, <2>1, <2>3 DEF Owes, Moves, In, Kept, Acked
<1>9. ASSUME InsertMemcells(c)
      PROVE  Owes(c)'
  <2>1. /\ Moves(c, "inserted") /\ In(c, Open) /\ In(c, {"cut"})
        /\ call'[c].read = call[c].read /\ call'[c].cuts = call[c].cuts
    BY <1>9, GotoMoves DEF InsertMemcells, In, Open, Holding
  <2>2. Tail(call[c].read, call[c].cuts)' = Tail(call[c].read, call[c].cuts)
    BY <2>1 DEF Tail
  <2> QED BY <1>0, <1>1, <2>1, <2>2 DEF Owes, Moves, In, Kept, Acked
<1>10. ASSUME ReplaceByTail(c)
       PROVE  Owes(c)'
  <2>1. Moves(c, "pipelines") /\ In(c, Open) /\ In(c, {"inserted"})
    BY <1>10, EndMoves DEF ReplaceByTail, In, Open, Holding
  <2>2. call[c].read \subseteq Carved
    <3>1. Tail(call[c].read, call[c].cuts) = {}
      BY <1>1, <2>1 DEF Owes, Moves, In
    <3>2. Cut(c) \subseteq memcells
      BY <2>1 DEF KeptInv, ReadAll, In
    <3> QED BY <3>1, <3>2, CarvedAndTail
  <2>3. buffer \subseteq call[c].read
    BY <2>1 DEF KeptInv, ReadAll, In
  <2>4. Kept(call[c].due) \subseteq Carved
    BY <1>1, <2>1, <2>2, <2>3 DEF Owes, Moves, In
  <2> QED BY <1>0, <2>1, <2>4 DEF Owes, Moves, In, Owed, Kept, Acked
<1>11. ASSUME Return(c)
       PROVE  Owes(c)'
  <2>1. Moves(c, "extracted") /\ In(c, {"pipelines"})
    BY <1>11, EndMoves DEF Return
  <2>2. Kept(call[c].due) \subseteq Carved
    BY <1>1, <2>1 DEF Owes, Moves, In, Owed
  <2> QED BY <1>0, <2>1, <2>2 DEF Owes, Moves, In, Owed, Kept
<1>12. ASSUME NEW t \in Tasks, TaskFails(c, t)
       PROVE  Owes(c)'
  <2>1. ~In(c, Open \cup Acked)'
    BY <1>12, EndMoves DEF TaskFails, Moves, In, Open, Holding, Acked
  <2> QED BY <1>2, <2>1
<1>13. ASSUME Fail(c)
       PROVE  Owes(c)'
  <2>1. ~In(c, Open \cup Acked)'
    BY <1>13, EndMoves DEF Fail, Moves, In, Open, Holding, Acked
  <2> QED BY <1>2, <2>1
<1>14. ASSUME Crash
       PROVE  Owes(c)'
  <2>1. call'[c] = call[c] \/ call'[c].phase = "failed"
    BY <1>14, CrashMoves
  <2>2. call'[c] = call[c] \/ ~In(c, Open \cup Acked)'
    BY <2>1 DEF In, Open, Holding, Acked
  <2> QED BY <1>2, <2>2
<1>15. ASSUME NEW d \in Calls, d # c,
              \/ \E k \in Kinds, msgs \in SUBSET Messages : Post(d, k, msgs)
              \/ Acquire(d) \/ Boundary(d) \/ Pipeline(d) \/ Return(d) \/ Fail(d)
       PROVE  Owes(c)'
  <2>1. call'[c] = call[c]
    <3>1. CASE \E k \in Kinds, msgs \in SUBSET Messages : Post(d, k, msgs)
      BY <1>15, <3>1, PostMoves
    <3>2. CASE Acquire(d) \/ InsertMemcells(d)
      BY <1>15, <3>2, GotoMoves DEF Acquire, InsertMemcells, Moves
    <3>3. CASE ReadBuffer(d) \/ Detect(d)
      BY <1>15, <3>3, ReadMoves, DetectMoves DEF Moves
    <3>4. CASE NothingToDo(d) \/ Accumulate(d) \/ ReplaceByTail(d) \/ Return(d) \/ Fail(d)
      <4>1. \A phase : End(d, phase) => call'[c] = call[c]
        BY <1>15, EndMoves DEF Moves
      <4>2. \/ End(d, "accumulated") \/ End(d, "pipelines")
            \/ End(d, "extracted") \/ End(d, "failed")
        BY <3>4 DEF NothingToDo, Accumulate, ReplaceByTail, Return, Fail
      <4> QED BY <4>1, <4>2
    <3>5. CASE Pipeline(d)
      <4>1. call' = call \/ End(d, "failed")
        BY <3>5 DEF Pipeline, EmitStarted, TaskFails, WriteEpisode, EmitExtracted
      <4> QED BY <1>15, <4>1, EndMoves DEF Moves
    <3> QED BY <1>15, <3>1, <3>2, <3>3, <3>4, <3>5 DEF Boundary
  <2> QED BY <1>2, <2>1
<1>16. CASE Pipeline(c)
  BY <1>2, <1>12, <1>16 DEF Pipeline, EmitStarted, WriteEpisode, EmitExtracted
<1>17. CASE \E d \in Calls :
               \/ \E k \in Kinds, msgs \in SUBSET Messages : Post(d, k, msgs)
               \/ Acquire(d) \/ Boundary(d) \/ Pipeline(d) \/ Return(d) \/ Fail(d)
  <2>1. PICK d \in Calls :
               \/ \E k \in Kinds, msgs \in SUBSET Messages : Post(d, k, msgs)
               \/ Acquire(d) \/ Boundary(d) \/ Pipeline(d) \/ Return(d) \/ Fail(d)
    BY <1>17
  <2>2. CASE d # c
    BY <1>15, <2>1, <2>2
  <2>3. CASE d = c
    BY <1>3, <1>4, <1>5, <1>6, <1>7, <1>8, <1>9, <1>10, <1>11, <1>13, <1>16, <2>1, <2>3
    DEF Boundary
  <2> QED BY <2>2, <2>3
<1> QED BY <1>14, <1>17 DEF Next

\* An answered flush has carved every message that was acknowledged before it was sent, but
\* for tool rows: chat mode drops them, and alone in the buffer they are nothing to carve.
THEOREM FlushHasCarved == Spec => []FlushCarves
<1>1. Init => KeptInv /\ FlushOwes
  BY DEF Init, KeptInv, TypeOK, NoCall, CallType, OneHolder, ReadAll, StillThere, FlushOwes,
         In, Open, Holding, Acked
<1>2. FlushInv /\ UNCHANGED vars => FlushInv'
  BY DEF FlushInv, FlushOwes, KeptInv, TypeOK, OneHolder, ReadAll, StillThere, In, Fresh, Cut,
         Carved, Owed, Kept, Tail, vars
<1>3. FlushInv => FlushCarves
  BY DEF FlushInv, FlushOwes, FlushCarves, In
<1>4. Init => FlushInv
  BY <1>1 DEF FlushInv
<1> QED BY <1>2, <1>3, <1>4, FlushInductive, PTL DEF Spec

--------------------------------------------------------------------------------
(* Duplicates. *)

\* The cells of one cut share nothing.
LEMMA CellsDisjoint ==
    ASSUME NEW msgs \in SUBSET Nat, NEW cuts \in SUBSET Nat, NEW m \in cuts, NEW n \in cuts,
           NEW i \in CellUpTo(msgs, cuts, m), i \in CellUpTo(msgs, cuts, n)
    PROVE  m = n
BY DEF CellUpTo

\* The tail and the cells share nothing.
LEMMA TailDisjoint ==
    ASSUME NEW msgs \in SUBSET Nat, NEW cuts \in SUBSET Nat, NEW m \in cuts,
           NEW i \in Tail(msgs, cuts)
    PROVE  i \notin CellUpTo(msgs, cuts, m)
BY DEF CellUpTo, Tail

\* A client sent the message in two calls.
Twice(m) == \E c, d \in Sent : c # d /\ m \in call[c].msgs \cap call[d].msgs

Unread == {"none", "sent", "reading"}

\* What a call has taken, or still may take, from the tables.
Held(c) == IF In(c, {"merged", "cut", "inserted"}) THEN call[c].read ELSE {}

\* Whatever is in a table or in the hands of a call was sent by a call that has been read.
Origin ==
    /\ \A m \in buffer \cup Carved : \E e \in Calls : ~In(e, Unread) /\ m \in call[e].msgs
    /\ \A c \in Calls : \A m \in Held(c) : \E e \in Calls : ~In(e, Unread) /\ m \in call[e].msgs

\* A call has cells only once it has inserted them, and these are the cells of its cut until
\* it replaces the buffer.
CellsExact ==
    \A c \in Calls :
        /\ In(c, Unread \cup {"merged", "cut"}) => CellsOf(c) = {}
        /\ In(c, {"inserted"}) => CellsOf(c) \subseteq Cut(c)

\* Where a carved message may still be: in the buffer or in what a call has read only if it
\* was sent twice, if the call that carved it broke, or if that call is about to replace it.
CarvedOnce ==
    \A x \in memcells : \A m \in x.msgs : ~In(x.call, {"failed"}) =>
        /\ m \in buffer /\ ~In(x.call, {"inserted"}) => Twice(m)
        /\ \A c \in Calls : c # x.call /\ m \in Held(c) => Twice(m)

DuplicatesInv == KeptInv /\ Origin /\ CellsExact /\ CarvedOnce /\ DuplicatesExplained

\* A call that was sent keeps its messages, and what was read stays read.
LEMMA RequestsKept ==
    ASSUME TypeOK, Next, NEW c \in Calls, c \in Sent
    PROVE  /\ c \in Sent' /\ call'[c].msgs = call[c].msgs
           /\ ~In(c, Unread) => ~In(c, Unread)'
<1> USE DEF Sent, In, Unread
<1>1. ASSUME NEW d \in Calls, NEW k \in Kinds, NEW msgs \in SUBSET Messages, Post(d, k, msgs)
      PROVE  call'[c] = call[c]
  BY <1>1, PostMoves
<1>2. ASSUME NEW d \in Calls, NEW phase, Moves(d, phase), phase \notin {"none", "sent"},
             phase = "reading" => In(d, {"sent"})
      PROVE  /\ c \in Sent' /\ call'[c].msgs = call[c].msgs
             /\ ~In(c, Unread) => ~In(c, Unread)'
  BY <1>2 DEF Moves
<1>3. ASSUME NEW d \in Calls, Acquire(d)
      PROVE  Moves(d, "reading") /\ In(d, {"sent"})
  BY <1>3, GotoMoves DEF Acquire
<1>4. ASSUME NEW d \in Calls, Boundary(d) \/ Return(d) \/ Fail(d)
      PROVE  \E phase : Moves(d, phase) /\ phase \notin Unread
  <2>1. CASE InsertMemcells(d)
    BY <2>1, GotoMoves DEF InsertMemcells
  <2>2. CASE ReadBuffer(d) \/ Detect(d)
    BY <2>2, ReadMoves, DetectMoves
  <2>3. \A phase : End(d, phase) => Moves(d, phase)
    BY EndMoves
  <2>4. CASE NothingToDo(d) \/ Accumulate(d)
    BY <2>3, <2>4 DEF NothingToDo, Accumulate
  <2>5. CASE ReplaceByTail(d) \/ Return(d) \/ Fail(d)
    BY <2>3, <2>5 DEF ReplaceByTail, Return, Fail
  <2> QED BY <1>4, <2>1, <2>2, <2>4, <2>5 DEF Boundary
<1>5. ASSUME NEW d \in Calls, Pipeline(d)
      PROVE  call' = call \/ Moves(d, "failed")
  BY <1>5, EndMoves DEF Pipeline, EmitStarted, TaskFails, WriteEpisode, EmitExtracted
<1>6. CASE Crash
  BY <1>6, CrashMoves
<1>7. ASSUME NEW d \in Calls, Boundary(d) \/ Return(d) \/ Fail(d)
      PROVE  /\ c \in Sent' /\ call'[c].msgs = call[c].msgs
             /\ ~In(c, Unread) => ~In(c, Unread)'
  BY <1>2, <1>4, <1>7
<1>8. ASSUME NEW d \in Calls, Pipeline(d)
      PROVE  /\ c \in Sent' /\ call'[c].msgs = call[c].msgs
             /\ ~In(c, Unread) => ~In(c, Unread)'
  BY <1>2, <1>5, <1>8
<1>9. ASSUME NEW d \in Calls, Acquire(d)
      PROVE  /\ c \in Sent' /\ call'[c].msgs = call[c].msgs
             /\ ~In(c, Unread) => ~In(c, Unread)'
  BY <1>2, <1>3, <1>9
<1> QED BY <1>1, <1>6, <1>7, <1>8, <1>9 DEF Next

LEMMA TwiceStays ==
    ASSUME TypeOK, Next, NEW m, Twice(m)
    PROVE  Twice(m)'
BY RequestsKept DEF Twice, Sent

LEMMA OriginStays ==
    ASSUME TypeOK, Next, NEW m, \E e \in Calls : ~In(e, Unread) /\ m \in call[e].msgs
    PROVE  \E e \in Calls : ~In(e, Unread)' /\ m \in call'[e].msgs
BY RequestsKept DEF Sent, In, Unread

LEMMA CellCall ==
    ASSUME TypeOK, NEW x \in memcells
    PROVE  x.call \in Calls /\ x.msgs \in SUBSET Messages /\ x \in CellsOf(x.call)
BY DEF TypeOK, Memcells, CellsOf

\* A step that touches neither table, reads nothing and puts no call back keeps the invariant.
LEMMA TablesUntouched ==
    ASSUME DuplicatesInv, Next, buffer' = buffer, memcells' = memcells,
           \A d \in Calls : Held(d)' \subseteq Held(d),
           \A d \in Calls : In(d, {"failed"}) => In(d, {"failed"})',
           \A d \in Calls : In(d, {"inserted"}) => In(d, {"inserted", "failed"})',
           \A d \in Calls : In(d, {"inserted"})' => call'[d] = call[d],
           \A d \in Calls : In(d, Unread \cup {"merged", "cut"})'
                              => In(d, Unread \cup {"merged", "cut"})
    PROVE  (Origin /\ CellsExact /\ CarvedOnce /\ DuplicatesExplained)'
<1> TypeOK
  BY DEF DuplicatesInv, KeptInv
<1>1. Origin'
  BY OriginStays DEF DuplicatesInv, Origin, Carved
<1>2. CellsExact'
  BY DEF DuplicatesInv, CellsExact, CellsOf, Cut, In
<1>3. CarvedOnce'
  BY TwiceStays, CellCall DEF DuplicatesInv, CarvedOnce, In
<1>4. DuplicatesExplained'
  <2> SUFFICES ASSUME NEW x \in memcells, NEW y \in memcells, NEW m \in x.msgs \cap y.msgs, x # y
               PROVE  Twice(m)' \/ In(x.call, {"failed"})' \/ In(y.call, {"failed"})'
    BY DEF DuplicatesExplained, Twice
  <2>1. Twice(m) \/ In(x.call, {"failed"}) \/ In(y.call, {"failed"})
    BY DEF DuplicatesInv, DuplicatesExplained, Twice
  <2> QED BY <2>1, TwiceStays, CellCall
<1> QED BY <1>1, <1>2, <1>3, <1>4

LEMMA DuplicatesInductive ==
    ASSUME DuplicatesInv, Next
    PROVE  DuplicatesInv'
<1> KeptInv /\ TypeOK /\ OneHolder /\ Origin /\ CellsExact /\ CarvedOnce /\ DuplicatesExplained
  BY DEF DuplicatesInv, KeptInv
<1> KeptInv' /\ TypeOK'
  BY KeptInductive DEF KeptInv
<1> DEFINE Goal == Origin /\ CellsExact /\ CarvedOnce /\ DuplicatesExplained
<1> SUFFICES Goal'
  BY DEF DuplicatesInv
<1>0. \A x, y \in memcells : \A m \in x.msgs \cap y.msgs :
          x = y \/ Twice(m)' \/ In(x.call, {"failed"}) \/ In(y.call, {"failed"})
  BY TwiceStays DEF DuplicatesExplained, Twice
<1>1. ASSUME NEW c \in Calls, NEW k \in Kinds, NEW msgs \in SUBSET Messages, Post(c, k, msgs)
      PROVE  Goal'
  <2>1. /\ call[c].phase = "none" /\ call'[c].phase = "sent"
        /\ \A d \in Calls \ {c} : call'[d] = call[d]
    BY <1>1, PostMoves
  <2>2. UNCHANGED <<buffer, memcells>>
    BY <1>1 DEF Post
  <2> QED BY <2>1, <2>2, TablesUntouched DEF In, Held, Unread
<1>2. ASSUME NEW c \in Calls, Acquire(c)
      PROVE  Goal'
  <2>1. Moves(c, "reading") /\ call[c].phase = "sent" /\ UNCHANGED <<buffer, memcells>>
    BY <1>2, GotoMoves DEF Acquire, In
  <2> QED BY <2>1, TablesUntouched DEF Moves, In, Held, Unread
<1>3. ASSUME NEW c \in Calls, NothingToDo(c)
      PROVE  Goal'
  <2>1. Moves(c, "accumulated") /\ call[c].phase = "reading" /\ UNCHANGED <<buffer, memcells>>
    BY <1>3, EndMoves DEF NothingToDo, In
  <2> QED BY <2>1, TablesUntouched DEF Moves, In, Held, Unread
<1>4. ASSUME NEW c \in Calls, Detect(c)
      PROVE  Goal'
  <2>1. /\ Moves(c, "cut") /\ call[c].phase = "merged" /\ call'[c].read = call[c].read
        /\ UNCHANGED <<buffer, memcells>>
    BY <1>4, DetectMoves DEF Detect, In
  <2> QED BY <2>1, TablesUntouched DEF Moves, In, Held, Unread
<1>5. ASSUME NEW c \in Calls, NEW phase \in {"extracted", "failed"}, End(c, phase),
             phase = "extracted" => In(c, {"pipelines"}),
             UNCHANGED <<buffer, memcells>>
      PROVE  Goal'
  <2>1. Moves(c, phase)
    BY <1>5, EndMoves
  <2>2. \A d \in Calls : In(d, {"failed"}) => In(d, {"failed"})'
    BY <1>5, <2>1 DEF Moves, In
  <2>3. \A d \in Calls : In(d, {"inserted"}) => In(d, {"inserted", "failed"})'
    BY <1>5, <2>1 DEF Moves, In
  <2>4. \A d \in Calls : Held(d)' \subseteq Held(d)
    BY <1>5, <2>1 DEF Moves, In, Held
  <2>5. \A d \in Calls : In(d, {"inserted"})' => call'[d] = call[d]
    BY <1>5, <2>1 DEF Moves, In
  <2>6. \A d \in Calls : In(d, Unread \cup {"merged", "cut"})'
                              => In(d, Unread \cup {"merged", "cut"})
    BY <1>5, <2>1 DEF Moves, In, Unread
  <2> QED BY <1>5, <2>2, <2>3, <2>4, <2>5, <2>6, TablesUntouched
<1>6. ASSUME NEW c \in Calls, Pipeline(c)
      PROVE  Goal'
  <2>1. CASE UNCHANGED <<buffer, memcells, call>>
    BY <2>1, TablesUntouched DEF In, Held
  <2>2. CASE End(c, "failed") /\ UNCHANGED <<buffer, memcells>>
    BY <1>5, <2>2
  <2> QED BY <1>6, <2>1, <2>2 DEF Pipeline, EmitStarted, TaskFails, WriteEpisode, EmitExtracted
<1>7. ASSUME NEW c \in Calls, Return(c) \/ Fail(c)
      PROVE  Goal'
  BY <1>5, <1>7 DEF Return, Fail
<1>8. ASSUME Crash
      PROVE  Goal'
  <2>1. \A d \in Calls : (call'[d] = call[d] /\ ~In(d, Open)) \/ call'[d].phase = "failed"
    BY <1>8, CrashMoves
  <2>2. UNCHANGED <<buffer, memcells>>
    BY <1>8 DEF Crash
  <2> QED BY <2>1, <2>2, TablesUntouched DEF In, Held, Unread
<1>9. ASSUME NEW c \in Calls, ReadBuffer(c)
      PROVE  Goal'
  <2>1. /\ Moves(c, "merged") /\ call'[c].read = buffer \cup Fresh(c)
        /\ call[c].phase = "reading" /\ UNCHANGED <<buffer, memcells>>
    BY <1>9, ReadMoves DEF ReadBuffer, In, Merge
  <2>2. Fresh(c) \subseteq call[c].msgs
    BY DEF Fresh
  <2>3. \A d \in Calls \ {c} : ~In(d, Holding) /\ Held(d)' = Held(d)
    BY <2>1 DEF OneHolder, In, Holding, Moves, Held
  <2>4. Held(c)' = buffer \cup Fresh(c)
    BY <2>1 DEF Held, Moves, In
  <2>5. Origin'
    <3>1. \A m \in (buffer \cup Carved)' : \E e \in Calls : ~In(e, Unread)' /\ m \in call'[e].msgs
      BY <2>1, OriginStays DEF Origin, Carved
    <3>2. \A m \in Fresh(c) : ~In(c, Unread)' /\ m \in call'[c].msgs
      BY <2>1, <2>2 DEF Moves, In, Unread
    <3>3. \A m \in Held(c)' : \E e \in Calls : ~In(e, Unread)' /\ m \in call'[e].msgs
      BY <2>1, <2>4, <3>1, <3>2
    <3>4. \A d \in Calls \ {c} : \A m \in Held(d)' :
              \E e \in Calls : ~In(e, Unread)' /\ m \in call'[e].msgs
      BY <2>3, OriginStays DEF Origin
    <3> QED BY <3>1, <3>3, <3>4 DEF Origin
  <2>6. CellsExact'
    BY <2>1 DEF CellsExact, CellsOf, Cut, Moves, In, Unread
  <2>7. CarvedOnce'
    <3> SUFFICES ASSUME NEW x \in memcells, NEW m \in x.msgs, ~In(x.call, {"failed"})'
                 PROVE  /\ m \in buffer /\ ~In(x.call, {"inserted"})' => Twice(m)'
                        /\ \A d \in Calls : d # x.call /\ m \in Held(d)' => Twice(m)'
      BY <2>1 DEF CarvedOnce
    <3>1. x.call \in Calls /\ x \in CellsOf(x.call) /\ CellsOf(c) = {}
      BY <2>1, CellCall DEF CellsExact, In, Unread
    <3>2. x.call # c /\ ~In(x.call, {"failed"}) /\ ~In(x.call, {"inserted"})
      BY <2>1, <2>3, <3>1 DEF Moves, In, Holding
    <3>3. m \in buffer => Twice(m)'
      BY <3>2, TwiceStays DEF CarvedOnce
    <3>4. m \in Fresh(c) => Twice(m)'
      <4>1. PICK e \in Calls : ~In(e, Unread) /\ m \in call[e].msgs
        BY DEF Origin, Carved
      <4>2. e # c /\ e \in Sent /\ c \in Sent
        BY <2>1, <4>1 DEF In, Unread, Sent
      <4> QED BY <2>2, <4>1, <4>2, TwiceStays DEF Twice
    <3> QED BY <2>3, <2>4, <3>2, <3>3, <3>4, TwiceStays DEF CarvedOnce
  <2>8. DuplicatesExplained'
    BY <1>0, <2>1, CellCall DEF DuplicatesExplained, Twice, In, Moves
  <2> QED BY <2>5, <2>6, <2>7, <2>8
<1>10. ASSUME NEW c \in Calls, Accumulate(c)
       PROVE  Goal'
  <2>0. PICK phase \in {"accumulated", "failed"} : End(c, phase)
    BY <1>10 DEF Accumulate
  <2>1. Moves(c, phase) /\ call[c].phase = "merged" /\ memcells' = memcells
    BY <1>10, <2>0, EndMoves DEF Accumulate, In
  <2>2. buffer' = Held(c) /\ Held(c)' = {}
    BY <1>10, <2>0, <2>1 DEF Accumulate, Held, Moves, In
  <2>3. \A d \in Calls \ {c} : Held(d)' = Held(d)
    BY <2>1 DEF Moves, Held, In
  <2>4. Origin'
    BY <2>1, <2>2, <2>3, OriginStays DEF Origin, Carved
  <2>5. CellsExact'
    BY <2>1 DEF CellsExact, CellsOf, Cut, Moves, In, Unread
  <2>6. CarvedOnce'
    <3> SUFFICES ASSUME NEW x \in memcells, NEW m \in x.msgs, ~In(x.call, {"failed"})'
                 PROVE  /\ m \in Held(c) => Twice(m)'
                        /\ \A d \in Calls : d # x.call /\ m \in Held(d)' => Twice(m)'
      BY <2>1, <2>2 DEF CarvedOnce
    <3>1. x.call \in Calls /\ x \in CellsOf(x.call) /\ CellsOf(c) = {}
      BY <2>1, CellCall DEF CellsExact, In, Unread
    <3>2. x.call # c /\ ~In(x.call, {"failed"})
      BY <2>1, <3>1 DEF Moves, In
    <3> QED BY <2>2, <2>3, <3>2, TwiceStays DEF CarvedOnce
  <2>7. DuplicatesExplained'
    BY <1>0, <2>1, CellCall DEF DuplicatesExplained, Twice, In, Moves
  <2> QED BY <2>4, <2>5, <2>6, <2>7
<1>11. ASSUME NEW c \in Calls, InsertMemcells(c)
       PROVE  Goal'
  <2>1. /\ Moves(c, "inserted") /\ call[c].phase = "cut" /\ buffer' = buffer
        /\ memcells' = memcells \cup Cut(c)
        /\ call'[c].read = call[c].read /\ call'[c].cuts = call[c].cuts
    BY <1>11, GotoMoves DEF InsertMemcells, In
  <2>2. \A d \in Calls : Held(d)' = Held(d)
    BY <2>1 DEF Moves, Held, In
  <2>3. \A x \in Cut(c) : x.call = c /\ x.msgs \subseteq Held(c)
    BY <2>1 DEF Cut, CellUpTo, Held, In
  <2>4. \A d \in Calls \ {c} : Held(d) = {}
    BY <2>1 DEF OneHolder, Held, In, Holding
  <2>5. \A x \in memcells : x.call \in Calls \ {c} /\ call'[x.call] = call[x.call]
    BY <2>1, CellCall DEF CellsExact, In, Unread, Moves
  <2>6. Origin'
    <3>1. Carved' \subseteq Carved \cup Held(c)
      BY <2>1, <2>3 DEF Carved
    <3> QED BY <2>1, <2>2, <3>1, OriginStays DEF Origin
  <2>7. CellsExact'
    <3>1. Cut(c)' = Cut(c) /\ CellsOf(c)' \subseteq Cut(c)
      BY <2>1, <2>5 DEF Cut, CellsOf
    <3>2. \A d \in Calls \ {c} : CellsOf(d)' = CellsOf(d) /\ Cut(d)' = Cut(d)
      BY <2>1, <2>3 DEF CellsOf, Cut, Moves
    <3> QED BY <2>1, <3>1, <3>2 DEF CellsExact, Moves, In, Unread
  <2>8. CarvedOnce'
    <3> SUFFICES ASSUME NEW x \in memcells \cup Cut(c), NEW m \in x.msgs, ~In(x.call, {"failed"})'
                 PROVE  /\ m \in buffer /\ ~In(x.call, {"inserted"})' => Twice(m)'
                        /\ \A d \in Calls : d # x.call /\ m \in Held(d)' => Twice(m)'
      BY <2>1 DEF CarvedOnce
    <3>1. CASE x \in memcells
      BY <2>2, <2>5, <3>1, TwiceStays DEF CarvedOnce, In
    <3>2. CASE x \in Cut(c)
      BY <2>1, <2>2, <2>3, <2>4, <3>2 DEF Moves, In
    <3> QED BY <3>1, <3>2
  <2>9. DuplicatesExplained'
    <3> SUFFICES ASSUME NEW x \in memcells \cup Cut(c), NEW y \in memcells \cup Cut(c),
                        NEW m \in x.msgs \cap y.msgs
                 PROVE  x = y \/ Twice(m)' \/ In(x.call, {"failed"})' \/ In(y.call, {"failed"})'
      BY <2>1 DEF DuplicatesExplained, Twice
    <3>1. CASE x \in memcells /\ y \in memcells
      BY <1>0, <2>5, <3>1 DEF In
    <3>2. CASE x \in memcells /\ y \in Cut(c)
      BY <2>3, <2>5, <3>2, TwiceStays DEF CarvedOnce, In
    <3>3. CASE x \in Cut(c) /\ y \in memcells
      BY <2>3, <2>5, <3>3, TwiceStays DEF CarvedOnce, In
    <3>4. CASE x \in Cut(c) /\ y \in Cut(c)
      <4>1. call[c].read \in SUBSET Nat /\ call[c].cuts \in SUBSET Nat
        BY MessageAssumption DEF TypeOK, CallType
      <4> QED BY <3>4, <4>1, CellsDisjoint DEF Cut
    <3> QED BY <3>1, <3>2, <3>3, <3>4
  <2> QED BY <2>6, <2>7, <2>8, <2>9
<1>12. ASSUME NEW c \in Calls, ReplaceByTail(c)
       PROVE  Goal'
  <2>1. Moves(c, "pipelines") /\ call[c].phase = "inserted" /\ memcells' = memcells
    BY <1>12, EndMoves DEF ReplaceByTail, In
  <2>2. buffer' = Tail(call[c].read, call[c].cuts) /\ buffer' \subseteq Held(c) /\ Held(c)' = {}
    BY <1>12, <2>1 DEF ReplaceByTail, Tail, Held, Moves, In
  <2>3. \A d \in Calls \ {c} : Held(d)' = Held(d)
    BY <2>1 DEF Moves, Held, In
  <2>4. Origin'
    BY <2>1, <2>2, <2>3, OriginStays DEF Origin, Carved
  <2>5. CellsExact'
    BY <2>1 DEF CellsExact, CellsOf, Cut, Moves, In, Unread
  <2>6. CarvedOnce'
    <3> SUFFICES ASSUME NEW x \in memcells, NEW m \in x.msgs, ~In(x.call, {"failed"})'
                 PROVE  /\ m \in buffer' => Twice(m)'
                        /\ \A d \in Calls : d # x.call /\ m \in Held(d)' => Twice(m)'
      BY <2>1 DEF CarvedOnce
    <3>1. x.call \in Calls /\ x \in CellsOf(x.call) /\ ~In(x.call, {"failed"})
      BY <2>1, CellCall DEF Moves, In
    <3>2. CASE x.call = c
      <4>1. x \in Cut(c)
        BY <2>1, <3>1, <3>2 DEF CellsExact, In
      <4>2. call[c].read \in SUBSET Nat /\ call[c].cuts \in SUBSET Nat
        BY MessageAssumption DEF TypeOK, CallType
      <4>3. m \notin buffer'
        BY <2>2, <4>1, <4>2, TailDisjoint DEF Cut
      <4> QED BY <2>3, <3>1, <3>2, <4>3, TwiceStays DEF CarvedOnce
    <3>3. CASE x.call # c
      BY <2>2, <2>3, <3>1, <3>3, TwiceStays DEF CarvedOnce
    <3> QED BY <3>2, <3>3
  <2>7. DuplicatesExplained'
    BY <1>0, <2>1, CellCall DEF DuplicatesExplained, Twice, In, Moves
  <2> QED BY <2>4, <2>5, <2>6, <2>7
<1> QED
  BY <1>1, <1>2, <1>3, <1>4, <1>6, <1>7, <1>8, <1>9, <1>10, <1>11, <1>12 DEF Next, Boundary

\* Calls that take the lock in turn never carve the same messages, unless a client sent them
\* twice or a call that carved them broke.
THEOREM DuplicatesAreExplained == Spec => []DuplicatesExplained
<1>1. Init => KeptInv
  BY DEF Init, KeptInv, TypeOK, NoCall, CallType, OneHolder, ReadAll, StillThere, In, Holding, Acked
<1>2. Init => Origin /\ CellsExact /\ CarvedOnce /\ DuplicatesExplained
  BY DEF Init, NoCall, Origin, Carved, Held, CellsExact, CellsOf, CarvedOnce, DuplicatesExplained, In
<1>3. Init => DuplicatesInv
  BY <1>1, <1>2 DEF DuplicatesInv
<1>4. DuplicatesInv /\ UNCHANGED vars => DuplicatesInv'
  <2> SUFFICES ASSUME DuplicatesInv, UNCHANGED vars
               PROVE  DuplicatesInv'
    OBVIOUS
  <2>1. KeptInv'
    BY DEF DuplicatesInv, KeptInv, TypeOK, OneHolder, ReadAll, StillThere, In, Fresh, Cut, Carved, vars
  <2>2. (Origin /\ CellsExact)'
    BY DEF DuplicatesInv, Origin, CellsExact, CellsOf, Cut, Carved, Held, In, vars
  <2>3. (CarvedOnce /\ DuplicatesExplained)'
    BY DEF DuplicatesInv, CarvedOnce, DuplicatesExplained, Twice, Sent, Held, In, vars
  <2> QED BY <2>1, <2>2, <2>3 DEF DuplicatesInv
<1>5. DuplicatesInv => DuplicatesExplained
  BY DEF DuplicatesInv
<1> QED BY <1>3, <1>4, <1>5, DuplicatesInductive, PTL DEF Spec

================================================================================
