-------------------------------- MODULE Memorize --------------------------------
(***************************************************************************)
(* The hot path of the service: /add, deferred /add and /flush of one      *)
(* session.  A call holds the session's lock from its read of the buffer   *)
(* to the end of its pipelines:                                            *)
(*                                                                         *)
(*   lock -> read buffer, merge -> detect boundaries -> insert memcells    *)
(*        -> replace the buffer by the tail -> user and agent pipeline     *)
(*                                                                         *)
(* Every arrow is an await with a write of its own: a call may end there,  *)
(* by an error, by the timeout that spans it, or with the process.         *)
(* Abstractions:                                                           *)
(*  - A message is its message_id, a number in the order the merge sorts   *)
(*    by; a message that is sent again has the same id.  The id is made of *)
(*    session, timestamp and index, so two messages may share one, and the *)
(*    merge drops the later of them: Messages are taken to differ.         *)
(*  - Who wrote it is given by Sender; a message is role=user if its       *)
(*    sender is in Users, and a tool row, which chat mode drops, if it is  *)
(*    in ToolRows.                                                         *)
(*  - The boundary detector may cut anywhere; with is_final it leaves no   *)
(*    tail.  The LLM client is configured: get_llm_client raises when not, *)
(*    and the call fails before it reads anything.                         *)
(*  - conversation_status, which nothing on this path reads, is left out.  *)
(***************************************************************************)
EXTENDS Integers, FiniteSets

CONSTANTS
    Messages,   \* message ids, numbers
    Senders,
    Users,      \* the senders whose messages are role=user
    Sender,     \* of each message
    ToolRows,   \* messages that chat mode drops
    MaxCalls,   \* bound: calls of clients
    MaxWaiting  \* bound: calls that wait for the lock

ASSUME MessageAssumption ==
    /\ Messages \subseteq Nat /\ IsFiniteSet(Messages)
    /\ Users \subseteq Senders /\ Sender \in [Messages -> Senders]
    /\ ToolRows \subseteq Messages /\ \A m \in ToolRows : Sender[m] \notin Users
    /\ MaxCalls \in Nat /\ MaxWaiting \in Nat

Calls == 1 .. MaxCalls
Kinds == {"add", "defer", "flush"}
Tasks == {"user", "agent"}

VARIABLES
    mode,       \* settings.memorize.mode, fixed for the life of the data
    buffer,     \* table unprocessed_buffer: messages
    memcells,   \* table memcell
    call,       \* each client call: its request and how far its handler is
    tasks,      \* the pipelines of each call that are at work
    started,    \* <<task, memcell>>: UserPipelineStarted, AgentPipelineStarted
    episodes,   \* <<memcell, sender>>: entries in the episode files
    extracted   \* <<memcell, sender>>: EpisodeExtracted

vars == <<mode, buffer, memcells, call, tasks, started, episodes, extracted>>

Memcells == [call : Calls, msgs : SUBSET Messages]

\* due is history: the messages that were acknowledged when the call was sent.
NoCall == [kind |-> "none", msgs |-> {}, phase |-> "none", read |-> {}, cuts |-> {}, due |-> {}]

Holding == {"reading", "merged", "cut", "inserted", "pipelines"}
Acked   == {"accumulated", "extracted"}
Open    == {"sent"} \cup Holding

In(c, phases) == call[c].phase \in phases
Goto(c, phase) == call' = [call EXCEPT ![c].phase = phase]

\* The handler has no more use for what it read.
Ended(c, phase) == [call[c] EXCEPT !.phase = phase, !.read = {}, !.cuts = {}]
End(c, phase)   == call' = [call EXCEPT ![c] = Ended(c, phase)]

--------------------------------------------------------------------------------
(* Messages and cells. *)

\* _filter_for_mode
Fresh(c) == IF mode = "chat" THEN call[c].msgs \ ToolRows ELSE call[c].msgs

\* _merge_dedupe_sort: the buffer's copy of a message wins; the order is that of numbers.
Merge(old, fresh) == old \cup fresh

HasUser(msgs) == \E m \in msgs : Sender[m] \in Users

\* A cut is the last message of a cell.
CellUpTo(msgs, cuts, m) == {i \in msgs : i <= m /\ \A j \in cuts : j < m => j < i}
Cut(c) == {[call |-> c, msgs |-> CellUpTo(call[c].read, call[c].cuts, m)] : m \in call[c].cuts}
CellsOf(c) == {x \in memcells : x.call = c}
Tail(msgs, cuts) == {i \in msgs : \A j \in cuts : j < i}

\* Mutant: every sender owns an episode.
SendersOf(cell) == {Sender[m] : m \in cell.msgs}

\* _unique_user_senders
UsersOf(cell) == {Sender[m] : m \in cell.msgs} \cap Users
Before(a, b)  == \A i \in a.msgs, j \in b.msgs : i < j
IsFirst(a, cells) == a \in cells /\ \A b \in cells : a = b \/ Before(a, b)

--------------------------------------------------------------------------------
Init ==
    /\ mode \in {"chat", "agent"}
    /\ buffer = {} /\ memcells = {}
    /\ call  = [c \in Calls |-> NoCall]
    /\ tasks = [c \in Calls |-> {}]
    /\ started = {} /\ episodes = {} /\ extracted = {}

--------------------------------------------------------------------------------
(* The client.  It sends a message once, or again in the batch it was in when the *)
(* call failed or is still unanswered; the answer to a retried call may be late.  *)

Sent == {c \in Calls : ~In(c, {"none"})}

Resendable(msgs) ==
    \A c \in Sent : call[c].msgs \cap msgs # {} => call[c].msgs = msgs /\ ~In(c, Acked)

Post(c, kind, msgs) ==
    /\ \A d \in Calls : d < c => d \in Sent
    /\ c \notin Sent /\ Cardinality({d \in Calls : In(d, {"sent"})}) < MaxWaiting
    /\ IF kind = "flush" THEN msgs = {} ELSE msgs # {} /\ Resendable(msgs)
    /\ call' = [call EXCEPT ![c] =
                  [NoCall EXCEPT !.kind = kind, !.msgs = msgs, !.phase = "sent",
                                 !.due = UNION {call[d].msgs : d \in {a \in Sent : In(a, Acked)}}]]
    /\ UNCHANGED <<mode, buffer, memcells, tasks, started, episodes, extracted>>

--------------------------------------------------------------------------------
(* memorize and _memorize_locked, buffer_messages, prepare_cells. *)

\* Mutant: no session lock.
AcquireAlways(c) ==
    /\ In(c, {"sent"})
    /\ Goto(c, "reading")
    /\ UNCHANGED <<mode, buffer, memcells, tasks, started, episodes, extracted>>

Acquire(c) ==
    /\ In(c, {"sent"})
    /\ \A d \in Calls : ~In(d, Holding)
    /\ Goto(c, "reading")
    /\ UNCHANGED <<mode, buffer, memcells, tasks, started, episodes, extracted>>

\* Mutant: a flush, which brings nothing new, ends here too.
NothingToDoUnforced(c) ==
    /\ In(c, {"reading"})
    /\ Fresh(c) = {}
    /\ End(c, "accumulated")
    /\ UNCHANGED <<mode, buffer, memcells, tasks, started, episodes, extracted>>

\* Nothing new and nothing forced, or nothing at all: the call ends here.
NothingToDo(c) ==
    /\ In(c, {"reading"})
    /\ \/ Fresh(c) = {} /\ call[c].kind # "flush"
       \/ Merge(buffer, Fresh(c)) = {}
    /\ End(c, "accumulated")
    /\ UNCHANGED <<mode, buffer, memcells, tasks, started, episodes, extracted>>

ReadBuffer(c) ==
    /\ In(c, {"reading"})
    /\ Fresh(c) # {} \/ call[c].kind = "flush"
    /\ Merge(buffer, Fresh(c)) # {}
    /\ call' = [call EXCEPT ![c] = [@ EXCEPT !.phase = "merged", !.read = Merge(buffer, Fresh(c))]]
    /\ UNCHANGED <<mode, buffer, memcells, tasks, started, episodes, extracted>>

\* defer_extraction, or no user message to anchor an episode and no flush.
Accumulates(c) == call[c].kind = "defer" \/ (call[c].kind # "flush" /\ ~HasUser(call[c].read))

\* The merged messages go back into the buffer, without a look of the detector or because
\* it found no cell, which in a flush means tool rows alone.  The conversation status is
\* written after the buffer, and that may fail.
Accumulate(c) ==
    /\ In(c, {"merged"})
    /\ Accumulates(c) \/ call[c].kind # "flush" \/ call[c].read \subseteq ToolRows
    /\ buffer' = call[c].read
    /\ \E phase \in {"accumulated", "failed"} : End(c, phase)
    /\ UNCHANGED <<mode, memcells, tasks, started, episodes, extracted>>

Detect(c) ==
    /\ In(c, {"merged"}) /\ ~Accumulates(c)
    /\ \E cuts \in (SUBSET call[c].read) \ {{}} :
         /\ call[c].kind = "flush" => Tail(call[c].read, cuts) = {}
         /\ call' = [call EXCEPT ![c] = [@ EXCEPT !.phase = "cut", !.cuts = cuts]]
    /\ UNCHANGED <<mode, buffer, memcells, tasks, started, episodes, extracted>>

\* Mutant: only the last cell is inserted.
InsertLastCell(c) ==
    /\ In(c, {"cut"})
    /\ memcells' = memcells \cup {x \in Cut(c) : \A y \in Cut(c) : x = y \/ Before(y, x)}
    /\ Goto(c, "inserted")
    /\ UNCHANGED <<mode, buffer, tasks, started, episodes, extracted>>

InsertMemcells(c) ==
    /\ In(c, {"cut"})
    /\ memcells' = memcells \cup Cut(c)
    /\ Goto(c, "inserted")
    /\ UNCHANGED <<mode, buffer, tasks, started, episodes, extracted>>

\* Mutant: everything that was read goes back into the buffer.
ReplaceByMerged(c) ==
    /\ In(c, {"inserted"})
    /\ buffer' = call[c].read
    /\ End(c, "pipelines")
    /\ tasks' = [tasks EXCEPT ![c] = IF mode = "agent" THEN Tasks ELSE {"user"}]
    /\ UNCHANGED <<mode, memcells, started, episodes, extracted>>

ReplaceByTail(c) ==
    /\ In(c, {"inserted"})
    /\ buffer' = Tail(call[c].read, call[c].cuts)
    /\ End(c, "pipelines")
    /\ tasks' = [tasks EXCEPT ![c] = IF mode = "agent" THEN Tasks ELSE {"user"}]
    /\ UNCHANGED <<mode, memcells, started, episodes, extracted>>

--------------------------------------------------------------------------------
(* The pipelines: first an event per cell, then, in the user pipeline, an episode *)
(* for each user of a cell and an event for each episode.                         *)

Unstarted(c, t) == {x \in CellsOf(c) : <<t, x>> \notin started}
Unwritten(c) == {x \in CellsOf(c) : \E s \in UsersOf(x) : <<x, s>> \notin extracted}

EmitStarted(c, t) ==
    /\ t \in tasks[c]
    /\ \E x \in CellsOf(c) : IsFirst(x, Unstarted(c, t)) /\ started' = started \cup {<<t, x>>}
    /\ UNCHANGED <<mode, buffer, memcells, call, tasks, episodes, extracted>>

WriteEpisode(c, s) ==
    /\ "user" \in tasks[c] /\ Unstarted(c, "user") = {}
    /\ \E x \in CellsOf(c) :
         /\ IsFirst(x, Unwritten(c))
         /\ s \in UsersOf(x) /\ <<x, s>> \notin episodes
         /\ \A u \in Senders : <<x, u>> \in episodes => <<x, u>> \in extracted
         /\ episodes' = episodes \cup {<<x, s>>}
    /\ UNCHANGED <<mode, buffer, memcells, call, tasks, started, extracted>>

EmitExtracted(c, x, s) ==
    /\ "user" \in tasks[c] /\ x \in CellsOf(c)
    /\ <<x, s>> \in episodes /\ <<x, s>> \notin extracted
    /\ extracted' = extracted \cup {<<x, s>>}
    /\ UNCHANGED <<mode, buffer, memcells, call, tasks, started, episodes>>

Done(c, t) == Unstarted(c, t) = {} /\ (t = "user" => Unwritten(c) = {})

\* Mutant: gather waits for the agent pipeline alone.
ReturnWithoutUser(c) ==
    /\ In(c, {"pipelines"}) /\ \A t \in tasks[c] \ {"user"} : Done(c, t)
    /\ End(c, "extracted")
    /\ tasks' = [tasks EXCEPT ![c] = {}]
    /\ UNCHANGED <<mode, buffer, memcells, started, episodes, extracted>>

\* Every pipeline has returned; a user pipeline's "extracted" wins the merge.
Return(c) ==
    /\ In(c, {"pipelines"}) /\ \A t \in tasks[c] : Done(c, t)
    /\ End(c, "extracted")
    /\ tasks' = [tasks EXCEPT ![c] = {}]
    /\ UNCHANGED <<mode, buffer, memcells, started, episodes, extracted>>

--------------------------------------------------------------------------------
(* What goes wrong. *)

\* An exception on the way to the pipelines (parser, LLM, database), or the session
\* timeout, which cancels the pipelines too.
Fail(c) ==
    /\ In(c, Open)
    /\ End(c, "failed")
    /\ tasks' = [tasks EXCEPT ![c] = {}]
    /\ UNCHANGED <<mode, buffer, memcells, started, episodes, extracted>>

\* A pipeline raises: gather ends the call, and the other pipeline runs on without it.
TaskFails(c, t) ==
    /\ t \in tasks[c] /\ ~Done(c, t)
    /\ tasks' = [tasks EXCEPT ![c] = @ \ {t}]
    /\ End(c, "failed")
    /\ UNCHANGED <<mode, buffer, memcells, started, episodes, extracted>>

Crash ==
    /\ call'  = [c \in Calls |-> IF In(c, Open) THEN Ended(c, "failed") ELSE call[c]]
    /\ tasks' = [c \in Calls |-> {}]
    /\ UNCHANGED <<mode, buffer, memcells, started, episodes, extracted>>

--------------------------------------------------------------------------------
Boundary(c) ==
    \/ NothingToDo(c) \/ ReadBuffer(c) \/ Accumulate(c) \/ Detect(c)
    \/ InsertMemcells(c) \/ ReplaceByTail(c)

Pipeline(c) ==
    \/ \E t \in Tasks : EmitStarted(c, t) \/ TaskFails(c, t)
    \/ \E s \in Senders : WriteEpisode(c, s)
    \/ \E x \in CellsOf(c), s \in Senders : EmitExtracted(c, x, s)

Next ==
    \/ \E c \in Calls, k \in Kinds, msgs \in SUBSET Messages : Post(c, k, msgs)
    \/ \E c \in Calls : Acquire(c) \/ Boundary(c) \/ Pipeline(c) \/ Return(c) \/ Fail(c)
    \/ Crash

Spec == Init /\ [][Next]_vars

--------------------------------------------------------------------------------
CallType ==
    [kind : Kinds \cup {"none"}, msgs : SUBSET Messages,
     phase : {"none", "failed"} \cup Open \cup Acked,
     read : SUBSET Messages, cuts : SUBSET Messages, due : SUBSET Messages]

\* Every variable has the type of its table, event or task.
TypeOK ==
    /\ mode \in {"chat", "agent"}
    /\ buffer \in SUBSET Messages
    /\ memcells \in SUBSET Memcells
    /\ call \in [Calls -> CallType]
    /\ tasks \in [Calls -> SUBSET Tasks]
    /\ started \in SUBSET (Tasks \X Memcells)
    /\ episodes \in SUBSET (Memcells \X Users)
    /\ extracted \in SUBSET (Memcells \X Users)

--------------------------------------------------------------------------------
(* Safety. *)

Carved == UNION {x.msgs : x \in memcells}

\* A message whose call was answered is in the buffer or in a memcell, whatever
\* the other calls of the session do, fail at, or are cut off from.
NothingLost ==
    \A c \in Calls : In(c, Acked) => Fresh(c) \subseteq buffer \cup Carved

\* The inductive form of NothingLost: one call at a time is past the lock, and as long
\* as it has not answered, what it has read is everything that may still be written
\* back; once the buffer is replaced, the cells hold the rest.
OneHolder == \A c, d \in Calls : In(c, Holding) /\ In(d, Holding) => c = d

ReadAll ==
    \A c \in Calls : In(c, {"merged", "cut", "inserted"}) =>
        /\ buffer \cup Fresh(c) \subseteq call[c].read
        /\ In(c, {"inserted"}) => Cut(c) \subseteq memcells

StillThere ==
    \A c \in Calls : In(c, {"pipelines"} \cup Acked) => Fresh(c) \subseteq buffer \cup Carved

KeptInv == TypeOK /\ OneHolder /\ ReadAll /\ StillThere

\* A message is in two memcells only if its client sent it twice, or if a call that
\* carved it broke: serialised calls never carve the same messages.
DuplicatesExplained ==
    \A x, y \in memcells : \A m \in x.msgs \cap y.msgs :
        \/ x = y
        \/ \E c, d \in Sent : c # d /\ m \in call[c].msgs \cap call[d].msgs
        \/ In(x.call, {"failed"}) \/ In(y.call, {"failed"})

\* "extracted" means what the documentation says: each user of each carved cell has
\* an episode in the files, and the engine has the events of all of them.
ExtractedMeansWritten ==
    \A c \in Calls : In(c, {"extracted"}) =>
        \A x \in CellsOf(c) :
            /\ <<"user", x>> \in started
            /\ mode = "agent" => <<"agent", x>> \in started
            /\ {x} \X UsersOf(x) \subseteq episodes \cap extracted

\* An answered flush has carved every message that was acknowledged before it, but for
\* tool rows that stood alone in the buffer: with nothing else to carve they stay there.
Kept(msgs) == IF mode = "chat" THEN msgs \ ToolRows ELSE msgs
Owed(c) == IF In(c, {"accumulated"}) THEN call[c].due \ ToolRows ELSE Kept(call[c].due)
FlushCarves ==
    \A c \in Calls : call[c].kind = "flush" /\ In(c, Acked) => Owed(c) \subseteq Carved

================================================================================
