------------------------------- MODULE DailyLog -------------------------------
(***************************************************************************)
(* One daily log of episodes and the two EpisodeWriters of the server: the *)
(* one of service/memorize.py and the one of the Reflection strategy.      *)
(* Each writer has a MarkdownWriter of its own, and the path locks belong  *)
(* to the MarkdownWriter.                                                  *)
(*                                                                         *)
(* An append reads the file twice, for its entry_count and then for its    *)
(* text, and replaces it; a patch of the frontmatter reads it once.        *)
(*                                                                         *)
(* Abstractions:                                                           *)
(*  - A call appends one entry or patches one mark, and has a name of its  *)
(*    own, which is also the name of the entry or of the mark.             *)
(*  - A missing file is one without entries; a patch of it raises.         *)
(*  - A cancelled call that is inside os.replace, in a worker thread, is   *)
(*    taken to end with that thread.                                       *)
(*  - Nobody edits the file by hand; of its frontmatter there are the two  *)
(*    fields these calls depend on, entry_count and deprecated_entries.    *)
(***************************************************************************)
EXTENDS Integers

CONSTANTS
    Online,         \* appends of the conversation (service/memorize)
    Nightly,        \* appends of merged narratives (reflect_episodes)
    Patches         \* patches of deprecated_entries (reflect_episodes)

VARIABLES
    file,       \* on disk: the entries, the marks and entry_count
    call        \* what each call has done and read

vars == <<file, call>>

Appends == Online \cup Nightly
Calls == Appends \cup Patches
WriterOf(c) == IF c \in Online THEN "memorize" ELSE "reflect_episodes"

EmptyFile == [entries |-> {}, marks |-> {}, count |-> 0]
NewCall == [pc |-> "new", base |-> 0, seen |-> EmptyFile]

\* EntryId.next_for: the id of an entry is the entry_count before it and one.
Entry(c, base) == [seq |-> base + 1, by |-> c]

Inside(c) == call[c].pc \in {"count", "read", "replace"}

--------------------------------------------------------------------------------
\* lock_for(path), of the call's own writer.
Lock(c) ==
    /\ call[c].pc = "new"
    /\ \A d \in Calls : WriterOf(d) = WriterOf(c) => ~Inside(d)
    /\ call' = [call EXCEPT ![c].pc = IF c \in Appends THEN "count" ELSE "read"]
    /\ UNCHANGED file

Count(c) ==
    /\ call[c].pc = "count"
    /\ call' = [call EXCEPT ![c] = [@ EXCEPT !.pc = "read", !.base = file.count]]
    /\ UNCHANGED file

Read(c) ==
    /\ call[c].pc = "read"
    /\ c \in Patches => file.entries # {}
    /\ call' = [call EXCEPT ![c] = [@ EXCEPT !.pc = "replace", !.seen = file]]
    /\ UNCHANGED file

\* os.replace puts what was read, and the entry or the mark, in the place of what is there.
Replace(c) ==
    /\ call[c].pc = "replace"
    /\ file' = IF c \in Appends
               THEN [call[c].seen EXCEPT !.entries = @ \cup {Entry(c, call[c].base)},
                                         !.count   = call[c].base + 1]
               ELSE [call[c].seen EXCEPT !.marks = @ \cup {c}]
    /\ call' = [call EXCEPT ![c] = [@ EXCEPT !.pc = "done", !.seen = EmptyFile]]

\* Any step may raise: the staging file is removed, the lock given back, the file untouched.
Raise(c) ==
    /\ Inside(c)
    /\ call' = [call EXCEPT ![c] = [NewCall EXCEPT !.pc = "failed"]]
    /\ UNCHANGED file

Init == file = EmptyFile /\ call = [c \in Calls |-> NewCall]

Next == \E c \in Calls : Lock(c) \/ Count(c) \/ Read(c) \/ Replace(c) \/ Raise(c)

Spec == Init /\ [][Next]_vars

--------------------------------------------------------------------------------
(* Properties. *)

\* The entry of an append that has returned is in the file, under the id that the caller was
\* given, for good: no other append or patch overwrites it.
AppendsKept ==
    \A c \in Appends : call[c].pc = "done" => Entry(c, call[c].base) \in file.entries

\* The mark of a patch that has returned is in the file.
PatchesKept == \A c \in Patches : call[c].pc = "done" => c \in file.marks

\* No two entries have one id: the index keeps one row for each.
IdsUnique == \A e, f \in file.entries : e.seq = f.seq => e = f

================================================================================
