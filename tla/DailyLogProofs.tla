---------------------------- MODULE DailyLogProofs ----------------------------
(***************************************************************************)
(* What the path lock of one MarkdownWriter is good for: when all calls on *)
(* a daily log go through one writer, no append and no patch is lost and   *)
(* ids are unique, for any number of calls.  The run find_append_lost      *)
(* shows what two writers do to each other.                                *)
(***************************************************************************)
EXTENDS DailyLog, TLAPS

\* One EpisodeWriter for everybody, and a name is that of an append or of a patch.
OneWriter ==
    /\ \A c, d \in Calls : WriterOf(c) = WriterOf(d)
    /\ Appends \cap Patches = {}

Files == [entries : SUBSET [seq : Nat, by : Calls], marks : SUBSET Calls, count : Nat]

TypeOK ==
    /\ file \in Files
    /\ call \in [Calls -> [pc : {"new", "count", "read", "replace", "done", "failed"},
                           base : Nat, seen : Files]]

Alone == \A c, d \in Calls : Inside(c) /\ Inside(d) => c = d

\* entry_count is an upper bound of the numbers of the entries.
Numbered == \A e \in file.entries : e.seq <= file.count

\* What a call under the lock has read is what the file still holds.
Current ==
    /\ \A c \in Appends : call[c].pc \in {"read", "replace"}
                            => call[c].base = file.count
    /\ \A c \in Calls : call[c].pc = "replace" => call[c].seen = file

LogInv ==
    /\ TypeOK /\ Alone /\ Numbered /\ Current
    /\ AppendsKept /\ PatchesKept /\ IdsUnique

--------------------------------------------------------------------------------

LEMMA LogInit == Init => LogInv
<1> SUFFICES ASSUME Init PROVE LogInv
    OBVIOUS
<1>2. EmptyFile \in Files
    BY DEF EmptyFile, Files
<1>3. \A c \in Calls : call[c].pc = "new" /\ call[c].base = 0 /\ call[c].seen = EmptyFile
    BY DEF Init, NewCall
<1>4. TypeOK
    BY <1>2 DEF Init, NewCall, TypeOK
<1>5. file.entries = {}
    BY DEF Init, EmptyFile
<1>6. Appends \subseteq Calls /\ Patches \subseteq Calls
    BY DEF Calls
<1> QED
    BY <1>3, <1>4, <1>5, <1>6
    DEF LogInv, Alone, Inside, Numbered, Current, AppendsKept, PatchesKept, IdsUnique

\* The steps that leave the file alone: taking the lock, reading, raising.
LEMMA QuietStep ==
    ASSUME OneWriter, LogInv, NEW c \in Calls,
           Lock(c) \/ Count(c) \/ Read(c) \/ Raise(c)
    PROVE  LogInv'
<1> USE DEF LogInv
<1>0. Appends \subseteq Calls /\ Patches \subseteq Calls
    BY DEF Calls
<1>1. file' = file /\ \A d \in Calls : d # c => call'[d] = call[d]
    BY DEF Lock, Count, Read, Raise, TypeOK
<1>2. file.count \in Nat
    BY DEF TypeOK, Files
<1>3. TypeOK'
  <2>1. EmptyFile \in Files
    BY DEF EmptyFile, Files
  <2>2. CASE Lock(c)
    BY <1>1, <2>2 DEF TypeOK, Lock
  <2>3. CASE Count(c)
    BY <1>1, <1>2, <2>3 DEF TypeOK, Count
  <2>4. CASE Read(c)
    BY <1>1, <2>4 DEF TypeOK, Read
  <2>5. CASE Raise(c)
    BY <1>1, <2>1, <2>5 DEF TypeOK, Raise, NewCall
  <2> QED
    BY <2>2, <2>3, <2>4, <2>5
<1>4. Alone'
  <2>1. CASE Lock(c)
    <3>1. \A d \in Calls : ~Inside(d)
        BY <2>1 DEF Lock, OneWriter
    <3> QED
        BY <1>1, <3>1 DEF Alone, Inside
  <2>2. CASE Count(c) \/ Read(c) \/ Raise(c)
    <3>1. Inside(c)
        BY <2>2 DEF Count, Read, Raise, Inside
    <3> QED
        BY <1>1, <3>1 DEF Alone, Inside
  <2> QED
    BY <2>1, <2>2
<1>5. Numbered' /\ IdsUnique'
    BY <1>1 DEF Numbered, IdsUnique
<1>6. Current'
  <2>1. \A d \in Calls : d # c => (d \in Appends /\ call'[d].pc \in {"read", "replace"}
                                     => call'[d].base = file'.count)
    BY <1>1 DEF Current
  <2>2. c \in Appends /\ call'[c].pc \in {"read", "replace"}
          => call'[c].base = file'.count
    BY <1>1 DEF Current, Lock, Count, Read, Raise, TypeOK, NewCall
  <2>3. call'[c].pc = "replace" => call'[c].seen = file'
    BY <1>1 DEF Current, Lock, Count, Read, Raise, TypeOK, NewCall
  <2> QED
    BY <1>0, <1>1, <2>1, <2>2, <2>3 DEF Current
<1>7. call'[c].pc # "done"
    BY DEF Lock, Count, Read, Raise, TypeOK, NewCall
<1>8. AppendsKept' /\ PatchesKept'
    BY <1>0, <1>1, <1>7 DEF AppendsKept, PatchesKept, Entry
<1> QED
    BY <1>3, <1>4, <1>5, <1>6, <1>8

\* An append adds one entry, with a number above all the others.
LEMMA AppendStep ==
    ASSUME OneWriter, LogInv, NEW c \in Appends, Replace(c)
    PROVE  LogInv'
<1> USE DEF LogInv
<1> DEFINE n == file.count
           e == Entry(c, call[c].base)
<1>0. Appends \subseteq Calls /\ Patches \subseteq Calls
    BY DEF Calls
<1>1. call[c].base = n /\ call[c].seen = file /\ Inside(c) /\ n \in Nat
    BY <1>0 DEF Replace, Current, Inside, TypeOK, Files
<1>2. e = [seq |-> n + 1, by |-> c]
    BY <1>1 DEF Entry
<1>3. file' = [file EXCEPT !.entries = @ \cup {e}, !.count = n + 1]
    BY <1>1 DEF Replace
<1>4. file'.entries = file.entries \cup {e} /\ file'.marks = file.marks /\ file'.count = n + 1
    BY <1>3 DEF TypeOK, Files
<1>5. /\ \A d \in Calls : d # c => call'[d] = call[d] /\ ~Inside(d)
      /\ call'[c].pc = "done" /\ call'[c].base = call[c].base
    BY <1>0, <1>1 DEF Replace, TypeOK, Alone
<1>6. \A f \in file.entries : f.seq \in Nat /\ f.seq <= n
    BY DEF Numbered, TypeOK, Files
<1>7. TypeOK'
  <2>1. e \in [seq : Nat, by : Calls]
    BY <1>0, <1>1, <1>2
  <2>2. file' \in Files
    <3>1. n + 1 \in Nat /\ file.entries \cup {e} \in SUBSET [seq : Nat, by : Calls]
      BY <1>1, <2>1 DEF TypeOK, Files
    <3> HIDE DEF e, n
    <3> QED BY <1>3, <3>1 DEF TypeOK, Files
  <2>3. EmptyFile \in Files
    BY DEF EmptyFile, Files
  <2> QED
    BY <1>0, <2>2, <2>3 DEF TypeOK, Replace
<1>8. Alone' /\ Current'
    BY <1>0, <1>5 DEF Alone, Current, Inside
<1>9. Numbered'
    BY <1>1, <1>2, <1>4, <1>6 DEF Numbered
<1>10. AppendsKept' /\ PatchesKept'
    BY <1>0, <1>4, <1>5 DEF AppendsKept, PatchesKept, Entry, OneWriter
<1>11. IdsUnique'
    BY <1>1, <1>2, <1>4, <1>6 DEF IdsUnique
<1> QED
    BY <1>7, <1>8, <1>9, <1>10, <1>11

\* A patch adds its mark and leaves the entries alone.
LEMMA PatchStep ==
    ASSUME OneWriter, LogInv, NEW c \in Patches, Replace(c)
    PROVE  LogInv'
<1> USE DEF LogInv
<1>0. Appends \subseteq Calls /\ Patches \subseteq Calls /\ c \notin Appends
    BY DEF Calls, OneWriter
<1>1. call[c].seen = file /\ Inside(c)
    BY <1>0 DEF Replace, Current, Inside
<1>2. file' = [file EXCEPT !.marks = @ \cup {c}]
    BY <1>0, <1>1 DEF Replace
<1>3. /\ file'.entries = file.entries /\ file'.count = file.count
      /\ file'.marks = file.marks \cup {c}
    BY <1>2 DEF TypeOK, Files
<1>4. /\ \A d \in Calls : d # c => call'[d] = call[d] /\ ~Inside(d)
      /\ call'[c].pc = "done"
    BY <1>0, <1>1 DEF Replace, TypeOK, Alone
<1>5. TypeOK'
  <2>1. file' \in Files
    BY <1>0, <1>2 DEF TypeOK, Files
  <2>2. EmptyFile \in Files
    BY DEF EmptyFile, Files
  <2> QED
    BY <1>0, <2>1, <2>2 DEF TypeOK, Replace
<1>6. Alone' /\ Current' /\ Numbered' /\ IdsUnique'
    BY <1>0, <1>3, <1>4 DEF Alone, Current, Inside, Numbered, IdsUnique
<1>7. AppendsKept' /\ PatchesKept'
    BY <1>0, <1>3, <1>4 DEF AppendsKept, PatchesKept, Entry
<1> QED
    BY <1>5, <1>6, <1>7

LEMMA LogStep == ASSUME OneWriter PROVE LogInv /\ [Next]_vars => LogInv'
<1> SUFFICES ASSUME LogInv, [Next]_vars PROVE LogInv'
    OBVIOUS
<1>1. CASE UNCHANGED vars
    BY <1>1 DEF vars, LogInv, TypeOK, Alone, Inside, Numbered, Current, AppendsKept,
                PatchesKept, IdsUnique
<1>2. ASSUME NEW c \in Calls, Lock(c) \/ Count(c) \/ Read(c) \/ Raise(c) PROVE LogInv'
    BY <1>2, QuietStep
<1>3. ASSUME NEW c \in Calls, Replace(c) PROVE LogInv'
    BY <1>3, AppendStep, PatchStep DEF Calls
<1> QED
    BY <1>1, <1>2, <1>3 DEF Next

--------------------------------------------------------------------------------

\* MarkdownWriter's lock keeps every append and every patch, and gives every entry an id of its
\* own, when one writer serves all the callers of a daily log: what the comment in
\* BaseDailyWriter.append_entries says of the writers of the server.
THEOREM OneWriterKeepsAll ==
    ASSUME OneWriter
    PROVE  Spec => [](AppendsKept /\ PatchesKept /\ IdsUnique)
<1>1. Init => LogInv
    BY LogInit
<1>2. LogInv /\ [Next]_vars => LogInv'
    BY LogStep
<1>3. LogInv => AppendsKept /\ PatchesKept /\ IdsUnique
    BY DEF LogInv
<1> QED
    BY <1>1, <1>2, <1>3, PTL DEF Spec
================================================================================
