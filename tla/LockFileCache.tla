--------------------------- MODULE LockFileCache ---------------------------
(***************************************************************************)
(* The cache of one module's .terraform.lock.hcl: lock_file_for and        *)
(* invalidate_lock in crates/tfls-state/src/store.rs.                      *)
(*                                                                         *)
(* The parsed file and its modification time are entries of two concurrent *)
(* maps.  Diagnostics passes call lock_file_for from blocking threads and  *)
(* rayon workers at the same time; the watcher task calls invalidate_lock. *)
(* Every access to a map or to the file system is an action.  A content    *)
(* and the time it was written share one number.                           *)
(***************************************************************************)
EXTENDS Naturals

CONSTANTS
  Readers,     \* threads that call lock_file_for
  MaxWrites,   \* bound on how often the file is written
  NoFile       \* "no lock file", "no entry"

ASSUME CacheAssumption == MaxWrites \in Nat /\ NoFile \notin 1 .. MaxWrites

Contents == 1 .. MaxWrites
Entries == Contents \cup {NoFile}
Steps == {"idle", "forget", "forget_mtime", "compare", "lookup",
          "parse", "store", "store_mtime", "answer"}

VARIABLES
  file,          \* what is on disk
  writes,        \* how often it was written
  locks,         \* the cached parse
  locks_mtime,   \* the cached modification time
  reader,        \* each caller's progress, its stat and its parse
  invalidating,  \* the watcher task between the two removals
  changed,       \* whether a change event awaits the watcher task
  seen,          \* history: what was on disk since each call began
  origin,        \* history: who stored the cached parse, who its time
  mixed          \* history: calls that looked up a parse of one caller under
                 \* the time of another

cache == <<locks, locks_mtime>>
disk == <<file, writes, changed>>
history == <<origin, mixed>>
lockVars == <<disk, cache, reader, invalidating, seen, history>>

NoCall == [step |-> "idle", mtime |-> NoFile, lock |-> NoFile]

LockTypeOK ==
  /\ file \in Entries /\ writes \in 0 .. MaxWrites
  /\ locks \in Entries /\ locks_mtime \in Entries
  /\ reader \in [Readers -> [step : Steps, mtime : Entries, lock : Entries]]
  /\ \A r \in Readers : reader[r].step \in {"store", "store_mtime"} =>
       reader[r].lock # NoFile /\ reader[r].mtime # NoFile
  /\ invalidating \in BOOLEAN /\ changed \in BOOLEAN
  /\ seen \in [Readers -> SUBSET Entries]
  /\ origin \in [lock : Readers \cup {NoFile}, mtime : Readers \cup {NoFile}]
  /\ mixed \subseteq Readers

LockInit ==
  /\ file = NoFile /\ writes = 0 /\ changed = FALSE
  /\ locks = NoFile /\ locks_mtime = NoFile
  /\ reader = [r \in Readers |-> NoCall]
  /\ invalidating = FALSE
  /\ seen = [r \in Readers |-> {}]
  /\ origin = [lock |-> NoFile, mtime |-> NoFile] /\ mixed = {}

-----------------------------------------------------------------------------
(* The disk: init writes the file, or it goes away.                        *)

OnDisk(content) ==
  /\ file' = content
  /\ changed' = TRUE
  /\ seen' = [r \in Readers |->
                IF reader[r].step = "idle" THEN {} ELSE seen[r] \cup {content}]

WriteFile ==
  /\ writes < MaxWrites
  /\ writes' = writes + 1
  /\ OnDisk(writes + 1)
  /\ UNCHANGED <<cache, reader, invalidating, history>>

DeleteFile ==
  /\ file # NoFile
  /\ OnDisk(NoFile)
  /\ UNCHANGED <<writes, cache, reader, invalidating, history>>

-----------------------------------------------------------------------------
(* lock_file_for.                                                          *)

At(r, step) == reader[r].step = step
Go(r, step) == reader' = [reader EXCEPT ![r].step = step]
GoWith(r, step, lock) ==
  reader' = [reader EXCEPT ![r] = [step |-> step, mtime |-> @.mtime, lock |-> lock]]

(* The caller of lookup still holds the shared guard of locks_mtime.       *)
MtimeFree == \A r \in Readers : ~At(r, "lookup")

Stat(r) ==
  /\ At(r, "idle")
  /\ reader' = [reader EXCEPT ![r] =
       [NoCall EXCEPT !.step = IF file = NoFile THEN "forget" ELSE "compare",
                    !.mtime = file]]
  /\ seen' = [seen EXCEPT ![r] = {file}]
  /\ UNCHANGED <<disk, cache, invalidating, history>>

(* File gone: drop any stale cache entry and answer None.                  *)
ForgetLock(r) ==
  /\ At(r, "forget")
  /\ locks' = NoFile
  /\ Go(r, "forget_mtime")
  /\ UNCHANGED <<disk, locks_mtime, invalidating, seen, history>>

ForgetMtime(r) ==
  /\ At(r, "forget_mtime") /\ MtimeFree
  /\ locks_mtime' = NoFile
  /\ Go(r, "answer")
  /\ UNCHANGED <<disk, locks, invalidating, seen, history>>

CompareMtime(r) ==
  /\ At(r, "compare")
  /\ Go(r, IF locks_mtime = reader[r].mtime THEN "lookup" ELSE "parse")
  /\ UNCHANGED <<disk, cache, invalidating, seen, history>>

LookUp(r) ==
  /\ At(r, "lookup")
  /\ GoWith(r, IF locks = NoFile THEN "parse" ELSE "answer", locks)
  /\ mixed' = IF locks # NoFile /\ origin.lock # origin.mtime THEN mixed \cup {r} ELSE mixed
  /\ UNCHANGED <<disk, cache, invalidating, seen, origin>>

(* read_for_module; a file that is gone by now is answered with None.      *)
Parse(r) ==
  /\ At(r, "parse")
  /\ GoWith(r, IF file = NoFile THEN "answer" ELSE "store", file)
  /\ UNCHANGED <<disk, cache, invalidating, seen, history>>

StoreLock(r) ==
  /\ At(r, "store")
  /\ locks' = reader[r].lock
  /\ Go(r, "store_mtime")
  /\ origin' = [origin EXCEPT !.lock = r]
  /\ UNCHANGED <<disk, locks_mtime, invalidating, seen, mixed>>

(* Faulty: the file is looked at again for the time to store.              *)
StoreMtimeAfresh(r) ==
  /\ At(r, "store_mtime") /\ MtimeFree
  /\ locks_mtime' = file
  /\ origin' = [origin EXCEPT !.mtime = r]
  /\ Go(r, "answer")
  /\ UNCHANGED <<disk, locks, invalidating, seen, mixed>>

(* The time stored is the one of the first stat, before the parse.         *)
StoreMtime(r) ==
  /\ At(r, "store_mtime") /\ MtimeFree
  /\ locks_mtime' = reader[r].mtime
  /\ origin' = [origin EXCEPT !.mtime = r]
  /\ Go(r, "answer")
  /\ UNCHANGED <<disk, locks, invalidating, seen, mixed>>

Answer(r) ==
  /\ At(r, "answer")
  /\ reader' = [reader EXCEPT ![r] = NoCall]
  /\ seen' = [seen EXCEPT ![r] = {}]
  /\ mixed' = mixed \ {r}
  /\ UNCHANGED <<disk, cache, invalidating, origin>>

-----------------------------------------------------------------------------
(* invalidate_lock, on a LockFileChanged event.                            *)

InvalidateLock ==
  /\ changed /\ ~invalidating
  /\ changed' = FALSE
  /\ locks' = NoFile
  /\ invalidating' = TRUE
  /\ UNCHANGED <<file, writes, locks_mtime, reader, seen, history>>

InvalidateMtime ==
  /\ invalidating /\ MtimeFree
  /\ locks_mtime' = NoFile
  /\ invalidating' = FALSE
  /\ UNCHANGED <<disk, locks, reader, seen, history>>

-----------------------------------------------------------------------------
LockFileFor(r) ==
  \/ Stat(r) \/ ForgetLock(r) \/ ForgetMtime(r) \/ CompareMtime(r) \/ LookUp(r)
  \/ Parse(r) \/ StoreLock(r) \/ StoreMtime(r) \/ Answer(r)

LockNext ==
  \/ WriteFile \/ DeleteFile
  \/ \E r \in Readers : LockFileFor(r)
  \/ InvalidateLock \/ InvalidateMtime

LockSpec == LockInit /\ [][LockNext]_lockVars

-----------------------------------------------------------------------------
(* A call answers with a lock file that was on disk at some moment between *)
(* its stat and its answer (lock_file_for: "reparsed when the on-disk mtime *)
(* changes").                                                              *)
NeverStale == \A r \in Readers : At(r, "answer") => reader[r].lock \in seen[r]

(* The same of every call that did not find the parse of one caller under  *)
(* the modification time of another: no interleaving of one caller's       *)
(* accesses with the disk and the watcher, nor of two callers' in any      *)
(* other order, serves a stale parse.                                      *)
AnswersFresh ==
  \A r \in Readers : At(r, "answer") /\ r \notin mixed => reader[r].lock \in seen[r]
=============================================================================
