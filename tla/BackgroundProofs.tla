--------------------------- MODULE BackgroundProofs ---------------------------
(***************************************************************************)
(* Proofs about what runs behind the editor's back: LockFileCache, for any *)
(* number of callers and of writes, SchemaInstall, for any number of runs  *)
(* of terraform init, and ScanTracker, for any directories, files, calls   *)
(* between modules, workspace and number of did_open handlers.             *)
(***************************************************************************)
EXTENDS LockFileCache, SchemaInstall, ScanTracker, TLAPS

-----------------------------------------------------------------------------
(* The cache of the lock file.                                             *)

Busy == {"compare", "lookup", "parse", "store", "store_mtime"}

(* The file on disk is the newest that was ever written, and the cache     *)
(* holds no newer one.                                                     *)
DiskNewest ==
  /\ file # NoFile => file = writes
  /\ locks # NoFile => locks <= writes
  /\ locks_mtime # NoFile => locks_mtime <= writes

(* What each call has seen: everything written since its stat; what it has *)
(* parsed is no older than its stat; what it answers it has seen.          *)
CallOf(r) ==
  /\ reader[r].step # "idle" => file \in seen[r]
  /\ reader[r].step \in Busy =>
       /\ reader[r].mtime # NoFile /\ reader[r].mtime <= writes
       /\ \A c \in Contents : reader[r].mtime <= c /\ c <= writes => c \in seen[r]
  /\ reader[r].step \in {"store", "store_mtime"} =>
       /\ reader[r].lock >= reader[r].mtime /\ reader[r].lock <= writes
       /\ reader[r].lock \in seen[r]
  /\ reader[r].step \in {"forget", "forget_mtime"} =>
       reader[r].lock = NoFile /\ NoFile \in seen[r]
  /\ reader[r].step = "lookup" => locks_mtime = reader[r].mtime
  /\ reader[r].step = "answer" /\ r \notin mixed => reader[r].lock \in seen[r]

CallState == \A r \in Readers : CallOf(r)

(* A parse and a time that one caller cached belong together: the parse is *)
(* no older than the time, in the middle of a later call too.              *)
StoredBy(r) ==
  /\ reader[r].step \in Busy /\ locks_mtime # NoFile /\ origin.mtime = r =>
       reader[r].mtime >= locks_mtime
  /\ reader[r].step = "store_mtime" /\ locks # NoFile /\ origin.lock = r =>
       locks = reader[r].lock

CacheState ==
  /\ locks # NoFile /\ locks_mtime # NoFile /\ origin.lock = origin.mtime =>
       locks >= locks_mtime
  /\ \A r \in Readers : StoredBy(r)

(* The strengthening.                                                      *)
LockInv == LockTypeOK /\ DiskNewest /\ CallState /\ CacheState

-----------------------------------------------------------------------------
LEMMA ContentsAreNat ==
  Contents \subseteq Nat /\ NoFile \notin Contents /\ \A n \in Contents : n > 0
BY CacheAssumption DEF Contents

LEMMA InitLock == LockInit => LockInv
<1> SUFFICES ASSUME LockInit PROVE LockInv
  OBVIOUS
<1>1. invalidating \in BOOLEAN /\ changed \in BOOLEAN
  BY Zenon DEF LockInit
<1>2. LockTypeOK
  BY <1>1, CacheAssumption DEF LockInit, LockTypeOK, NoCall, Steps, Entries
<1>3. DiskNewest /\ CallState /\ CacheState
  BY DEF LockInit, DiskNewest, CallState, CallOf, CacheState, StoredBy, NoCall, Busy
<1>4. QED
  BY <1>2, <1>3 DEF LockInv

LEMMA LockTypesStep == LockInv /\ [LockNext]_lockVars => LockTypeOK'
<1> SUFFICES ASSUME LockInv, [LockNext]_lockVars PROVE LockTypeOK'
  OBVIOUS
<1> USE CacheAssumption DEF LockInv, LockTypeOK, Entries, Contents, cache, disk, history, At, Go, GoWith
<1>1. CASE WriteFile
  BY <1>1 DEF WriteFile, OnDisk
<1>2. CASE DeleteFile
  BY <1>2 DEF DeleteFile, OnDisk
<1>3. ASSUME NEW r \in Readers, LockFileFor(r) PROVE LockTypeOK'
  <2>1. CASE Stat(r)
    BY <2>1 DEF Stat, NoCall, Steps
  <2>2. CASE ForgetLock(r)
    BY <2>2 DEF ForgetLock, Steps
  <2>3. CASE ForgetMtime(r)
    BY <2>3 DEF ForgetMtime, Steps
  <2>4. CASE CompareMtime(r)
    BY <2>4 DEF CompareMtime, Steps
  <2>5. CASE LookUp(r)
    <3>1. reader' \in [Readers -> [step : Steps, mtime : Entries, lock : Entries]]
      BY <2>5 DEF LookUp, Steps
    <3>2. reader'[r].step \in {"parse", "answer"} /\ \A q \in Readers \ {r} : reader'[q] = reader[q]
      BY <2>5 DEF LookUp
    <3>3. mixed' \subseteq Readers
      BY <2>5, Zenon DEF LookUp
    <3>4. QED
      BY <2>5, <3>1, <3>2, <3>3 DEF LookUp
  <2>6. CASE Parse(r)
    <3>1. reader' \in [Readers -> [step : Steps, mtime : Entries, lock : Entries]]
      BY <2>6 DEF Parse, Steps
    <3>2. \A q \in Readers \ {r} : reader'[q] = reader[q]
      BY <2>6 DEF Parse
    <3>3. reader'[r].step = "store" => reader'[r].lock # NoFile /\ reader'[r].mtime # NoFile
      BY <2>6 DEF Parse, CallState, CallOf, Busy
    <3>4. reader'[r].step \in {"store", "answer"}
      BY <2>6 DEF Parse
    <3>5. QED
      BY <2>6, <3>1, <3>2, <3>3, <3>4 DEF Parse
  <2>7. CASE StoreLock(r)
    BY <2>7 DEF StoreLock, Steps
  <2>8. CASE StoreMtime(r)
    BY <2>8 DEF StoreMtime, Steps
  <2>9. CASE Answer(r)
    BY <2>9 DEF Answer, NoCall, Steps
  <2>10. QED
    BY <1>3, <2>1, <2>2, <2>3, <2>4, <2>5, <2>6, <2>7, <2>8, <2>9 DEF LockFileFor
<1>4. CASE InvalidateLock
  BY <1>4 DEF InvalidateLock
<1>5. CASE InvalidateMtime
  BY <1>5 DEF InvalidateMtime
<1>6. CASE UNCHANGED lockVars
  BY <1>6 DEF lockVars
<1>7. QED
  BY <1>1, <1>2, <1>3, <1>4, <1>5, <1>6 DEF LockNext

LEMMA NewestStep == LockInv /\ [LockNext]_lockVars => DiskNewest'
<1> SUFFICES ASSUME LockInv, [LockNext]_lockVars PROVE DiskNewest'
  OBVIOUS
<1> USE CacheAssumption
    DEF LockInv, LockTypeOK, DiskNewest, Entries, Contents, cache, disk, history, At, Go, GoWith
<1>1. CASE WriteFile \/ DeleteFile
  BY <1>1 DEF WriteFile, DeleteFile, OnDisk
<1>2. ASSUME NEW r \in Readers, LockFileFor(r) PROVE DiskNewest'
  <2>1. CASE StoreLock(r) \/ StoreMtime(r)
    BY <2>1 DEF StoreLock, StoreMtime, CallState, CallOf, Busy
  <2>2. QED
    BY <1>2, <2>1
       DEF LockFileFor, Stat, ForgetLock, ForgetMtime, CompareMtime, LookUp, Parse, Answer
<1>3. CASE InvalidateLock \/ InvalidateMtime
  BY <1>3 DEF InvalidateLock, InvalidateMtime
<1>4. CASE UNCHANGED lockVars
  BY <1>4 DEF lockVars
<1>5. QED
  BY <1>1, <1>2, <1>3, <1>4 DEF LockNext

(* A caller leaves the others alone: their own state, and the time one of  *)
(* them has found in the cache.                                            *)
LEMMA OtherCalls ==
  ASSUME LockInv, NEW r \in Readers, LockFileFor(r), NEW q \in Readers, q # r
  PROVE  CallOf(q)'
<1>1. reader'[q] = reader[q] /\ seen'[q] = seen[q] /\ UNCHANGED <<file, writes>>
  BY DEF LockFileFor, Stat, ForgetLock, ForgetMtime, CompareMtime, LookUp, Parse, StoreLock,
         StoreMtime, Answer, LockInv, LockTypeOK, Go, GoWith, disk
<1>2. q \notin mixed' => q \notin mixed
  BY DEF LockFileFor, Stat, ForgetLock, ForgetMtime, CompareMtime, LookUp, Parse, StoreLock,
         StoreMtime, Answer, history
<1>3. reader[q].step = "lookup" => locks_mtime' = locks_mtime
  BY DEF LockFileFor, Stat, ForgetLock, ForgetMtime, CompareMtime, LookUp, Parse, StoreLock,
         StoreMtime, Answer, MtimeFree, At, cache
<1>4. QED
  BY <1>1, <1>2, <1>3 DEF LockInv, CallState, CallOf

LEMMA OwnCall ==
  ASSUME LockInv, NEW r \in Readers, LockFileFor(r) PROVE CallOf(r)'
<1> USE CacheAssumption
    DEF LockInv, LockTypeOK, CallState, CallOf, Busy, Entries, Contents, cache, disk, history, At,
        Go, GoWith
<1>1. CASE Stat(r)
  <2>1. /\ reader'[r] = [step |-> IF file = NoFile THEN "forget" ELSE "compare",
                         mtime |-> file, lock |-> NoFile]
        /\ seen'[r] = {file} /\ file' = file /\ writes' = writes
    BY <1>1 DEF Stat, NoCall
  <2>2. CASE file = NoFile
    BY <2>1, <2>2
  <2>3. CASE file # NoFile
    BY <2>1, <2>3 DEF DiskNewest
  <2>4. QED
    BY <2>2, <2>3
<1>2. CASE ForgetLock(r)
  BY <1>2 DEF ForgetLock
<1>3. CASE ForgetMtime(r)
  BY <1>3 DEF ForgetMtime
<1>4. CASE CompareMtime(r)
  BY <1>4 DEF CompareMtime
<1>5. CASE LookUp(r)
  BY <1>5 DEF LookUp, CacheState, DiskNewest
<1>6. CASE Parse(r)
  BY <1>6 DEF Parse, DiskNewest
<1>7. CASE StoreLock(r)
  BY <1>7 DEF StoreLock
<1>8. CASE StoreMtime(r)
  BY <1>8 DEF StoreMtime
<1>9. CASE Answer(r)
  BY <1>9 DEF Answer, NoCall
<1>10. QED
  BY <1>1, <1>2, <1>3, <1>4, <1>5, <1>6, <1>7, <1>8, <1>9 DEF LockFileFor

LEMMA CallStep == LockInv /\ [LockNext]_lockVars => CallState'
<1> SUFFICES ASSUME LockInv, [LockNext]_lockVars PROVE CallState'
  OBVIOUS
<1>1. ASSUME NEW r \in Readers, LockFileFor(r) PROVE CallState'
  BY <1>1, OtherCalls, OwnCall DEF CallState
<1>2. CASE WriteFile \/ DeleteFile
  BY <1>2, CacheAssumption
     DEF WriteFile, DeleteFile, OnDisk, CallState, CallOf, Busy, LockInv, LockTypeOK, DiskNewest,
         Entries, Contents, cache, history
<1>3. CASE InvalidateLock \/ InvalidateMtime
  BY <1>3 DEF InvalidateLock, InvalidateMtime, CallState, CallOf, LockInv, MtimeFree, At, disk, history
<1>4. CASE UNCHANGED lockVars
  BY <1>4 DEF lockVars, disk, cache, history, LockInv, CallState, CallOf
<1>5. QED
  BY <1>1, <1>2, <1>3, <1>4 DEF LockNext

LEMMA CacheStep == LockInv /\ [LockNext]_lockVars => CacheState'
<1> SUFFICES ASSUME LockInv, [LockNext]_lockVars PROVE CacheState'
  OBVIOUS
<1> USE CacheAssumption
    DEF LockInv, LockTypeOK, CacheState, StoredBy, Entries, Contents, cache, disk, history, At, Go, GoWith
<1>1. CASE WriteFile \/ DeleteFile
  BY <1>1 DEF WriteFile, DeleteFile, OnDisk
<1>2. ASSUME NEW r \in Readers, LockFileFor(r) PROVE CacheState'
  <2>1. CASE Stat(r)
    <3>1. /\ reader'[r].step \in {"forget", "compare"} /\ reader'[r].mtime = file
          /\ reader'[r].step = "compare" => file # NoFile
          /\ \A q \in Readers \ {r} : reader'[q] = reader[q]
      BY <2>1 DEF Stat, NoCall
    <3>2. StoredBy(r)'
      BY <2>1, <3>1 DEF Stat, DiskNewest, Busy
    <3>3. QED
      BY <2>1, <3>1, <3>2 DEF Stat
  <2>2. CASE ForgetLock(r) \/ ForgetMtime(r)
    BY <2>2 DEF ForgetLock, ForgetMtime, Busy
  <2>3. CASE CompareMtime(r) \/ LookUp(r)
    BY <2>3 DEF CompareMtime, LookUp, Busy
  <2>4. CASE Parse(r)
    BY <2>4 DEF Parse, Busy
  <2>5. CASE StoreLock(r)
    BY <2>5 DEF StoreLock, Busy, CallState, CallOf
  <2>6. CASE StoreMtime(r)
    BY <2>6 DEF StoreMtime, Busy, CallState, CallOf
  <2>7. CASE Answer(r)
    BY <2>7 DEF Answer, NoCall, Busy
  <2>8. QED
    BY <1>2, <2>1, <2>2, <2>3, <2>4, <2>5, <2>6, <2>7 DEF LockFileFor
<1>3. CASE InvalidateLock \/ InvalidateMtime
  BY <1>3 DEF InvalidateLock, InvalidateMtime
<1>4. CASE UNCHANGED lockVars
  BY <1>4 DEF lockVars
<1>5. QED
  BY <1>1, <1>2, <1>3, <1>4 DEF LockNext

LEMMA LockStep == LockInv /\ [LockNext]_lockVars => LockInv'
BY LockTypesStep, NewestStep, CallStep, CacheStep DEF LockInv

-----------------------------------------------------------------------------
(* The cache and the calls are well-formed; in particular nothing but a    *)
(* parsed file is stored.                                                  *)
THEOREM LockTypeCorrect == LockSpec => []LockTypeOK
<1>1. LockInv => LockTypeOK
  BY DEF LockInv
<1>2. QED
  BY InitLock, LockStep, <1>1, PTL DEF LockSpec

(* For any number of threads in lock_file_for, a stale answer needs the    *)
(* parse of one caller under the modification time of another: no other    *)
(* interleaving of stats, parses, stores, writes and invalidations does.   *)
THEOREM FreshUnlessMixed == LockSpec => []AnswersFresh
<1>1. LockInv => AnswersFresh
  BY DEF LockInv, CallState, CallOf, AnswersFresh, At
<1>2. QED
  BY InitLock, LockStep, <1>1, PTL DEF LockSpec

(* A lone caller finds nothing in the cache but its own.                   *)
OwnEntries(r) ==
  /\ mixed = {}
  /\ locks # NoFile => origin.lock = r
  /\ locks_mtime # NoFile => origin.mtime = r

(* One caller at a time is enough for the doc comment's promise to hold    *)
(* without exception: it takes two overlapping calls to break it.          *)
THEOREM LoneCallerNeverStale ==
  ASSUME NEW r, Readers = {r}
  PROVE  LockSpec => []NeverStale
<1>1. LockInit => OwnEntries(r)
  BY DEF LockInit, OwnEntries
<1>2. LockInv /\ OwnEntries(r) /\ [LockNext]_lockVars => OwnEntries(r)'
  <2> SUFFICES ASSUME LockInv, OwnEntries(r), [LockNext]_lockVars PROVE OwnEntries(r)'
    OBVIOUS
  <2> USE DEF LockInv, LockTypeOK, OwnEntries, cache, disk, history
  <2>1. CASE WriteFile \/ DeleteFile
    BY <2>1 DEF WriteFile, DeleteFile
  <2>2. CASE LockFileFor(r)
    <3>1. CASE LookUp(r)
      BY <3>1 DEF LookUp, CallState, CallOf, Busy, At
    <3>2. CASE StoreLock(r) \/ StoreMtime(r)
      BY <3>2 DEF StoreLock, StoreMtime
    <3>3. QED
      BY <2>2, <3>1, <3>2
         DEF LockFileFor, Stat, ForgetLock, ForgetMtime, CompareMtime, Parse, Answer
  <2>3. CASE InvalidateLock \/ InvalidateMtime
    BY <2>3 DEF InvalidateLock, InvalidateMtime
  <2>4. CASE UNCHANGED lockVars
    BY <2>4 DEF lockVars
  <2>5. QED
    BY <2>1, <2>2, <2>3, <2>4 DEF LockNext
<1>3. LockInv /\ OwnEntries(r) => NeverStale
  BY DEF LockInv, OwnEntries, CallState, CallOf, NeverStale, At
<1>4. QED
  BY InitLock, LockStep, <1>1, <1>2, <1>3, PTL DEF LockSpec

-----------------------------------------------------------------------------
(* Installing schemas and functions.                                       *)

(* What a job holds, and what it installed, was on disk once.              *)
JobState ==
  /\ schemas.version > 0 => providers > 0
  /\ job.version > 0 => providers > 0
  /\ \A v \in enriching : v > 0 => providers > 0
  /\ job.step \in {"install", "record", "merge", "install_cli"} => job.kind = "schemas"
  /\ job.step = "insert" => job.kind = "functions"
  /\ job.step \in {"record", "merge"} /\ schemas.source # "registry" =>
       schemas.version = job.version

(* A fetch will look at the disk again.                                    *)
FetchToCome ==
  \/ lock_event
  \/ checking["watcher"] # Nothing /\ fetched_schema_dirs = Nothing
  \/ "schemas" \in ToSet(queue)

(* ... or is under way and has what the last init left there.              *)
FetchDue ==
  \/ FetchToCome
  \/ job.kind = "schemas" /\ (job.step = "begin" \/ job.version = providers)

Outdated == schemas.source # "registry" /\ schemas.version # providers

(* The strengthening for SchemasCurrent.                                   *)
InstallInv ==
  /\ TypeOK
  /\ JobState
  /\ Outdated => FetchDue
  /\ job.step \in {"install", "install_cli"} => FetchDue

(* Bare plugin schemas have an enrichment coming.                          *)
EnrichmentDue ==
  \/ schemas.version \in enriching
  \/ job.step = "record" /\ job.version = schemas.version

BareIsEnriched ==
  schemas.version > 0 /\ schemas.source = "plugin" => EnrichmentDue

-----------------------------------------------------------------------------
LEMMA VersionsAreNat == Versions \subseteq Nat /\ 0 \in Versions /\ Nothing \notin Versions
BY InstallAssumption DEF Versions

(* A job that is asked for waits, and the jobs waiting before still do.    *)
LEMMA EnqueuedWaits ==
  ASSUME NEW q \in Seq(Kinds), NEW kind \in Kinds
  PROVE  /\ Enqueued(q, kind) \in Seq(Kinds)
         /\ ToSet(Enqueued(q, kind)) = ToSet(q) \cup {kind}
<1>1. CASE kind \in ToSet(q)
  BY <1>1 DEF Enqueued
<1>2. CASE kind \notin ToSet(q)
  <2>1. Enqueued(q, kind) = Append(q, kind)
    BY <1>2 DEF Enqueued
  <2>2. DOMAIN Append(q, kind) = (DOMAIN q) \cup {Len(q) + 1}
    OBVIOUS
  <2>3. /\ \A i \in DOMAIN q : Append(q, kind)[i] = q[i]
        /\ Append(q, kind)[Len(q) + 1] = kind
    OBVIOUS
  <2>4. QED
    BY <2>1, <2>2, <2>3 DEF ToSet
<1>3. QED
  BY <1>1, <1>2

LEMMA StartedUpWaits ==
  ASSUME NEW q \in Seq(Kinds)
  PROVE  StartedUp(q) \in Seq(Kinds) /\ "schemas" \in ToSet(StartedUp(q))
<1>1. Enqueued(q, "schemas") \in Seq(Kinds) /\ "schemas" \in ToSet(Enqueued(q, "schemas"))
  BY EnqueuedWaits DEF Kinds
<1>2. QED
  BY <1>1, EnqueuedWaits DEF Kinds, StartedUp

LEMMA TakenFromFront ==
  ASSUME NEW q \in Seq(Kinds), q # <<>>
  PROVE  /\ Head(q) \in Kinds /\ Tail(q) \in Seq(Kinds)
         /\ ToSet(q) \subseteq ToSet(Tail(q)) \cup {Head(q)}
<1>1. Head(q) \in Kinds /\ Tail(q) \in Seq(Kinds) /\ Len(Tail(q)) = Len(q) - 1
  OBVIOUS
<1>2. ASSUME NEW i \in DOMAIN q, i # 1
      PROVE  i - 1 \in DOMAIN Tail(q) /\ Tail(q)[i - 1] = q[i]
  BY <1>1, <1>2
<1>3. ASSUME NEW kind \in ToSet(q) PROVE kind \in ToSet(Tail(q)) \cup {Head(q)}
  <2>1. PICK i \in DOMAIN q : kind = q[i]
    BY DEF ToSet
  <2>2. CASE i = 1
    BY <2>1, <2>2
  <2>3. CASE i # 1
    <3>1. i - 1 \in DOMAIN Tail(q) /\ Tail(q)[i - 1] = kind
      BY <1>2, <2>1, <2>3
    <3>2. QED
      BY <3>1, Zenon DEF ToSet
  <2>4. QED
    BY <2>2, <2>3
<1>4. QED
  BY <1>1, <1>3

LEMMA FetchOutcomes ==
  ASSUME Fetch
  PROVE  \/ job' = [job EXCEPT !.step = "install", !.version = providers] /\ providers # 0
         \/ job' = [job EXCEPT !.step = "install_cli", !.version = providers] /\ providers # 0
         \/ job' = Idle /\ (providers = 0 \/ "fail" \in Outcomes)
BY InstallAssumption DEF Fetch

LEMMA FetchKeeps == ASSUME Fetch PROVE UNCHANGED <<aside, queue, installed, fetched>>
BY Zenon DEF Fetch

LEMMA InitInstall == Init => InstallInv /\ BareIsEnriched
<1> SUFFICES ASSUME Init PROVE InstallInv /\ BareIsEnriched
  OBVIOUS
<1>1. queue \in Seq(Kinds) /\ "schemas" \in ToSet(queue)
  <2>1. <<>> \in Seq(Kinds) /\ queue = StartedUp(<<>>)
    BY DEF Init
  <2>2. QED
    BY <2>1, StartedUpWaits, Zenon
<1>2. started \in BOOLEAN /\ lock_event \in BOOLEAN
  BY Zenon DEF Init
<1>3. providers \in Versions /\ 0 \in Versions
  BY InstallAssumption DEF Init, Versions
<1>4. TypeOK
  BY <1>1, <1>2, <1>3, Zenon DEF Init, TypeOK, Idle
<1>5. JobState /\ FetchDue /\ BareIsEnriched
  BY <1>1 DEF Init, JobState, FetchDue, FetchToCome, BareIsEnriched, Idle
<1>6. QED
  BY <1>1, <1>4, <1>5 DEF InstallInv

-----------------------------------------------------------------------------
LEMMA InstallTypesStep == TypeOK /\ [Next]_vars => TypeOK'
<1> SUFFICES ASSUME TypeOK, [Next]_vars PROVE TypeOK'
  OBVIOUS
<1> USE InstallAssumption DEF TypeOK, aside, installed, environment
<1>1. CASE StartRootUri
  BY <1>1, StartedUpWaits DEF StartRootUri
<1>2. CASE TerraformInit
  BY <1>2 DEF TerraformInit, Versions
<1>3. ASSUME NEW c \in Callers, ReadMtime(c) PROVE TypeOK'
  BY <1>3 DEF ReadMtime
<1>4. ASSUME NEW c \in Callers, AskForFetch(c) PROVE TypeOK'
  <2>1. queue' \in Seq(Kinds)
    BY <1>4, EnqueuedWaits DEF AskForFetch, Kinds
  <2>2. QED
    BY <1>4, <2>1 DEF AskForFetch
<1>5. CASE TakeJob
  BY <1>5, TakenFromFront, VersionsAreNat DEF TakeJob, Idle
<1>6. CASE Fetch
  <2>1. job' \in [kind : Kinds \cup {"none"}, version : Versions,
                  step : {"begin", "install", "record", "merge", "install_cli", "insert"}]
    <3>1. CASE job' = Idle
      BY <3>1, VersionsAreNat DEF Idle
    <3>2. CASE job' = [job EXCEPT !.step = "install", !.version = providers]
      BY <3>2
    <3>3. CASE job' = [job EXCEPT !.step = "install_cli", !.version = providers]
      BY <3>3
    <3>4. QED
      BY <1>6, <3>1, <3>2, <3>3, FetchOutcomes, Zenon
  <2>2. QED
    BY <1>6, <2>1, FetchKeeps
<1>7. CASE InstallSchemas
  BY <1>7 DEF InstallSchemas
<1>8. CASE RecordInstalledVersion
  BY <1>8 DEF RecordInstalledVersion
<1>9. CASE MergeFunctions
  BY <1>9, VersionsAreNat DEF MergeFunctions, Idle
<1>10. CASE InstallCliSchemas
  BY <1>10, VersionsAreNat DEF InstallCliSchemas, Idle
<1>11. CASE ClearFunctions
  BY <1>11 DEF ClearFunctions
<1>12. CASE InsertFunctions
  BY <1>12, VersionsAreNat DEF InsertFunctions, Idle
<1>13. ASSUME NEW v \in Versions, Enrich(v) PROVE TypeOK'
  BY <1>13 DEF Enrich
<1>14. CASE UNCHANGED vars
  BY <1>14 DEF vars
<1>15. QED
  BY <1>1, <1>2, <1>3, <1>4, <1>5, <1>6, <1>7, <1>8, <1>9, <1>10, <1>11, <1>12, <1>13, <1>14
     DEF Next, Checks, Worker

LEMMA JobStep == TypeOK /\ JobState /\ [Next]_vars => JobState'
<1> SUFFICES ASSUME TypeOK, JobState, [Next]_vars PROVE JobState'
  OBVIOUS
<1> USE InstallAssumption, VersionsAreNat DEF TypeOK, JobState, aside, installed, environment
<1>1. CASE StartRootUri
  BY <1>1 DEF StartRootUri
<1>2. CASE TerraformInit
  BY <1>2 DEF TerraformInit, Versions
<1>3. ASSUME NEW c \in Callers, Checks(c) PROVE JobState'
  BY <1>3 DEF Checks, ReadMtime, AskForFetch
<1>4. CASE TakeJob
  BY <1>4 DEF TakeJob, Idle
<1>5. CASE Fetch
  BY <1>5 DEF Fetch, Idle, Versions
<1>6. CASE InstallSchemas
  BY <1>6 DEF InstallSchemas
<1>7. CASE RecordInstalledVersion \/ MergeFunctions
  BY <1>7 DEF RecordInstalledVersion, MergeFunctions, Idle
<1>8. CASE InstallCliSchemas \/ ClearFunctions \/ InsertFunctions
  BY <1>8 DEF InstallCliSchemas, ClearFunctions, InsertFunctions, Idle
<1>9. ASSUME NEW v \in Versions, Enrich(v) PROVE JobState'
  BY <1>9 DEF Enrich
<1>10. CASE UNCHANGED vars
  BY <1>10 DEF vars
<1>11. QED
  BY <1>1, <1>2, <1>3, <1>4, <1>5, <1>6, <1>7, <1>8, <1>9, <1>10 DEF Next, Worker

(* Outdated schemas have a fetch coming, as long as fetches do not fail.   *)
LEMMA DueStep ==
  ASSUME "fail" \notin Outcomes, InstallInv, [Next]_vars
  PROVE  Outdated' \/ job'.step \in {"install", "install_cli"} => FetchDue'
<1> SUFFICES ASSUME Outdated' \/ job'.step \in {"install", "install_cli"} PROVE FetchDue'
  OBVIOUS
<1> USE InstallAssumption, VersionsAreNat
    DEF InstallInv, TypeOK, JobState, Outdated, FetchDue, FetchToCome, aside, installed, environment
<1>1. CASE StartRootUri
  BY <1>1, StartedUpWaits DEF StartRootUri
<1>2. CASE TerraformInit
  BY <1>2 DEF TerraformInit
<1>3. ASSUME NEW c \in Callers, ReadMtime(c) PROVE FetchDue'
  BY <1>3 DEF ReadMtime, Callers
<1>4. ASSUME NEW c \in Callers, AskForFetch(c) PROVE FetchDue'
  <2>1. CASE fetched_schema_dirs = checking[c]
    BY <1>4, <2>1 DEF AskForFetch, Callers
  <2>2. CASE fetched_schema_dirs # checking[c]
    BY <1>4, <2>2, EnqueuedWaits DEF AskForFetch, Kinds
  <2>3. QED
    BY <2>1, <2>2
<1>5. CASE TakeJob
  BY <1>5, TakenFromFront DEF TakeJob, Idle
<1>6. CASE Fetch
  BY <1>6, FetchOutcomes DEF Fetch, Idle
<1>7. CASE InstallSchemas
  BY <1>7 DEF InstallSchemas
<1>8. CASE RecordInstalledVersion
  BY <1>8 DEF RecordInstalledVersion
<1>9. CASE MergeFunctions
  BY <1>9 DEF MergeFunctions, Idle
<1>10. CASE InstallCliSchemas
  BY <1>10 DEF InstallCliSchemas, Idle
<1>11. CASE ClearFunctions
  BY <1>11 DEF ClearFunctions
<1>12. CASE InsertFunctions
  BY <1>12 DEF InsertFunctions, Idle
<1>13. ASSUME NEW v \in Versions, Enrich(v) PROVE FetchDue'
  BY <1>13 DEF Enrich
<1>14. CASE UNCHANGED vars
  BY <1>14 DEF vars
<1>15. QED
  BY <1>1, <1>2, <1>3, <1>4, <1>5, <1>6, <1>7, <1>8, <1>9, <1>10, <1>11, <1>12, <1>13, <1>14
     DEF Next, Checks, Worker

LEMMA InstallStep == "fail" \notin Outcomes => (InstallInv /\ [Next]_vars => InstallInv')
BY InstallTypesStep, JobStep, DueStep DEF InstallInv

(* Plugin schemas are installed by a job that goes on to spawn their       *)
(* enrichment, and no enrichment task ends without replacing them.         *)
LEMMA BareStep ==
  ASSUME Enriches = TRUE, TypeOK, BareIsEnriched, [Next]_vars PROVE BareIsEnriched'
<1> USE DEF TypeOK, BareIsEnriched, EnrichmentDue, aside, installed, environment
<1>1. CASE StartRootUri \/ TerraformInit
  BY <1>1 DEF StartRootUri, TerraformInit
<1>2. ASSUME NEW c \in Callers, Checks(c) PROVE BareIsEnriched'
  <2>1. UNCHANGED <<job, installed>>
    BY <1>2, Zenon DEF Checks, ReadMtime, AskForFetch
  <2>2. QED
    BY <2>1
<1>3. CASE TakeJob
  BY <1>3 DEF TakeJob, Idle
<1>4. CASE Fetch
  BY <1>4, FetchKeeps DEF Fetch
<1>5. CASE InstallSchemas \/ RecordInstalledVersion
  BY <1>5 DEF InstallSchemas, RecordInstalledVersion
<1>6. CASE MergeFunctions \/ InstallCliSchemas
  BY <1>6 DEF MergeFunctions, InstallCliSchemas
<1>7. CASE ClearFunctions \/ InsertFunctions
  BY <1>7 DEF ClearFunctions, InsertFunctions
<1>8. ASSUME NEW v \in Versions, Enrich(v) PROVE BareIsEnriched'
  BY <1>8 DEF Enrich
<1>9. CASE UNCHANGED vars
  BY <1>9 DEF vars
<1>10. QED
  BY <1>1, <1>2, <1>3, <1>4, <1>5, <1>6, <1>7, <1>8, <1>9 DEF Next, Worker

-----------------------------------------------------------------------------
(* The state of the fetch jobs, checks and enrichments is well-formed.     *)
THEOREM InstallTypeCorrect == Spec => []TypeOK
<1>1. Init => TypeOK
  BY InitInstall DEF InstallInv
<1>2. QED
  BY <1>1, InstallTypesStep, PTL DEF Spec

(* As long as no fetch fails, the worker's last install is of what is on   *)
(* disk, however many inits land in whichever step of the fetches and      *)
(* checks of fetched_schema_dirs.                                          *)
THEOREM SchemasStayCurrent ==
  ASSUME "fail" \notin Outcomes
  PROVE  Spec => []SchemasCurrent
<1>1. InstallInv => SchemasCurrent
  <2>1. ASSUME queue = <<>> PROVE "schemas" \notin ToSet(queue)
    BY <2>1 DEF ToSet
  <2>2. QED
    BY <2>1 DEF InstallInv, SchemasCurrent, Quiescent, Outdated, FetchDue, FetchToCome, Callers, Idle
<1>2. InstallInv /\ [Next]_vars => InstallInv'
  BY InstallStep
<1>3. QED
  BY InitInstall, <1>1, <1>2, PTL DEF Spec

(* Where the registry has descriptions, bare plugin schemas never outlive  *)
(* the enrichment their own fetch spawns.                                  *)
THEOREM EnrichmentArrives ==
  ASSUME Enriches = TRUE
  PROVE  Spec => []EnrichedInTheEnd
<1>1. TypeOK /\ BareIsEnriched => EnrichedInTheEnd
  BY DEF TypeOK, BareIsEnriched, EnrichmentDue, EnrichedInTheEnd, Quiescent, Idle
<1>2. TypeOK /\ BareIsEnriched /\ [Next]_vars => TypeOK' /\ BareIsEnriched'
  BY InstallTypesStep, BareStep
<1>3. Init => TypeOK /\ BareIsEnriched
  BY InitInstall DEF InstallInv
<1>4. QED
  BY <1>1, <1>2, <1>3, PTL DEF Spec

-----------------------------------------------------------------------------
(* Scans.                                                                  *)

(* A single directory's scan holds that directory alone; once it looks for *)
(* child modules the directory is completed.                               *)
WorkerState ==
  /\ worker.step = "idle" => worker.dirs = {}
  /\ ~worker.bulk => \A c, d \in worker.dirs : c = d
  /\ worker.step = "children" =>
       ~worker.bulk /\ \A d \in worker.dirs : dir_scans[d] = "completed"

(* A did_open under way is at a directory.                                 *)
OpenerState == \A h \in Handlers : opener[h].step # "idle" => opener[h].dir \in Dirs

(* What was parsed stays in the store, but for what is closed.             *)
ParsedPresent ==
  \A d \in Dirs :
    dir_scans[d] = "completed" \/ (worker.step = "complete" /\ d \in worker.dirs) =>
      FilesIn({d}) \subseteq documents \cup closed

(* Somebody is on the way to ask for the modules that d calls.             *)
WillSchedule(d) ==
  \/ \E h \in Handlers : opener[h].step # "idle" /\ opener[h].dir = d
  \/ worker.step \in {"complete", "children"} /\ d \in worker.dirs

(* A module that a completed directory calls is tracked, or about to be.   *)
CallsFollowed ==
  \A d \in Dirs \ bulk_done : dir_scans[d] = "completed" /\ ~WillSchedule(d) =>
    \A f \in documents \cap FilesIn({d}), c \in Dirs :
      c \in CallsOf[f] => dir_scans[c] # "untracked"

(* The strengthening.                                                      *)
ScanInv ==
  ScanTypeOK /\ WorkerState /\ OpenerState /\ ScheduledIsCovered /\ ParsedPresent /\ CallsFollowed

-----------------------------------------------------------------------------
LEMMA InitScan == ScanInit => ScanInv
BY ScanAssumption
   DEF ScanInit, ScanInv, ScanTypeOK, States, NoScan, WorkerState, OpenerState, ScheduledIsCovered, ParsedPresent,
       CallsFollowed, WillSchedule

(* Scheduling tracks the directories it is given and no scan state else    *)
(* changes.                                                                *)
LEMMA ScheduleTracks ==
  ASSUME ScanTypeOK, NEW dirs \in SUBSET Dirs, Schedule(dirs)
  PROVE  /\ dir_scans' \in [Dirs -> States] /\ scan_queue' \subseteq Dirs
         /\ scan_queue \subseteq scan_queue'
         /\ \A d \in Dirs : \/ dir_scans'[d] = dir_scans[d]
                            \/ dir_scans'[d] = "scheduled" /\ d \in scan_queue'
         /\ \A d \in Dirs : dir_scans[d] # "untracked" => dir_scans'[d] = dir_scans[d]
         /\ \A d \in dirs : dir_scans'[d] # "untracked"
BY DEF ScanTypeOK, States, Schedule

LEMMA CalledAreDirs ==
  ASSUME ScanTypeOK, NEW d \in Dirs PROVE CalledFrom(d) \subseteq Dirs
BY ScanAssumption DEF CalledFrom, ScanTypeOK

LEMMA ScanTypesStep == ScanInv /\ [ScanNext]_scanVars => ScanTypeOK'
<1> SUFFICES ASSUME ScanInv, [ScanNext]_scanVars PROVE ScanTypeOK'
  OBVIOUS
<1> USE ScanAssumption DEF ScanInv, ScanTypeOK
<1>1. ASSUME NEW h \in Handlers, NEW f \in Files, DidOpen(h, f) PROVE ScanTypeOK'
  BY <1>1 DEF DidOpen, Store, scanState
<1>2. ASSUME NEW h \in Handlers, IndexModule(h) PROVE ScanTypeOK'
  BY <1>2 DEF IndexModule, Store, scanState, FilesIn
<1>3. ASSUME NEW h \in Handlers, ScheduleOwn(h) PROVE ScanTypeOK'
  BY <1>3, ScheduleTracks DEF ScheduleOwn, scanHistory, OpenerState
<1>4. ASSUME NEW h \in Handlers, ScheduleChildren(h) PROVE ScanTypeOK'
  BY <1>4, ScheduleTracks, CalledAreDirs DEF ScheduleChildren, scanHistory, OpenerState
<1>5. ASSUME NEW f \in Files, DidClose(f) PROVE ScanTypeOK'
  BY <1>5 DEF DidClose, scanState
<1>6. ASSUME NEW d \in Dirs, TakeScan(d) PROVE ScanTypeOK'
  BY <1>6 DEF TakeScan, scanHistory
<1>7. ASSUME NEW d \in Dirs, Complete(d) PROVE ScanTypeOK'
  BY <1>7 DEF Complete, States, NoScan
<1>8. CASE TakeBulk
  BY <1>8 DEF TakeBulk, scanHistory
<1>9. CASE Discover
  BY <1>9 DEF Discover, scanHistory, States
<1>10. CASE ScanFails
  BY <1>10 DEF ScanFails, NoScan
<1>11. CASE ParseAll
  BY <1>11 DEF ParseAll, Store, FilesIn
<1>12. CASE ScanChildren
  BY <1>12, ScheduleTracks, CalledAreDirs DEF ScanChildren, scanHistory, NoScan
<1>13. CASE UNCHANGED scanVars
  BY <1>13 DEF scanVars, scanHistory
<1>14. QED
  BY <1>1, <1>2, <1>3, <1>4, <1>5, <1>6, <1>7, <1>8, <1>9, <1>10, <1>11, <1>12, <1>13
     DEF ScanNext, Open, Work

LEMMA WorkerStep == ScanInv /\ [ScanNext]_scanVars => WorkerState' /\ OpenerState'
<1> SUFFICES ASSUME ScanInv, [ScanNext]_scanVars PROVE WorkerState' /\ OpenerState'
  OBVIOUS
<1> USE ScanAssumption DEF ScanInv, ScanTypeOK, WorkerState, OpenerState
<1>1. ASSUME NEW h \in Handlers, Open(h) PROVE WorkerState' /\ OpenerState'
  <2>1. worker' = worker /\ \A d \in Dirs : dir_scans[d] = "completed" => dir_scans'[d] = "completed"
    BY <1>1, ScheduleTracks, CalledAreDirs
       DEF Open, DidOpen, IndexModule, ScheduleOwn, ScheduleChildren, scanState
  <2>2. OpenerState'
    <3>1. ASSUME NEW f \in Files, DidOpen(h, f) PROVE OpenerState'
      BY <3>1 DEF DidOpen
    <3>2. CASE IndexModule(h)
      BY <3>2 DEF IndexModule
    <3>3. CASE ScheduleOwn(h)
      BY <3>3 DEF ScheduleOwn
    <3>4. CASE ScheduleChildren(h)
      BY <3>4 DEF ScheduleChildren
    <3>5. QED
      BY <1>1, <3>1, <3>2, <3>3, <3>4 DEF Open
  <2>3. QED
    BY <2>1, <2>2
<1>2. ASSUME NEW f \in Files, DidClose(f) PROVE WorkerState' /\ OpenerState'
  BY <1>2 DEF DidClose, scanState
<1>3. ASSUME NEW d \in Dirs, TakeScan(d) PROVE WorkerState' /\ OpenerState'
  BY <1>3 DEF TakeScan
<1>4. ASSUME NEW d \in Dirs, Complete(d) PROVE WorkerState' /\ OpenerState'
  BY <1>4 DEF Complete, NoScan
<1>5. CASE TakeBulk \/ Discover \/ ParseAll
  BY <1>5 DEF TakeBulk, Discover, ParseAll
<1>6. CASE ScanFails \/ ScanChildren
  BY <1>6 DEF ScanFails, ScanChildren, NoScan
<1>7. CASE UNCHANGED scanVars
  BY <1>7 DEF scanVars
<1>8. QED
  BY <1>1, <1>2, <1>3, <1>4, <1>5, <1>6, <1>7 DEF ScanNext, Work

LEMMA CoveredStep == ScanInv /\ [ScanNext]_scanVars => ScheduledIsCovered'
<1> SUFFICES ASSUME ScanInv, [ScanNext]_scanVars PROVE ScheduledIsCovered'
  OBVIOUS
<1> USE ScanAssumption DEF ScanInv, ScanTypeOK, ScheduledIsCovered
<1>1. ASSUME NEW h \in Handlers, Open(h) PROVE ScheduledIsCovered'
  <2>1. CASE ScheduleOwn(h) \/ ScheduleChildren(h)
    BY <2>1, ScheduleTracks, CalledAreDirs
       DEF ScheduleOwn, ScheduleChildren, OpenerState, scanHistory
  <2>2. QED
    BY <1>1, <2>1 DEF Open, DidOpen, IndexModule, scanState
<1>2. ASSUME NEW f \in Files, DidClose(f) PROVE ScheduledIsCovered'
  BY <1>2 DEF DidClose, scanState
<1>3. ASSUME NEW d \in Dirs, TakeScan(d) PROVE ScheduledIsCovered'
  BY <1>3 DEF TakeScan, scanHistory, NoScan
<1>4. ASSUME NEW d \in Dirs, Complete(d) PROVE ScheduledIsCovered'
  BY <1>4 DEF Complete, NoScan, WorkerState
<1>5. CASE TakeBulk \/ Discover \/ ParseAll
  BY <1>5 DEF TakeBulk, Discover, ParseAll, scanHistory, NoScan
<1>6. CASE ScanFails
  BY <1>6 DEF ScanFails
<1>7. CASE ScanChildren
  BY <1>7, ScheduleTracks, CalledAreDirs DEF ScanChildren, scanHistory, WorkerState
<1>8. CASE UNCHANGED scanVars
  BY <1>8 DEF scanVars, scanHistory
<1>9. QED
  BY <1>1, <1>2, <1>3, <1>4, <1>5, <1>6, <1>7, <1>8 DEF ScanNext, Work

LEMMA PresentStep == ScanInv /\ [ScanNext]_scanVars => ParsedPresent'
<1> SUFFICES ASSUME ScanInv, [ScanNext]_scanVars PROVE ParsedPresent'
  OBVIOUS
<1> USE ScanAssumption DEF ScanInv, ScanTypeOK, ParsedPresent
<1>1. ASSUME NEW h \in Handlers, Open(h) PROVE ParsedPresent'
  <2>1. worker' = worker /\ documents \cup closed \subseteq documents' \cup closed'
    BY <1>1 DEF Open, DidOpen, IndexModule, ScheduleOwn, ScheduleChildren, scanState, scanHistory, Store
  <2>2. \A d \in Dirs : dir_scans'[d] = "completed" => dir_scans[d] = "completed"
    BY <1>1, ScheduleTracks, CalledAreDirs
       DEF Open, DidOpen, IndexModule, ScheduleOwn, ScheduleChildren, scanState, OpenerState
  <2>3. QED
    BY <2>1, <2>2
<1>2. ASSUME NEW f \in Files, DidClose(f) PROVE ParsedPresent'
  BY <1>2 DEF DidClose, scanState
<1>3. ASSUME NEW d \in Dirs, TakeScan(d) PROVE ParsedPresent'
  BY <1>3 DEF TakeScan, scanHistory
<1>4. ASSUME NEW d \in Dirs, Complete(d) PROVE ParsedPresent'
  BY <1>4 DEF Complete, NoScan
<1>5. CASE TakeBulk \/ Discover
  BY <1>5 DEF TakeBulk, Discover, scanHistory
<1>6. CASE ParseAll
  BY <1>6 DEF ParseAll, Store, FilesIn
<1>7. CASE ScanFails
  BY <1>7 DEF ScanFails, NoScan
<1>8. CASE ScanChildren
  BY <1>8, ScheduleTracks, CalledAreDirs DEF ScanChildren, scanHistory, NoScan
<1>9. CASE UNCHANGED scanVars
  BY <1>9 DEF scanVars, scanHistory
<1>10. QED
  BY <1>1, <1>2, <1>3, <1>4, <1>5, <1>6, <1>7, <1>8, <1>9 DEF ScanNext, Work

(* The scan states never lose track of a directory, and complete one only  *)
(* in the worker's Complete step.                                          *)
LEMMA CallsStep == ScanInv /\ [ScanNext]_scanVars => CallsFollowed'
<1> SUFFICES ASSUME ScanInv, [ScanNext]_scanVars,
                    NEW d \in Dirs, d \notin bulk_done', dir_scans'[d] = "completed",
                    ~WillSchedule(d)',
                    NEW f \in documents' \cap FilesIn({d}), NEW c \in Dirs, c \in CallsOf[f],
                    dir_scans'[c] = "untracked"
             PROVE  FALSE
  BY Zenon DEF CallsFollowed
<1> USE ScanAssumption DEF ScanInv, ScanTypeOK, WorkerState, OpenerState
<1> DEFINE Before ==
      /\ d \notin bulk_done /\ dir_scans[d] = "completed" /\ dir_scans[c] = "untracked"
      /\ ~WillSchedule(d) /\ f \in documents
<1>1. f \in Files /\ DirOf[f] = d
  BY DEF FilesIn
<1>2. ~Before
  BY DEF CallsFollowed, FilesIn
<1>3. ASSUME NEW h \in Handlers, NEW g \in Files, DidOpen(h, g) PROVE FALSE
  BY <1>1, <1>2, <1>3 DEF DidOpen, Store, scanState, WillSchedule
<1>4. ASSUME NEW h \in Handlers, IndexModule(h) PROVE FALSE
  BY <1>1, <1>2, <1>4 DEF IndexModule, Store, scanState, WillSchedule, FilesIn
<1>5. ASSUME NEW h \in Handlers, ScheduleOwn(h) PROVE FALSE
  BY <1>1, <1>2, <1>5, ScheduleTracks DEF ScheduleOwn, scanHistory, WillSchedule
<1>6. ASSUME NEW h \in Handlers, ScheduleChildren(h) PROVE FALSE
  <2>1. dir_scans[c] = "untracked" /\ dir_scans[d] = "completed" /\ f \in documents
    BY <1>6, ScheduleTracks, CalledAreDirs DEF ScheduleChildren, scanHistory
  <2>2. CASE opener[h].dir = d
    BY <1>1, <1>6, <2>1, <2>2, ScheduleTracks, CalledAreDirs DEF ScheduleChildren, CalledFrom, FilesIn
  <2>3. CASE opener[h].dir # d
    BY <1>2, <1>6, <2>1, <2>3 DEF ScheduleChildren, WillSchedule, scanHistory
  <2>4. QED
    BY <2>2, <2>3
<1>7. ASSUME NEW g \in Files, DidClose(g) PROVE FALSE
  BY <1>1, <1>2, <1>7 DEF DidClose, scanState, WillSchedule
<1>8. ASSUME NEW e \in Dirs, TakeScan(e) PROVE FALSE
  BY <1>2, <1>8 DEF TakeScan, scanHistory, WillSchedule, NoScan
<1>9. ASSUME NEW e \in Dirs, Complete(e) PROVE FALSE
  BY <1>2, <1>9 DEF Complete, WillSchedule, NoScan
<1>10. CASE TakeBulk \/ Discover
  BY <1>2, <1>10 DEF TakeBulk, Discover, scanHistory, WillSchedule, NoScan
<1>11. CASE ScanFails
  BY <1>2, <1>11 DEF ScanFails, WillSchedule, NoScan
<1>12. CASE ParseAll
  BY <1>1, <1>2, <1>12 DEF ParseAll, Store, WillSchedule, FilesIn
<1>13. CASE ScanChildren
  <2>1. dir_scans[c] = "untracked" /\ dir_scans[d] = "completed" /\ f \in documents
    BY <1>13, ScheduleTracks, CalledAreDirs DEF ScanChildren, scanHistory
  <2>2. CASE d \in worker.dirs
    BY <1>1, <1>13, <2>1, <2>2, ScheduleTracks, CalledAreDirs DEF ScanChildren, CalledFrom, FilesIn
  <2>3. CASE d \notin worker.dirs
    BY <1>2, <1>13, <2>1, <2>3 DEF ScanChildren, WillSchedule, scanHistory
  <2>4. QED
    BY <2>2, <2>3
<1>14. CASE UNCHANGED scanVars
  BY <1>2, <1>14 DEF scanVars, scanHistory, WillSchedule
<1>15. QED
  BY <1>3, <1>4, <1>5, <1>6, <1>7, <1>8, <1>9, <1>10, <1>11, <1>12, <1>13, <1>14
     DEF ScanNext, Open, Work

LEMMA ScanStep == ScanInv /\ [ScanNext]_scanVars => ScanInv'
BY ScanTypesStep, WorkerStep, CoveredStep, PresentStep, CallsStep DEF ScanInv

-----------------------------------------------------------------------------
(* Scan states, jobs and handlers are well-formed; an open document is     *)
(* stored.                                                                 *)
THEOREM ScanTypeCorrect == ScanSpec => []ScanTypeOK
<1>1. ScanInv => ScanTypeOK
  BY DEF ScanInv
<1>2. QED
  BY InitScan, ScanStep, <1>1, PTL DEF ScanSpec

(* mark_scan_scheduled may be trusted: a directory marked as scheduled has *)
(* a scan waiting or running, or one that failed.                          *)
THEOREM ScheduledCovered == ScanSpec => []ScheduledIsCovered
<1>1. ScanInv => ScheduledIsCovered
  BY DEF ScanInv
<1>2. QED
  BY InitScan, ScanStep, <1>1, PTL DEF ScanSpec

(* The files of a Completed directory are stored, whatever opens, scans    *)
(* and closes overlap; did_close is the only way out.                      *)
THEOREM CompletedStays == ScanSpec => []CompletedUnlessClosed
<1>1. ScanInv => CompletedUnlessClosed
  BY DEF ScanInv, ParsedPresent, CompletedUnlessClosed
<1>2. QED
  BY InitScan, ScanStep, <1>1, PTL DEF ScanSpec

(* However deep modules are nested and whoever indexes them, a called      *)
(* module is tracked once the handlers and the worker are done.            *)
THEOREM ChildrenAreTracked == ScanSpec => []ChildrenTracked
<1>1. ScanInv => ChildrenTracked
  BY DEF ScanInv, CallsFollowed, WillSchedule, ChildrenTracked, NoScan
<1>2. QED
  BY InitScan, ScanStep, <1>1, PTL DEF ScanSpec

=============================================================================
