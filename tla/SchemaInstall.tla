--------------------------- MODULE SchemaInstall ---------------------------
(***************************************************************************)
(* Provider schemas, installed versions and function signatures of one     *)
(* init root: what FetchSchemas and FetchFunctions jobs install, the       *)
(* background enrichment, and the checks that ask for another fetch        *)
(* (crates/tfls-lsp/src/indexer.rs, backend.rs;                            *)
(* crates/tfls-state/src/store.rs).                                        *)
(*                                                                         *)
(* The worker runs one job at a time; enrichment tasks, the watcher task   *)
(* and the handlers run beside it.  `terraform init` is the environment:   *)
(* a version stands for everything .terraform/providers holds.             *)
(***************************************************************************)
EXTENDS Naturals, Sequences, SequencesExt

CONSTANTS
  MaxInits,   \* bound on the runs of terraform init
  Outcomes,   \* how a fetch ends: "plugin", "cli" (the fallback), "fail"
  Enriches,   \* whether the registry has descriptions to add
  Nothing

ASSUME InstallAssumption ==
  /\ MaxInits \in Nat /\ Outcomes \subseteq {"plugin", "cli", "fail"}
  /\ Enriches \in BOOLEAN /\ Nothing \notin Nat

Versions == 0 .. MaxInits
Kinds == {"schemas", "functions"}
Callers == {"editor", "watcher"}   \* handlers; the LockFileChanged event
Idle == [kind |-> "none", step |-> "begin", version |-> 0]

VARIABLES
  providers,           \* the version on disk, 0 before the first init
  mtime,               \* the modification time of .terraform/providers
  lock_event,          \* whether a LockFileChanged event is under way
  fetched_schema_dirs, \* the time recorded for the root, or Nothing
  checking,            \* the time each caller has just read, or Nothing
  queue,               \* the jobs of this root, in order
  job,                 \* the job the worker runs
  schemas,             \* the installed schemas and who they come from
  installed_version,   \* installed_provider_versions, 0 when unknown
  functions,           \* where the known functions come from
  enriching,           \* versions with an enrichment task under way
  started,             \* whether the second root of initialize was started
  fetched              \* history: the versions the worker has installed

environment == <<providers, mtime>>
installed == <<schemas, installed_version, functions, enriching>>
vars == <<environment, lock_event, fetched_schema_dirs, checking, queue, job,
          installed, started, fetched>>

TypeOK ==
  /\ providers \in Versions /\ mtime \in Versions
  /\ lock_event \in BOOLEAN
  /\ fetched_schema_dirs \in Versions \cup {Nothing}
  /\ checking \in [Callers -> Versions \cup {Nothing}]
  /\ queue \in Seq(Kinds)
  /\ job \in [kind : Kinds \cup {"none"}, version : Versions,
              step : {"begin", "install", "record", "merge", "install_cli", "insert"}]
  /\ schemas \in [version : Versions, source : {"plugin", "cli", "registry"}]
  /\ installed_version \in Versions
  /\ functions \subseteq {"builtin", "provider"}
  /\ enriching \subseteq Versions
  /\ started \in BOOLEAN
  /\ fetched \subseteq Versions

(* JobQueue::enqueue, at one priority, of a job not waiting already.       *)
Enqueued(waiting, kind) ==
  IF kind \in ToSet(waiting) THEN waiting ELSE Append(waiting, kind)

(* spawn_workspace_watcher: the schema fetch first, then the functions.    *)
StartedUp(waiting) == Enqueued(Enqueued(waiting, "schemas"), "functions")

Init ==
  /\ providers \in {0, 1} /\ providers <= MaxInits
  /\ mtime = providers
  /\ lock_event = FALSE
  /\ fetched_schema_dirs = Nothing
  /\ checking = [c \in Callers |-> Nothing]
  /\ queue = StartedUp(<<>>)
  /\ job = Idle
  /\ schemas = [version |-> 0, source |-> "plugin"]
  /\ installed_version = 0
  /\ functions = {}
  /\ enriching = {}
  /\ started = FALSE
  /\ fetched = {}

(* initialize starts root_uri after the workspace folders: the same root.  *)
StartRootUri ==
  /\ ~started
  /\ started' = TRUE
  /\ queue' = StartedUp(queue)
  /\ UNCHANGED <<environment, lock_event, fetched_schema_dirs, checking, job, installed, fetched>>

(* An upgrade deep in the tree need not touch the directory itself.        *)
TerraformInit ==
  /\ providers < MaxInits
  /\ providers' = providers + 1
  /\ mtime' \in {mtime, providers + 1}
  /\ lock_event' = TRUE
  /\ UNCHANGED <<fetched_schema_dirs, checking, queue, job, installed, started, fetched>>

-----------------------------------------------------------------------------
(* maybe_enqueue_schema_fetch, called by did_open, did_save and the watcher *)

ReadMtime(c) ==
  /\ checking[c] = Nothing /\ providers > 0
  /\ c = "watcher" => lock_event
  /\ lock_event' = IF c = "watcher" THEN FALSE ELSE lock_event
  /\ fetched_schema_dirs' = IF c = "watcher" THEN Nothing ELSE fetched_schema_dirs
  /\ checking' = [checking EXCEPT ![c] = mtime]
  /\ UNCHANGED <<environment, queue, job, installed, started, fetched>>

(* Faulty: the time is not recorded, or compared, per fetch.               *)
AskForFetchOnce(c) ==
  /\ checking[c] # Nothing
  /\ fetched_schema_dirs' = checking[c]
  /\ queue' = IF installed_version > 0 THEN queue ELSE Enqueued(queue, "schemas")
  /\ checking' = [checking EXCEPT ![c] = Nothing]
  /\ UNCHANGED <<environment, lock_event, job, installed, started, fetched>>

(* The time is recorded before the job is queued, and whatever comes of it. *)
AskForFetch(c) ==
  /\ checking[c] # Nothing
  /\ fetched_schema_dirs' = checking[c]
  /\ queue' = IF fetched_schema_dirs = checking[c] THEN queue ELSE Enqueued(queue, "schemas")
  /\ checking' = [checking EXCEPT ![c] = Nothing]
  /\ UNCHANGED <<environment, lock_event, job, installed, started, fetched>>

-----------------------------------------------------------------------------
(* The worker.                                                             *)

aside == <<environment, lock_event, fetched_schema_dirs, checking, started>>

TakeJob ==
  /\ job = Idle /\ queue # <<>>
  /\ job' = [Idle EXCEPT !.kind = Head(queue)]
  /\ queue' = Tail(queue)
  /\ UNCHANGED <<aside, installed, fetched>>

(* fetch_and_install_schemas: the plugins answer, or the CLI does, or the  *)
(* fetch fails and the job ends.                                           *)
Fetch ==
  /\ job.kind = "schemas" /\ job.step = "begin"
  /\ \E outcome \in IF providers = 0 THEN {"fail"} ELSE Outcomes :
       job' = CASE outcome = "plugin" -> [job EXCEPT !.step = "install", !.version = providers]
                [] outcome = "cli" -> [job EXCEPT !.step = "install_cli", !.version = providers]
                [] outcome = "fail" -> Idle
  /\ UNCHANGED <<aside, queue, installed, fetched>>

InstallSchemas ==
  /\ job.step = "install"
  /\ schemas' = [version |-> job.version, source |-> "plugin"]
  /\ job' = [job EXCEPT !.step = "record"]
  /\ fetched' = fetched \cup {job.version}
  /\ UNCHANGED <<aside, queue, installed_version, functions, enriching>>

(* Faulty: only a version that was not installed yet gets enriched.        *)
RecordInstalledVersionOnce ==
  /\ job.step = "record"
  /\ installed_version' = job.version
  /\ enriching' = IF installed_version = job.version THEN enriching
                  ELSE enriching \cup {job.version}
  /\ job' = [job EXCEPT !.step = "merge"]
  /\ UNCHANGED <<aside, queue, schemas, functions, fetched>>

(* record_installed_version, then spawn_background_enrichment.             *)
RecordInstalledVersion ==
  /\ job.step = "record"
  /\ installed_version' = job.version
  /\ enriching' = enriching \cup {job.version}
  /\ job' = [job EXCEPT !.step = "merge"]
  /\ UNCHANGED <<aside, queue, schemas, functions, fetched>>

MergeFunctions ==
  /\ job.step = "merge"
  /\ functions' = functions \cup {"provider"}
  /\ job' = Idle
  /\ UNCHANGED <<aside, queue, schemas, installed_version, enriching, fetched>>

(* The CLI's schemas come without versions, enrichment or functions.       *)
InstallCliSchemas ==
  /\ job.step = "install_cli"
  /\ schemas' = [version |-> job.version, source |-> "cli"]
  /\ job' = Idle
  /\ fetched' = fetched \cup {job.version}
  /\ UNCHANGED <<aside, queue, installed_version, functions, enriching>>

(* install_functions replaces the whole set: clear, then insert.           *)
ClearFunctions ==
  /\ job.kind = "functions" /\ job.step = "begin"
  /\ functions' = {}
  /\ job' = [job EXCEPT !.step = "insert"]
  /\ UNCHANGED <<aside, queue, schemas, installed_version, enriching, fetched>>

InsertFunctions ==
  /\ job.step = "insert"
  /\ functions' = functions \cup {"builtin"}
  /\ job' = Idle
  /\ UNCHANGED <<aside, queue, schemas, installed_version, enriching, fetched>>

(* The enrichment task re-installs its own copy of the schemas.            *)
Enrich(v) ==
  /\ v \in enriching
  /\ enriching' = enriching \ {v}
  /\ schemas' = IF Enriches THEN [version |-> v, source |-> "registry"] ELSE schemas
  /\ UNCHANGED <<aside, queue, job, installed_version, functions, fetched>>

-----------------------------------------------------------------------------
Worker ==
  \/ TakeJob \/ Fetch \/ InstallSchemas \/ RecordInstalledVersion \/ MergeFunctions
  \/ InstallCliSchemas \/ ClearFunctions \/ InsertFunctions

Checks(c) == ReadMtime(c) \/ AskForFetch(c)

Next ==
  \/ StartRootUri \/ TerraformInit
  \/ \E c \in Callers : Checks(c)
  \/ Worker
  \/ \E v \in Versions : Enrich(v)

Spec == Init /\ [][Next]_vars

(* The worker and the watcher are tasks of the runtime and always get to   *)
(* run; nothing obliges the user to open, save or init.                    *)
FairSpec == Spec /\ WF_vars(Worker) /\ WF_vars(Checks("watcher"))

-----------------------------------------------------------------------------
Quiescent ==
  /\ queue = <<>> /\ job = Idle /\ enriching = {} /\ ~lock_event
  /\ \A c \in Callers : checking[c] = Nothing

(* When all is done, the schemas the worker left installed are those of    *)
(* the providers on disk, whatever fetches and inits overlapped: an init   *)
(* that lands during a fetch is not lost (fetched_schema_dirs,             *)
(* LockFileChanged).  A slow enrichment may put older ones back.           *)
SchemasCurrent ==
  Quiescent /\ schemas.source # "registry" => schemas.version = providers

(* When all is done, the schemas of the plugins carry the registry's       *)
(* descriptions: no re-install of bare schemas outlives the enrichment it  *)
(* triggers.                                                               *)
EnrichedInTheEnd ==
  Quiescent /\ schemas.version > 0 => schemas.source # "plugin"

(* Every init is noticed: its providers' schemas, or newer ones, get       *)
(* installed without the user doing anything.                              *)
InitNoticed ==
  \A v \in Versions \ {0} : providers = v ~> \E w \in fetched : w >= v

(* Once the schemas of a provider are in, so are its functions (README.md: *)
(* completion of "provider-defined functions").                            *)
ProviderFunctionsKnown ==
  Quiescent /\ schemas.version > 0 => "provider" \in functions
=============================================================================
