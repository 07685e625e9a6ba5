---------------------------- MODULE ScanTracker ----------------------------
(***************************************************************************)
(* Which directories get indexed: the scan states of the store             *)
(* (dir_scans, mark_scan_* in crates/tfls-state/src/store.rs), the scans   *)
(* the worker runs and the requests did_open makes                         *)
(* (crates/tfls-lsp/src/indexer.rs, tfls-engine/src/index.rs).             *)
(*                                                                         *)
(* Marking a directory and queueing its scan have no await between them    *)
(* and no other task can tell them apart from one step.  The text of a     *)
(* file does not change here; the order of waiting directory scans, all of *)
(* them ahead of the bulk scan, is left open.                              *)
(***************************************************************************)
EXTENDS FiniteSets

CONSTANTS
  Dirs, Files,
  DirOf,       \* DirOf[f]: the directory of a file
  CallsOf,     \* CallsOf[f]: the directories its module blocks call
  Workspace,   \* the directories the bulk scan discovers
  Handlers,    \* did_open handlers on blocking threads
  None

ASSUME ScanAssumption ==
  /\ DirOf \in [Files -> Dirs] /\ CallsOf \in [Files -> SUBSET Dirs]
  /\ Workspace \subseteq Dirs /\ None \notin Dirs

States == {"untracked", "scheduled", "completed"}
NoScan == [step |-> "idle", dirs |-> {}, bulk |-> FALSE]

VARIABLES
  dir_scans,   \* the scan state of each directory
  documents,   \* the files in the store
  open_docs,
  scan_queue,       \* the directories with a ScanDirectory job waiting
  bulk_queued, \* whether the BulkWorkspaceScan job waits
  worker,      \* the job the worker runs and its directories still to do
  opener,      \* the directory each did_open handler is at, and its step
  failed,      \* history: directories whose last scan failed,
  bulk_done,   \* ... those the bulk scan completed,
  closed       \* ... and files closed since they were last stored

scanHistory == <<failed, bulk_done, closed>>
scanVars == <<dir_scans, documents, open_docs, scan_queue, bulk_queued, worker, opener, scanHistory>>

FilesIn(dirs) == {f \in Files : DirOf[f] \in dirs}

ScanTypeOK ==
  /\ dir_scans \in [Dirs -> States]
  /\ documents \subseteq Files /\ open_docs \subseteq documents
  /\ scan_queue \subseteq Dirs /\ bulk_queued \in BOOLEAN
  /\ worker \in [step : {"idle", "discover", "parse", "complete", "children"},
                 dirs : SUBSET Dirs, bulk : BOOLEAN]
  /\ opener \in [Handlers -> [step : {"idle", "index", "schedule", "children"},
                              dir : Dirs \cup {None}]]
  /\ failed \subseteq Dirs /\ bulk_done \subseteq Dirs
  /\ closed \subseteq Files \ documents

ScanInit ==
  /\ dir_scans = [d \in Dirs |-> "untracked"]
  /\ documents = {} /\ open_docs = {}
  /\ scan_queue = {} /\ bulk_queued = (Workspace # {})
  /\ worker = NoScan
  /\ opener = [h \in Handlers |-> [step |-> "idle", dir |-> None]]
  /\ failed = {} /\ bulk_done = {} /\ closed = {}

-----------------------------------------------------------------------------
(* Faulty: a directory is scheduled again although it is tracked.          *)
ScheduleAnew(dirs) ==
  /\ dir_scans' = [d \in Dirs |-> IF d \in dirs THEN "scheduled" ELSE dir_scans[d]]
  /\ scan_queue' = scan_queue \cup {d \in dirs : dir_scans[d] = "untracked"}

(* mark_scan_scheduled; whoever tracks the directory first queues its scan. *)
Schedule(dirs) ==
  LET fresh == {d \in dirs : dir_scans[d] = "untracked"}
  IN /\ dir_scans' = [d \in Dirs |-> IF d \in fresh THEN "scheduled" ELSE dir_scans[d]]
     /\ scan_queue' = scan_queue \cup fresh

(* Faulty: only the directory's own file is asked for its calls.           *)
CalledFromOpen(d) == UNION {CallsOf[f] : f \in open_docs \cap FilesIn({d})}

(* enqueue_child_module_scans: the module sources of what is stored.       *)
CalledFrom(d) == UNION {CallsOf[f] : f \in documents \cap FilesIn({d})}

-----------------------------------------------------------------------------
(* did_open and did_close.                                                 *)

scanState == <<dir_scans, scan_queue, bulk_queued, worker, failed, bulk_done>>

(* Files enter the store.                                                  *)
Store(files) ==
  /\ documents' = documents \cup files
  /\ closed' = closed \ files

DidOpen(h, f) ==
  /\ opener[h].step = "idle" /\ f \notin open_docs
  /\ open_docs' = open_docs \cup {f}
  /\ Store({f})
  /\ opener' = [opener EXCEPT ![h] = [step |-> "index", dir |-> DirOf[f]]]
  /\ UNCHANGED scanState

DidClose(f) ==
  /\ f \in open_docs
  /\ open_docs' = open_docs \ {f}
  /\ documents' = documents \ {f}
  /\ closed' = closed \cup {f}
  /\ UNCHANGED <<scanState, opener>>

(* index_module_dir_sync stores the neighbours, and marks nothing.         *)
IndexModule(h) ==
  /\ opener[h].step = "index"
  /\ Store(FilesIn({opener[h].dir}))
  /\ opener' = [opener EXCEPT ![h].step = "schedule"]
  /\ UNCHANGED <<scanState, open_docs>>

ScheduleOwn(h) ==
  /\ opener[h].step = "schedule"
  /\ Schedule({opener[h].dir})
  /\ opener' = [opener EXCEPT ![h].step = "children"]
  /\ UNCHANGED <<documents, open_docs, bulk_queued, worker, scanHistory>>

ScheduleChildren(h) ==
  /\ opener[h].step = "children"
  /\ Schedule(CalledFrom(opener[h].dir))
  /\ opener' = [opener EXCEPT ![h] = [step |-> "idle", dir |-> None]]
  /\ UNCHANGED <<documents, open_docs, bulk_queued, worker, scanHistory>>

-----------------------------------------------------------------------------
(* The worker: scan_dir_into_state and bulk_workspace_scan.                *)

TakeScan(d) ==
  /\ worker = NoScan /\ d \in scan_queue
  /\ scan_queue' = scan_queue \ {d}
  /\ worker' = [step |-> "discover", dirs |-> {d}, bulk |-> FALSE]
  /\ UNCHANGED <<dir_scans, documents, open_docs, bulk_queued, opener, scanHistory>>

TakeBulk ==
  /\ worker = NoScan /\ scan_queue = {} /\ bulk_queued
  /\ bulk_queued' = FALSE
  /\ worker' = [step |-> "discover", dirs |-> Workspace, bulk |-> TRUE]
  /\ UNCHANGED <<dir_scans, documents, open_docs, scan_queue, opener, scanHistory>>

(* The bulk scan marks what it discovers, and queues nothing.              *)
Discover ==
  /\ worker.step = "discover"
  /\ dir_scans' = [d \in Dirs |-> IF d \in worker.dirs /\ dir_scans[d] = "untracked"
                                    THEN "scheduled" ELSE dir_scans[d]]
  /\ worker' = [worker EXCEPT !.step = "parse"]
  /\ UNCHANGED <<documents, open_docs, scan_queue, bulk_queued, opener, scanHistory>>

(* Discovery fails, or the job panics before the directories are marked    *)
(* completed; nobody tries again.                                          *)
ScanFails ==
  /\ worker.step \in {"discover", "parse"}
  /\ failed' = failed \cup worker.dirs
  /\ worker' = NoScan
  /\ UNCHANGED <<dir_scans, documents, open_docs, scan_queue, bulk_queued, opener, bulk_done, closed>>

(* Faulty: the files are marked present before they are parsed.            *)
ParseNothing ==
  /\ worker.step = "parse"
  /\ worker' = [worker EXCEPT !.step = "complete"]
  /\ UNCHANGED <<dir_scans, documents, open_docs, scan_queue, bulk_queued, opener, scanHistory>>

(* parse_and_upsert_files: open files are in the store already.            *)
ParseAll ==
  /\ worker.step = "parse"
  /\ Store(FilesIn(worker.dirs))
  /\ worker' = [worker EXCEPT !.step = "complete"]
  /\ UNCHANGED <<dir_scans, open_docs, scan_queue, bulk_queued, opener, failed, bulk_done>>

(* mark_scan_completed, one directory after the other.                     *)
Complete(d) ==
  /\ worker.step = "complete" /\ d \in worker.dirs
  /\ dir_scans' = [dir_scans EXCEPT ![d] = "completed"]
  /\ failed' = failed \ {d}
  /\ bulk_done' = IF worker.bulk THEN bulk_done \cup {d} ELSE bulk_done
  /\ worker' = IF ~worker.bulk THEN [worker EXCEPT !.step = "children"]
               ELSE IF worker.dirs = {d} THEN NoScan
               ELSE [worker EXCEPT !.dirs = @ \ {d}]
  /\ UNCHANGED <<documents, open_docs, scan_queue, bulk_queued, opener, closed>>

(* Only the scan of a single directory goes on to its child modules.       *)
ScanChildren ==
  /\ worker.step = "children"
  /\ Schedule(UNION {CalledFrom(d) : d \in worker.dirs})
  /\ worker' = NoScan
  /\ UNCHANGED <<documents, open_docs, bulk_queued, opener, scanHistory>>

-----------------------------------------------------------------------------
Work ==
  \/ \E d \in Dirs : TakeScan(d) \/ Complete(d)
  \/ TakeBulk \/ Discover \/ ScanFails \/ ParseAll \/ ScanChildren

Open(h) ==
  \/ \E f \in Files : DidOpen(h, f)
  \/ IndexModule(h) \/ ScheduleOwn(h) \/ ScheduleChildren(h)

ScanNext ==
  \/ \E h \in Handlers : Open(h)
  \/ \E f \in Files : DidClose(f)
  \/ Work

ScanSpec == ScanInit /\ [][ScanNext]_scanVars

(* The worker task always gets to run.                                     *)
FairScanSpec == ScanSpec /\ WF_scanVars(Work)

-----------------------------------------------------------------------------
(* A scheduled directory has a scan waiting or running, so that whoever    *)
(* finds it tracked may skip it (mark_scan_scheduled: "a scan is either in *)
(* flight or has already run"); a failed scan is the one exception.        *)
ScheduledIsCovered ==
  \A d \in Dirs : dir_scans[d] = "scheduled" =>
    d \in scan_queue \/ d \in worker.dirs \/ d \in failed

(* Only a close can take a file of a completed directory out of the store: *)
(* no overlap of opens, module indexing, scans and the bulk scan does.     *)
CompletedUnlessClosed ==
  \A d \in Dirs : dir_scans[d] = "completed" => FilesIn({d}) \subseteq documents \cup closed

(* With nothing left to do, the modules that a scanned directory calls are *)
(* tracked too, however they are nested (module.rs: the indexer "populates *)
(* these recursively via enqueue_child_module_scans"); the bulk scan alone *)
(* does not see to it.                                                     *)
ChildrenTracked ==
  (worker = NoScan /\ scan_queue = {} /\ \A h \in Handlers : opener[h].step = "idle") =>
    \A d \in Dirs \ bulk_done : dir_scans[d] = "completed" =>
      \A f \in documents \cap FilesIn({d}), c \in Dirs :
        c \in CallsOf[f] => dir_scans[c] # "untracked"

(* Every scheduled scan comes to an end, completed or failed.              *)
ScansEnd ==
  \A d \in Dirs : dir_scans[d] = "scheduled" ~> dir_scans[d] = "completed" \/ d \in failed
=============================================================================
