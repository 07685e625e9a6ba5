----------------------------- MODULE IndexCache -----------------------------
(***************************************************************************)
(* The persistent index cache (crates/tfls-state/src/index_cache.rs) over  *)
(* crashes and restarts: what the bulk workspace scan (tfls-lsp/src/       *)
(* indexer.rs) hydrates from it, parses and captures into it, while the    *)
(* files change, the watcher comes up and the editor opens and edits them. *)
(*                                                                         *)
(* Several servers may run on one workspace and share the cache file.  A   *)
(* text stands for its symbols too; a stamp is what stat tells of a file,  *)
(* modification time and size, and two texts may carry the same stamp (a   *)
(* checkout or a backup restored).  The open check of an upsert and the    *)
(* upsert are one step here; DocumentSync takes them apart.                *)
(***************************************************************************)
EXTENDS Naturals, Sequences, TLC

CONSTANTS
  Servers,      \* server processes on the workspace, each with its pid, started once
  Files,
  Texts,
  Broken,       \* texts the recovering parser finds no body in
  Stamps,
  MaxWrites,    \* bounds: how often the disk changes
  MaxEdits,     \* ... and the editors edit a buffer
  NoFile, NoDocument, NoEntry, NoCache, Partial

ASSUME IndexCacheAssumption ==
  /\ Broken \subseteq Texts
  /\ {MaxWrites, MaxEdits} \subseteq Nat

OnDisk == [text : Texts, stamp : Stamps]
Document == [text : Texts, symbols : Texts, body : BOOLEAN]
CacheEntry == [stamp : Stamps, hash : Texts, symbols : Texts]
Capture == [Files -> CacheEntry \cup {NoEntry}]

ASSUME NothingAssumption ==
  /\ NoFile \notin OnDisk /\ NoDocument \notin Document /\ NoEntry \notin CacheEntry
  /\ {NoCache, Partial} \cap Capture = {} /\ NoCache # Partial

VARIABLES
  disk,         \* the workspace's files
  cache,        \* the cache file
  temp,         \* the temporary files next to it, by the pid in their name
  aged,         \* those last written a minute ago or more
  phase,        \* how far each server's bulk scan is
  todo,         \* the files its present loop has still to visit
  entries,      \* the entries it loaded, or those captured so far
  loading,      \* documents built and not yet upserted
  documents,
  open_docs,
  watching,     \* whether its watcher is up
  events,       \* what the watcher saw and its task has not handled
  jobs,         \* files with a ParseFile job in the queue
  unseen,       \* history: files whose last change this server cannot know of
  writes, edits

diskVars == <<disk, writes>>
cacheVars == <<cache, temp, aged>>
scanVars == <<phase, todo, entries>>
storeVars == <<documents, open_docs, edits>>
watchVars == <<watching, events, jobs>>
vars == <<diskVars, cacheVars, scanVars, loading, storeVars, watchVars, unseen>>

Phases == {"new", "dead", "load", "hydrate", "scan", "capture", "write", "rename", "run"}

TypeOK ==
  /\ disk \in [Files -> OnDisk \cup {NoFile}]
  /\ cache \in Capture \cup {NoCache, Partial}
  /\ temp \in [Servers -> Capture \cup {NoCache, Partial}]
  /\ aged \subseteq Servers
  /\ phase \in [Servers -> Phases]
  /\ todo \in [Servers -> SUBSET Files]
  /\ entries \in [Servers -> Capture]
  /\ loading \in [Servers -> [Files -> Document \cup {NoDocument}]]
  /\ documents \in [Servers -> [Files -> Document \cup {NoDocument}]]
  /\ open_docs \in [Servers -> SUBSET Files]
  /\ watching \in [Servers -> BOOLEAN]
  /\ events \in [Servers -> Seq({"changed", "removed"} \X Files)]
  /\ jobs \in [Servers -> SUBSET Files]
  /\ unseen \in [Servers -> SUBSET Files]
  /\ writes \in 0 .. MaxWrites /\ edits \in 0 .. MaxEdits

NoEntries == [f \in Files |-> NoEntry]
NoDocuments == [f \in Files |-> NoDocument]

Init ==
  /\ \E t \in Texts \ Broken, m \in Stamps : disk = [f \in Files |-> [text |-> t, stamp |-> m]]
  /\ cache = NoCache /\ temp = [s \in Servers |-> NoCache] /\ aged = {}
  /\ phase = [s \in Servers |-> "new"] /\ todo = [s \in Servers |-> {}]
  /\ entries = [s \in Servers |-> NoEntries]
  /\ loading = [s \in Servers |-> NoDocuments]
  /\ documents = [s \in Servers |-> NoDocuments]
  /\ open_docs = [s \in Servers |-> {}]
  /\ watching = [s \in Servers |-> FALSE]
  /\ events = [s \in Servers |-> <<>>]
  /\ jobs = [s \in Servers |-> {}]
  /\ unseen = [s \in Servers |-> {}]
  /\ writes = 0 /\ edits = 0

-----------------------------------------------------------------------------
(* Documents.                                                              *)

Parsed(t) == [text |-> t, symbols |-> t, body |-> t \notin Broken]

(* reparse keeps the symbols it has when the new text has no body.         *)
Reparsed(doc, t) ==
  [text |-> t, symbols |-> IF t \in Broken THEN doc.symbols ELSE t, body |-> t \notin Broken]

(* Faulty: modification time and size alone identify a text.               *)
MatchesByStamp(entry, file) == file.stamp = entry.stamp

(* An entry counts when its file still has its stamp and its text.         *)
Matches(entry, file) == file.stamp = entry.stamp /\ file.text = entry.hash

Hydrated(entry, file) == [text |-> file.text, symbols |-> entry.symbols, body |-> FALSE]

EntryOf(doc, file) == [stamp |-> file.stamp, hash |-> doc.text, symbols |-> doc.symbols]

-----------------------------------------------------------------------------
(* The bulk workspace scan, a job of the server's one worker.              *)

Alive(s) == phase[s] \notin {"new", "dead"}

Enter(s, next, files) ==
  /\ phase' = [phase EXCEPT ![s] = next]
  /\ todo' = [todo EXCEPT ![s] = files]

Loaded(s) == todo[s] = {} /\ loading[s] = NoDocuments

Load(s, f, doc) ==
  /\ loading' = [loading EXCEPT ![s][f] = doc]
  /\ unseen' = [unseen EXCEPT ![s] = @ \ {f}]

(* IndexCache::load: no file, or one that does not parse, is no cache.     *)
LoadCache(s) ==
  /\ phase[s] = "load"
  /\ IF cache \in Capture
     THEN /\ entries' = [entries EXCEPT ![s] = cache]
          /\ Enter(s, "hydrate", {f \in Files : cache[f] # NoEntry})
     ELSE Enter(s, "hydrate", {}) /\ UNCHANGED entries
  /\ UNCHANGED <<diskVars, cacheVars, loading, storeVars, watchVars, unseen>>

(* hydrate_into_store, entry by entry, up to the upsert.                   *)
HydrateFile(s, f) ==
  /\ phase[s] = "hydrate" /\ f \in todo[s] /\ loading[s] = NoDocuments
  /\ Enter(s, "hydrate", todo[s] \ {f})
  /\ IF disk[f] # NoFile /\ Matches(entries[s][f], disk[f]) /\ documents[s][f] = NoDocument
     THEN Load(s, f, Hydrated(entries[s][f], disk[f]))
     ELSE UNCHANGED <<loading, unseen>>
  /\ UNCHANGED <<diskVars, cacheVars, entries, storeVars, watchVars>>

(* Discovery, and the scan's skip set: open files and those with a body.   *)
Discover(s) ==
  /\ phase[s] = "hydrate" /\ Loaded(s)
  /\ Enter(s, "scan", {f \in Files :
       /\ disk[f] # NoFile /\ f \notin open_docs[s]
       /\ documents[s][f] = NoDocument \/ ~documents[s][f].body})
  /\ UNCHANGED <<diskVars, cacheVars, entries, loading, storeVars, watchVars, unseen>>

(* One unreadable directory ends the job: nothing is scanned or saved.     *)
DiscoveryFails(s) ==
  /\ phase[s] = "hydrate" /\ Loaded(s)
  /\ Enter(s, "run", {})
  /\ UNCHANGED <<diskVars, cacheVars, entries, loading, storeVars, watchVars, unseen>>

ScanFile(s, f) ==
  /\ phase[s] = "scan" /\ f \in todo[s]
  /\ Enter(s, "scan", todo[s] \ {f})
  /\ IF disk[f] = NoFile THEN UNCHANGED <<loading, unseen>>
                         ELSE Load(s, f, Parsed(disk[f].text))
  /\ UNCHANGED <<diskVars, cacheVars, entries, storeVars, watchVars>>

EndScan(s) ==
  /\ phase[s] = "scan" /\ Loaded(s)
  /\ Enter(s, "capture", Files)
  /\ entries' = [entries EXCEPT ![s] = NoEntries]
  /\ UNCHANGED <<diskVars, cacheVars, loading, storeVars, watchVars, unseen>>

(* IndexCache::capture, document by document, each under its own guard.    *)
CaptureFile(s, f) ==
  /\ phase[s] = "capture" /\ f \in todo[s]
  /\ Enter(s, "capture", todo[s] \ {f})
  /\ IF documents[s][f] = NoDocument \/ disk[f] = NoFile
     THEN UNCHANGED entries
     ELSE entries' = [entries EXCEPT ![s][f] = EntryOf(documents[s][f], disk[f])]
  /\ UNCHANGED <<diskVars, cacheVars, loading, storeVars, watchVars, unseen>>

-----------------------------------------------------------------------------
(* IndexCache::save.                                                       *)

saveUnchanged ==
  UNCHANGED <<diskVars, todo, entries, loading, storeVars, watchVars, unseen>>

SaveStep(s, from, to) == phase[s] = from /\ phase' = [phase EXCEPT ![s] = to]

(* Faulty: one name for the temporary file, whoever writes it.             *)
TempShared(s) == CHOOSE any \in Servers : TRUE

TempOf(s) == s

(* sweep_stale_temps, and the temporary file is created or truncated.      *)
SweepAndCreate(s) ==
  /\ todo[s] = {} /\ SaveStep(s, "capture", "write")
  /\ temp' = [p \in Servers |-> IF p = TempOf(s) THEN Partial
                                ELSE IF p \in aged THEN NoCache ELSE temp[p]]
  /\ aged' = {}
  /\ UNCHANGED cache /\ saveUnchanged

(* A temporary file that was swept meanwhile has lost its name.            *)
WriteTemp(s) ==
  /\ SaveStep(s, "write", "rename")
  /\ temp' = [temp EXCEPT ![TempOf(s)] = IF @ = NoCache THEN NoCache ELSE entries[s]]
  /\ aged' = aged \ {TempOf(s)}
  /\ UNCHANGED cache /\ saveUnchanged

WriteTempFails(s) ==
  /\ SaveStep(s, "write", "run")
  /\ UNCHANGED cacheVars /\ saveUnchanged

RenameTemp(s) ==
  /\ SaveStep(s, "rename", "run")
  /\ temp[TempOf(s)] # NoCache
  /\ cache' = temp[TempOf(s)]
  /\ temp' = [temp EXCEPT ![TempOf(s)] = NoCache]
  /\ aged' = aged \ {TempOf(s)}
  /\ saveUnchanged

RenameFails(s) ==
  /\ SaveStep(s, "rename", "run")
  /\ temp' = [temp EXCEPT ![TempOf(s)] = NoCache]
  /\ aged' = aged \ {TempOf(s)}
  /\ UNCHANGED cache /\ saveUnchanged

Save(s) == SweepAndCreate(s) \/ WriteTemp(s) \/ WriteTempFails(s) \/ RenameTemp(s) \/ RenameFails(s)

BulkScan(s) ==
  \/ LoadCache(s) \/ Discover(s) \/ DiscoveryFails(s)
  \/ EndScan(s) \/ Save(s)
  \/ \E f \in Files : HydrateFile(s, f) \/ ScanFile(s, f) \/ CaptureFile(s, f)

-----------------------------------------------------------------------------
(* The store and the watcher.                                              *)

(* Faulty: a document that is stored already is not overwritten.           *)
RefusesStored(s, f) == f \in open_docs[s] \/ documents[s][f] # NoDocument

Refuses(s, f) == f \in open_docs[s]

(* upsert_document_unless_open; the scan upserts once all files are read.  *)
Upsert(s, f) ==
  /\ loading[s][f] # NoDocument
  /\ phase[s] = "scan" => todo[s] = {}
  /\ loading' = [loading EXCEPT ![s][f] = NoDocument]
  /\ documents' = IF Refuses(s, f) THEN documents
                  ELSE [documents EXCEPT ![s][f] = loading[s][f]]
  /\ UNCHANGED <<diskVars, cacheVars, scanVars, open_docs, edits, watchVars, unseen>>

(* spawn_watcher, after the scan has been enqueued.                        *)
StartWatching(s) ==
  /\ Alive(s) /\ ~watching[s]
  /\ watching' = [watching EXCEPT ![s] = TRUE]
  /\ UNCHANGED <<diskVars, cacheVars, scanVars, loading, storeVars, events, jobs, unseen>>

HandleChanged(s) ==
  /\ events[s] # <<>> /\ Head(events[s])[1] = "changed"
  /\ events' = [events EXCEPT ![s] = Tail(@)]
  /\ jobs' = [jobs EXCEPT ![s] = @ \cup {Head(events[s])[2]}]
  /\ UNCHANGED <<diskVars, cacheVars, scanVars, loading, storeVars, watching, unseen>>

(* handle_disk_removal; a load under way brings the file back unseen.      *)
HandleRemoved(s) ==
  /\ events[s] # <<>> /\ Head(events[s])[1] = "removed"
  /\ events' = [events EXCEPT ![s] = Tail(@)]
  /\ LET f == Head(events[s])[2] IN
       /\ documents' = IF f \in open_docs[s] THEN documents
                       ELSE [documents EXCEPT ![s][f] = NoDocument]
       /\ unseen' = IF loading[s][f] = NoDocument THEN unseen
                    ELSE [unseen EXCEPT ![s] = @ \cup {f}]
  /\ UNCHANGED <<diskVars, cacheVars, scanVars, loading, open_docs, edits, watching, jobs>>

(* parse_file_into_state, once the worker is done with the bulk scan.      *)
ParseFile(s, f) ==
  /\ phase[s] = "run" /\ f \in jobs[s] /\ loading[s] = NoDocuments
  /\ jobs' = [jobs EXCEPT ![s] = @ \ {f}]
  /\ IF disk[f] = NoFile THEN UNCHANGED <<loading, unseen>>
                         ELSE Load(s, f, Parsed(disk[f].text))
  /\ UNCHANGED <<diskVars, cacheVars, scanVars, storeVars, watching, events>>

Follow(s) ==
  \/ StartWatching(s) \/ HandleChanged(s) \/ HandleRemoved(s)
  \/ \E f \in Files : Upsert(s, f) \/ ParseFile(s, f)

-----------------------------------------------------------------------------
(* The editors, the rest of the machine, crashes.                          *)

bufferUnchanged == UNCHANGED <<diskVars, cacheVars, scanVars, loading, watchVars, unseen>>

Open(s, f) ==
  /\ Alive(s) /\ f \notin open_docs[s] /\ disk[f] # NoFile /\ edits < MaxEdits
  /\ open_docs' = [open_docs EXCEPT ![s] = @ \cup {f}]
  /\ documents' = [documents EXCEPT ![s][f] = Parsed(disk[f].text)]
  /\ UNCHANGED edits /\ bufferUnchanged

Edit(s, f, t) ==
  /\ f \in open_docs[s] /\ edits < MaxEdits
  /\ edits' = edits + 1
  /\ documents' = IF documents[s][f] = NoDocument THEN documents
                  ELSE [documents EXCEPT ![s][f] = Reparsed(@, t)]
  /\ UNCHANGED open_docs /\ bufferUnchanged

Close(s, f) ==
  /\ f \in open_docs[s]
  /\ open_docs' = [open_docs EXCEPT ![s] = @ \ {f}]
  /\ documents' = [documents EXCEPT ![s][f] = NoDocument]
  /\ UNCHANGED edits /\ bufferUnchanged

Notify(kind, f) ==
  /\ events' = [s \in Servers |-> IF watching[s] THEN Append(events[s], <<kind, f>>)
                                                 ELSE events[s]]
  /\ unseen' = [s \in Servers |-> IF Alive(s) /\ ~watching[s] THEN unseen[s] \cup {f}
                                                           ELSE unseen[s]]
  /\ UNCHANGED <<cacheVars, scanVars, loading, storeVars, watching, jobs>>

DiskChanges(f, file) ==
  /\ writes < MaxWrites /\ disk[f] # file
  /\ writes' = writes + 1
  /\ disk' = [disk EXCEPT ![f] = file]
  /\ Notify("changed", f)

DiskRemoves(f) ==
  /\ writes < MaxWrites /\ disk[f] # NoFile
  /\ writes' = writes + 1
  /\ disk' = [disk EXCEPT ![f] = NoFile]
  /\ Notify("removed", f)

Start(s) ==
  /\ phase[s] = "new"
  /\ Enter(s, "load", {})
  /\ UNCHANGED <<diskVars, cacheVars, entries, loading, storeVars, watchVars, unseen>>

(* Nothing of a server but the files it wrote outlives it.                 *)
Crash(s) ==
  /\ Alive(s)
  /\ Enter(s, "dead", {})
  /\ entries' = [entries EXCEPT ![s] = NoEntries]
  /\ loading' = [loading EXCEPT ![s] = NoDocuments]
  /\ documents' = [documents EXCEPT ![s] = NoDocuments]
  /\ open_docs' = [open_docs EXCEPT ![s] = {}]
  /\ watching' = [watching EXCEPT ![s] = FALSE]
  /\ events' = [events EXCEPT ![s] = <<>>]
  /\ jobs' = [jobs EXCEPT ![s] = {}]
  /\ unseen' = [unseen EXCEPT ![s] = {}]
  /\ UNCHANGED <<diskVars, cacheVars, edits>>

(* A minute goes by, for an orphan or for a writer that was suspended.     *)
TempAges(s) ==
  /\ temp[s] # NoCache /\ s \notin aged
  /\ aged' = aged \cup {s}
  /\ UNCHANGED <<diskVars, cache, temp, scanVars, loading, storeVars, watchVars, unseen>>

Environment ==
  \/ \E s \in Servers : Start(s) \/ Crash(s) \/ TempAges(s)
  \/ \E f \in Files : DiskRemoves(f) \/ \E file \in OnDisk : DiskChanges(f, file)
  \/ \E s \in Servers, f \in Files :
       Open(s, f) \/ Close(s, f) \/ \E t \in Texts : Edit(s, f, t)

Next == Environment \/ \E s \in Servers : BulkScan(s) \/ Follow(s)

Spec == Init /\ [][Next]_vars

(* Servers, and texts with and without a body, are interchangeable.        *)
Symmetric == Permutations(Servers) \cup Permutations(Texts \ Broken)

-----------------------------------------------------------------------------
(* A document never carries the symbols of another text than its own, over *)
(* restarts, restored files and captures of unsaved buffers alike; only a  *)
(* text without a body keeps older ones (CacheEntry::content_hash).        *)
SymbolsOfText ==
  \A s \in Servers, f \in Files :
    LET doc == documents[s][f] IN
    doc # NoDocument /\ doc.text \notin Broken => doc.symbols = doc.text

(* The cache file goes from one server's whole capture to another's and    *)
(* nowhere else: neither a crash, nor a failed write, nor a sweep, nor a   *)
(* second server makes it a torn or a missing one (atomic_write).          *)
CacheReplacedWhole ==
  [][cache' # cache => \E s \in Servers : phase[s] = "rename" /\ cache' = entries[s]]_vars

(* A server that has caught up with its watcher and its queue holds no     *)
(* closed document that differs from the file, hydrated ones included,     *)
(* unless the change fell before the watcher or inside a removal's load.   *)
FollowsDisk ==
  \A s \in Servers, f \in Files :
    /\ phase[s] = "run" /\ watching[s] /\ events[s] = <<>> /\ jobs[s] = {}
    /\ loading[s][f] = NoDocument /\ documents[s][f] # NoDocument
    /\ f \notin open_docs[s] /\ f \notin unseen[s]
    => disk[f] # NoFile /\ documents[s][f].text = disk[f].text
=============================================================================
