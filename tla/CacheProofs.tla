----------------------------- MODULE CacheProofs -----------------------------
(***************************************************************************)
(* Proofs about the files the server keeps on disk: about IndexCache, for  *)
(* any number of servers, files, texts and stamps, and any bounds on the   *)
(* writes and the edits; and about VersionCatalog, for any tasks of any    *)
(* number of processes, and for any number of releases.                    *)
(***************************************************************************)
EXTENDS IndexCache, VersionCatalog, TLAPS

-----------------------------------------------------------------------------
(* IndexCache.  Types.                                                     *)

Queue == Seq({"changed", "removed"} \X Files)

LEMMA InitTypeOK == Init => TypeOK
<1> SUFFICES ASSUME Init PROVE TypeOK
  OBVIOUS
<1>1. disk \in [Files -> OnDisk \cup {NoFile}]
  BY DEF Init, OnDisk
<1>2. NoEntries \in Capture
  BY DEF NoEntries, Capture
<1>3. NoDocuments \in [Files -> Document \cup {NoDocument}]
  BY DEF NoDocuments
<1>4. 0 \in 0 .. MaxWrites /\ 0 \in 0 .. MaxEdits
  BY IndexCacheAssumption
<1>5. <<>> \in Queue
  BY DEF Queue
<1> QED BY <1>1, <1>2, <1>3, <1>4, <1>5 DEF Init, TypeOK, Phases, Queue

(* What the documents and entries are made of.                             *)
LEMMA ParsedType == \A t \in Texts : Parsed(t) \in Document
  BY DEF Parsed, Document

LEMMA ReparsedType == \A doc \in Document, t \in Texts : Reparsed(doc, t) \in Document
<1> SUFFICES ASSUME NEW doc \in Document, NEW t \in Texts PROVE Reparsed(doc, t) \in Document
  OBVIOUS
<1>1. doc.symbols \in Texts
  BY DEF Document
<1>2. (IF t \in Broken THEN doc.symbols ELSE t) \in Texts
  BY <1>1
<1> QED BY <1>2 DEF Reparsed, Document

LEMMA HydratedType ==
  \A entry \in CacheEntry, onDisk \in OnDisk : Hydrated(entry, onDisk) \in Document
  BY DEF Hydrated, Document, CacheEntry, OnDisk

LEMMA EntryType ==
  \A doc \in Document, onDisk \in OnDisk : EntryOf(doc, onDisk) \in CacheEntry
  BY DEF EntryOf, Document, CacheEntry, OnDisk

(* How far the scans are, and what it takes of the entries and of the      *)
(* temporary files: an entry waits to be hydrated only if there is one,    *)
(* and what is renamed is the server's own capture, or has lost its name.  *)
ScanState ==
  \A s \in Servers :
    /\ phase[s] = "hydrate" => \A f \in todo[s] : entries[s][f] # NoEntry
    /\ phase[s] = "rename" => temp[s] \in {NoCache, entries[s]}

IInv == TypeOK /\ ScanState

LEMMA InitIInv == Init => IInv
  BY InitTypeOK DEF Init, IInv, ScanState

(* The steps of a server's scan.                                           *)
LEMMA ScanTypes ==
  ASSUME IInv, NEW s \in Servers, BulkScan(s) PROVE IInv'
<1> USE DEF IInv, TypeOK, Phases, diskVars, cacheVars, scanVars, storeVars, watchVars, Enter
<1>1. CASE LoadCache(s)
  <2>1. CASE cache \in Capture
    <3>1. \A f \in {g \in Files : cache[g] # NoEntry} : cache[f] # NoEntry
      OBVIOUS
    <3>2. ScanState'
      BY <1>1, <2>1, <3>1 DEF LoadCache, ScanState
    <3>3. {f \in Files : cache[f] # NoEntry} \in SUBSET Files
      OBVIOUS
    <3>4. todo' \in [Servers -> SUBSET Files]
      BY <1>1, <2>1, <3>3 DEF LoadCache
    <3>5. entries' \in [Servers -> Capture] /\ phase' \in [Servers -> Phases]
      BY <1>1, <2>1 DEF LoadCache
    <3> QED BY <1>1, <3>2, <3>4, <3>5 DEF LoadCache
  <2>2. CASE cache \notin Capture
    BY <1>1, <2>2 DEF LoadCache, ScanState
  <2> QED BY <2>1, <2>2
<1>2. CASE Discover(s)
  BY <1>2 DEF Discover, ScanState
<1>3. CASE DiscoveryFails(s)
  BY <1>3 DEF DiscoveryFails, ScanState
<1>4. CASE EndScan(s)
  <2>1. NoEntries \in Capture
    BY DEF NoEntries, Capture
  <2> QED BY <1>4, <2>1 DEF EndScan, ScanState
<1>5. CASE Save(s)
  <2> USE DEF SaveStep, saveUnchanged, TempOf, ScanState
  <2>1. CASE SweepAndCreate(s)
    BY <1>5, <2>1 DEF SweepAndCreate
  <2>2. CASE WriteTemp(s)
    BY <1>5, <2>2 DEF WriteTemp
  <2>3. CASE WriteTempFails(s)
    BY <1>5, <2>3 DEF WriteTempFails
  <2>4. CASE RenameTemp(s)
    BY <1>5, <2>4 DEF RenameTemp
  <2>5. CASE RenameFails(s)
    BY <1>5, <2>5 DEF RenameFails
  <2> QED BY <1>5, <2>1, <2>2, <2>3, <2>4, <2>5 DEF Save
<1>6. ASSUME NEW f \in Files, HydrateFile(s, f) PROVE IInv'
  <2>1. entries[s][f] \in CacheEntry
    BY <1>6 DEF HydrateFile, ScanState, Capture
  <2>2. CASE UNCHANGED <<loading, unseen>>
    BY <1>6, <2>2 DEF HydrateFile, ScanState
  <2>3. CASE disk[f] # NoFile /\ Load(s, f, Hydrated(entries[s][f], disk[f]))
    <3>1. Hydrated(entries[s][f], disk[f]) \in Document
      BY <2>1, <2>3, HydratedType
    <3> QED BY <1>6, <2>3, <3>1 DEF HydrateFile, ScanState, Load
  <2> QED BY <1>6, <2>2, <2>3 DEF HydrateFile
<1>7. ASSUME NEW f \in Files, ScanFile(s, f) PROVE IInv'
  <2>1. CASE UNCHANGED <<loading, unseen>>
    BY <1>7, <2>1 DEF ScanFile, ScanState
  <2>2. CASE disk[f] # NoFile /\ Load(s, f, Parsed(disk[f].text))
    <3>1. Parsed(disk[f].text) \in Document
      BY <2>2, ParsedType DEF OnDisk
    <3> QED BY <1>7, <2>2, <3>1 DEF ScanFile, ScanState, Load
  <2> QED BY <1>7, <2>1, <2>2 DEF ScanFile
<1>8. ASSUME NEW f \in Files, CaptureFile(s, f) PROVE IInv'
  <2>1. CASE UNCHANGED entries
    BY <1>8, <2>1 DEF CaptureFile, ScanState
  <2>2. CASE /\ documents[s][f] # NoDocument /\ disk[f] # NoFile
             /\ entries' = [entries EXCEPT ![s][f] = EntryOf(documents[s][f], disk[f])]
    <3>1. EntryOf(documents[s][f], disk[f]) \in CacheEntry
      BY <2>2, EntryType
    <3> QED BY <1>8, <2>2, <3>1 DEF CaptureFile, ScanState, Capture
  <2> QED BY <1>8, <2>1, <2>2 DEF CaptureFile
<1> QED BY <1>1, <1>2, <1>3, <1>4, <1>5, <1>6, <1>7, <1>8 DEF BulkScan

(* The store's, the watcher's and the worker's steps.                      *)
LEMMA FollowTypes ==
  ASSUME IInv, NEW s \in Servers, Follow(s) PROVE IInv'
<1> USE DEF IInv, TypeOK, Phases, ScanState, diskVars, cacheVars, scanVars, storeVars
<1>1. CASE StartWatching(s)
  BY <1>1 DEF StartWatching
<1>2. CASE HandleChanged(s)
  <2>1. Head(events[s]) \in {"changed", "removed"} \X Files /\ Tail(events[s]) \in Queue
    BY <1>2 DEF HandleChanged, Queue
  <2> QED BY <1>2, <2>1 DEF HandleChanged, Queue
<1>3. CASE HandleRemoved(s)
  <2> DEFINE g == Head(events[s])[2]
  <2>1. Head(events[s]) \in {"changed", "removed"} \X Files /\ Tail(events[s]) \in Queue
    BY <1>3 DEF HandleRemoved, Queue
  <2>2. g \in Files
    BY <2>1
  <2>3. events' \in [Servers -> Queue]
    BY <1>3, <2>1 DEF HandleRemoved, Queue
  <2>4. /\ documents' = IF g \in open_docs[s] THEN documents
                        ELSE [documents EXCEPT ![s][g] = NoDocument]
        /\ unseen' = IF loading[s][g] = NoDocument THEN unseen
                     ELSE [unseen EXCEPT ![s] = @ \cup {g}]
    BY <1>3 DEF HandleRemoved
  <2>5. documents' \in [Servers -> [Files -> Document \cup {NoDocument}]]
    BY <2>2, <2>4
  <2>6. unseen' \in [Servers -> SUBSET Files]
    BY <2>2, <2>4
  <2> QED BY <1>3, <2>3, <2>5, <2>6 DEF HandleRemoved, Queue
<1>4. ASSUME NEW f \in Files, Upsert(s, f) PROVE IInv'
  BY <1>4 DEF Upsert, watchVars
<1>5. ASSUME NEW f \in Files, ParseFile(s, f) PROVE IInv'
  <2>1. CASE UNCHANGED <<loading, unseen>>
    BY <1>5, <2>1 DEF ParseFile
  <2>2. CASE disk[f] # NoFile /\ Load(s, f, Parsed(disk[f].text))
    <3>1. Parsed(disk[f].text) \in Document
      BY <2>2, ParsedType DEF OnDisk
    <3> QED BY <1>5, <2>2, <3>1 DEF ParseFile, Load
  <2> QED BY <1>5, <2>1, <2>2 DEF ParseFile
<1> QED BY <1>1, <1>2, <1>3, <1>4, <1>5 DEF Follow, watchVars

(* The editors, the disk, starts and crashes.                              *)
LEMMA NotifyTypes ==
  ASSUME IInv, NEW news \in {"changed", "removed"}, NEW f \in Files, Notify(news, f)
  PROVE  events' \in [Servers -> Queue] /\ unseen' \in [Servers -> SUBSET Files]
<1> USE DEF IInv, TypeOK, Queue
<1>1. \A s \in Servers : Append(events[s], <<news, f>>) \in Queue
  OBVIOUS
<1>2. events' = [s \in Servers |-> IF watching[s] THEN Append(events[s], <<news, f>>)
                                                  ELSE events[s]]
  BY DEF Notify
<1>3. \A s \in Servers : unseen[s] \cup {f} \in SUBSET Files
  OBVIOUS
<1>4. unseen' = [s \in Servers |-> IF Alive(s) /\ ~watching[s] THEN unseen[s] \cup {f}
                                                            ELSE unseen[s]]
  BY DEF Notify
<1> QED BY <1>1, <1>2, <1>3, <1>4

LEMMA EnvironmentTypes == ASSUME IInv, Environment PROVE IInv'
<1> USE DEF IInv, TypeOK, Phases, ScanState
<1>1. ASSUME NEW s \in Servers, Start(s) PROVE IInv'
  BY <1>1 DEF Start, Enter, diskVars, cacheVars, storeVars, watchVars
<1>2. ASSUME NEW s \in Servers, Crash(s) PROVE IInv'
  <2>1. NoEntries \in Capture /\ NoDocuments \in [Files -> Document \cup {NoDocument}]
    BY DEF NoEntries, NoDocuments, Capture
  <2>2. <<>> \in Queue
    BY DEF Queue
  <2> QED BY <1>2, <2>1, <2>2 DEF Crash, Enter, diskVars, cacheVars, Queue
<1>3. ASSUME NEW s \in Servers, TempAges(s) PROVE IInv'
  BY <1>3 DEF TempAges, diskVars, scanVars, storeVars, watchVars
<1>4. ASSUME NEW f \in Files, DiskRemoves(f) PROVE IInv'
  <2>1. events' \in [Servers -> Queue] /\ unseen' \in [Servers -> SUBSET Files]
    BY <1>4, NotifyTypes DEF DiskRemoves
  <2>2. writes' \in 0 .. MaxWrites
    BY <1>4, IndexCacheAssumption DEF DiskRemoves
  <2> QED BY <1>4, <2>1, <2>2
          DEF DiskRemoves, Notify, cacheVars, scanVars, storeVars, Queue
<1>5. ASSUME NEW f \in Files, NEW onDisk \in OnDisk, DiskChanges(f, onDisk) PROVE IInv'
  <2>1. events' \in [Servers -> Queue] /\ unseen' \in [Servers -> SUBSET Files]
    BY <1>5, NotifyTypes DEF DiskChanges
  <2>2. writes' \in 0 .. MaxWrites
    BY <1>5, IndexCacheAssumption DEF DiskChanges
  <2> QED BY <1>5, <2>1, <2>2
          DEF DiskChanges, Notify, cacheVars, scanVars, storeVars, Queue
<1>6. ASSUME NEW s \in Servers, NEW f \in Files, Open(s, f) PROVE IInv'
  <2>1. Parsed(disk[f].text) \in Document
    BY <1>6, ParsedType DEF Open, OnDisk
  <2> QED BY <1>6, <2>1
          DEF Open, bufferUnchanged, diskVars, cacheVars, scanVars, watchVars
<1>7. ASSUME NEW s \in Servers, NEW f \in Files, Close(s, f) PROVE IInv'
  BY <1>7 DEF Close, bufferUnchanged, diskVars, cacheVars, scanVars, watchVars
<1>8. ASSUME NEW s \in Servers, NEW f \in Files, NEW t \in Texts, Edit(s, f, t) PROVE IInv'
  <2>1. documents[s][f] # NoDocument => Reparsed(documents[s][f], t) \in Document
    BY ReparsedType
  <2>2. documents' \in [Servers -> [Files -> Document \cup {NoDocument}]]
    BY <1>8, <2>1 DEF Edit
  <2>3. edits' \in 0 .. MaxEdits
    BY <1>8, IndexCacheAssumption DEF Edit
  <2> QED BY <1>8, <2>2, <2>3
          DEF Edit, bufferUnchanged, diskVars, cacheVars, scanVars, watchVars
<1> QED BY <1>1, <1>2, <1>3, <1>4, <1>5, <1>6, <1>7, <1>8 DEF Environment

LEMMA StepIInv == IInv /\ [Next]_vars => IInv'
<1> SUFFICES ASSUME IInv, [Next]_vars PROVE IInv'
  OBVIOUS
<1>1. CASE UNCHANGED vars
  BY <1>1 DEF vars, IInv, TypeOK, ScanState, diskVars, cacheVars, scanVars, storeVars, watchVars
<1> QED BY <1>1, ScanTypes, FollowTypes, EnvironmentTypes DEF Next

-----------------------------------------------------------------------------
(* Servers, the cache file and its temporary files are well-formed; in     *)
(* particular a hydrated document is made of an entry that exists.         *)
THEOREM TypeCorrect == Spec => []TypeOK
<1>1. IInv => TypeOK
  BY DEF IInv
<1> QED BY InitIInv, StepIInv, <1>1, PTL DEF Spec

(* RenameTemp is the only step that touches the cache file, and what it    *)
(* renames is the whole capture of its server: a sweep, a crash or a write *)
(* that failed leaves a temporary file nobody renames, or none.            *)
THEOREM CacheIsReplacedWhole == Spec => CacheReplacedWhole
<1> DEFINE WholeCaches == cache' # cache => \E s \in Servers : phase[s] = "rename" /\ cache' = entries[s]
<1>1. IInv /\ [Next]_vars => WholeCaches
  <2> SUFFICES ASSUME IInv, [Next]_vars, cache' # cache PROVE WholeCaches
    OBVIOUS
  <2>1. PICK s \in Servers : RenameTemp(s)
    <3>1. ASSUME NEW s \in Servers, BulkScan(s) PROVE RenameTemp(s)
      BY <3>1 DEF BulkScan, LoadCache, Discover, DiscoveryFails, EndScan, Save, SweepAndCreate,
         WriteTemp, WriteTempFails, RenameFails, HydrateFile, ScanFile, CaptureFile, cacheVars
    <3>2. ASSUME NEW s \in Servers, Follow(s) PROVE FALSE
      BY <3>2 DEF Follow, StartWatching, HandleChanged, HandleRemoved, Upsert, ParseFile, cacheVars
    <3>3. ASSUME Environment PROVE FALSE
      BY <3>3 DEF Environment, Start, Crash, TempAges, DiskRemoves, DiskChanges, Notify, Open,
         Close, Edit, bufferUnchanged, cacheVars
    <3>4. ~UNCHANGED vars
      BY DEF vars, cacheVars
    <3> QED BY <3>1, <3>2, <3>3, <3>4 DEF Next
  <2>2. phase[s] = "rename" /\ cache' = temp[s] /\ temp[s] # NoCache
    BY <2>1 DEF RenameTemp, SaveStep, TempOf
  <2>3. temp[s] = entries[s]
    BY <2>2 DEF IInv, ScanState
  <2> QED BY <2>2, <2>3
<1> QED BY InitIInv, StepIInv, <1>1, PTL DEF Spec, CacheReplacedWhole

-----------------------------------------------------------------------------
(* Symbols.  What is stored came from a text or from an entry, and entries *)
(* come from what is stored, over any number of restarts: so the claim is  *)
(* one about documents, documents under way, captures and the cache file   *)
(* together.                                                               *)

GoodDocument(doc) == doc # NoDocument /\ doc.text \notin Broken => doc.symbols = doc.text
GoodEntry(entry) == entry # NoEntry /\ entry.hash \notin Broken => entry.symbols = entry.hash

SymbolState ==
  /\ cache \in Capture => \A f \in Files : GoodEntry(cache[f])
  /\ \A s \in Servers, f \in Files :
       GoodEntry(entries[s][f]) /\ GoodDocument(loading[s][f]) /\ GoodDocument(documents[s][f])

LEMMA ParsedGood == \A t \in Texts : GoodDocument(Parsed(t))
  BY DEF Parsed, GoodDocument

LEMMA ReparsedGood ==
  \A doc \in Document, t \in Texts : GoodDocument(doc) => GoodDocument(Reparsed(doc, t))
  BY DEF Reparsed, GoodDocument

LEMMA HydratedGood ==
  \A entry \in CacheEntry, onDisk \in OnDisk :
    GoodEntry(entry) /\ Matches(entry, onDisk) => GoodDocument(Hydrated(entry, onDisk))
  BY NothingAssumption DEF Hydrated, Matches, GoodDocument, GoodEntry

LEMMA CapturedGood ==
  \A doc \in Document, onDisk \in OnDisk : GoodDocument(doc) => GoodEntry(EntryOf(doc, onDisk))
  BY NothingAssumption DEF EntryOf, GoodDocument, GoodEntry

LEMMA InitSymbols == Init => SymbolState
  BY NothingAssumption
     DEF Init, SymbolState, GoodDocument, GoodEntry, NoEntries, NoDocuments

LEMMA ScanSymbols ==
  ASSUME IInv, SymbolState, NEW s \in Servers, BulkScan(s) PROVE SymbolState'
<1> USE DEF IInv, TypeOK, SymbolState, diskVars, cacheVars, scanVars, storeVars, Enter
<1>1. CASE LoadCache(s)
  BY <1>1 DEF LoadCache
<1>2. CASE Discover(s) \/ DiscoveryFails(s)
  BY <1>2 DEF Discover, DiscoveryFails
<1>3. CASE EndScan(s)
  BY <1>3 DEF EndScan, NoEntries, GoodEntry
<1>4. CASE Save(s)
  <2>1. UNCHANGED <<entries, loading, documents>>
    BY <1>4 DEF Save, SweepAndCreate, WriteTemp, WriteTempFails, RenameTemp, RenameFails, saveUnchanged
  <2>2. cache' = cache \/ cache' = entries[s]
    BY <1>4, NothingAssumption
       DEF Save, SweepAndCreate, WriteTemp, WriteTempFails, RenameTemp, RenameFails, SaveStep,
           ScanState, TempOf
  <2> QED BY <2>1, <2>2
<1>5. ASSUME NEW f \in Files, HydrateFile(s, f) PROVE SymbolState'
  <2>1. entries[s][f] \in CacheEntry
    BY <1>5 DEF HydrateFile, ScanState, Capture
  <2>2. CASE UNCHANGED <<loading, unseen>>
    BY <1>5, <2>2 DEF HydrateFile
  <2>3. CASE /\ disk[f] # NoFile /\ Matches(entries[s][f], disk[f])
             /\ Load(s, f, Hydrated(entries[s][f], disk[f]))
    <3>1. GoodDocument(Hydrated(entries[s][f], disk[f]))
      BY <2>1, <2>3, HydratedGood
    <3>2. \A p \in Servers, g \in Files :
            loading'[p][g] = IF p = s /\ g = f THEN Hydrated(entries[s][f], disk[f])
                                               ELSE loading[p][g]
      BY <2>3 DEF Load
    <3> QED BY <1>5, <3>1, <3>2 DEF HydrateFile
  <2> QED BY <1>5, <2>2, <2>3 DEF HydrateFile
<1>6. ASSUME NEW f \in Files, ScanFile(s, f) PROVE SymbolState'
  <2>1. CASE UNCHANGED <<loading, unseen>>
    BY <1>6, <2>1 DEF ScanFile
  <2>2. CASE disk[f] # NoFile /\ Load(s, f, Parsed(disk[f].text))
    <3>1. GoodDocument(Parsed(disk[f].text))
      BY <2>2, ParsedGood DEF OnDisk
    <3>2. \A p \in Servers, g \in Files :
            loading'[p][g] = IF p = s /\ g = f THEN Parsed(disk[f].text) ELSE loading[p][g]
      BY <2>2 DEF Load
    <3> QED BY <1>6, <3>1, <3>2 DEF ScanFile
  <2> QED BY <1>6, <2>1, <2>2 DEF ScanFile
<1>7. ASSUME NEW f \in Files, CaptureFile(s, f) PROVE SymbolState'
  <2>1. CASE UNCHANGED entries
    BY <1>7, <2>1 DEF CaptureFile
  <2>2. CASE /\ documents[s][f] # NoDocument /\ disk[f] # NoFile
             /\ entries' = [entries EXCEPT ![s][f] = EntryOf(documents[s][f], disk[f])]
    <3>1. GoodEntry(EntryOf(documents[s][f], disk[f]))
      BY <2>2, CapturedGood
    <3>2. \A p \in Servers, g \in Files :
            entries'[p][g] = IF p = s /\ g = f THEN EntryOf(documents[s][f], disk[f])
                                               ELSE entries[p][g]
      BY <2>2 DEF Capture
    <3> QED BY <1>7, <3>1, <3>2 DEF CaptureFile
  <2> QED BY <1>7, <2>1, <2>2 DEF CaptureFile
<1> QED BY <1>1, <1>2, <1>3, <1>4, <1>5, <1>6, <1>7 DEF BulkScan

LEMMA FollowSymbols ==
  ASSUME IInv, SymbolState, NEW s \in Servers, Follow(s) PROVE SymbolState'
<1> USE DEF IInv, TypeOK, SymbolState, cacheVars, scanVars, storeVars
<1>1. CASE StartWatching(s) \/ HandleChanged(s)
  BY <1>1 DEF StartWatching, HandleChanged
<1>2. CASE HandleRemoved(s)
  <2> DEFINE g == Head(events[s])[2]
  <2>1. documents' = documents \/ documents' = [documents EXCEPT ![s][g] = NoDocument]
    BY <1>2 DEF HandleRemoved
  <2>2. GoodDocument(NoDocument)
    BY DEF GoodDocument
  <2>3. ASSUME NEW p \in Servers, NEW f \in Files
        PROVE  documents'[p][f] = documents[p][f] \/ documents'[p][f] = NoDocument
    <3> HIDE DEF g
    <3>1. CASE documents' = documents
      BY <3>1
    <3>2. CASE documents' = [documents EXCEPT ![s][g] = NoDocument]
      <4>1. documents'[p] = IF p = s THEN [documents[s] EXCEPT ![g] = NoDocument] ELSE documents[p]
        BY <3>2
      <4>2. documents[p] \in [Files -> Document \cup {NoDocument}]
        OBVIOUS
      <4> QED BY <4>1, <4>2
    <3> QED BY <2>1, <3>1, <3>2
  <2>4. UNCHANGED <<cache, entries, loading>>
    BY <1>2 DEF HandleRemoved
  <2> QED BY <2>2, <2>3, <2>4
<1>3. ASSUME NEW f \in Files, Upsert(s, f) PROVE SymbolState'
  <2>1. GoodDocument(NoDocument)
    BY DEF GoodDocument
  <2> QED BY <1>3, <2>1 DEF Upsert
<1>4. ASSUME NEW f \in Files, ParseFile(s, f) PROVE SymbolState'
  <2>1. CASE UNCHANGED <<loading, unseen>>
    BY <1>4, <2>1 DEF ParseFile
  <2>2. CASE disk[f] # NoFile /\ Load(s, f, Parsed(disk[f].text))
    <3>1. GoodDocument(Parsed(disk[f].text))
      BY <2>2, ParsedGood DEF OnDisk
    <3>2. \A p \in Servers, g \in Files :
            loading'[p][g] = IF p = s /\ g = f THEN Parsed(disk[f].text) ELSE loading[p][g]
      BY <2>2 DEF Load
    <3>3. UNCHANGED <<cache, entries, documents>>
      BY <1>4 DEF ParseFile
    <3> QED BY <3>1, <3>2, <3>3
  <2> QED BY <1>4, <2>1, <2>2 DEF ParseFile
<1> QED BY <1>1, <1>2, <1>3, <1>4 DEF Follow

LEMMA EnvironmentSymbols ==
  ASSUME IInv, SymbolState, Environment PROVE SymbolState'
<1> USE DEF IInv, TypeOK, SymbolState, cacheVars, scanVars, storeVars
<1>1. ASSUME NEW s \in Servers, Start(s) \/ TempAges(s) PROVE SymbolState'
  BY <1>1 DEF Start, TempAges
<1>2. ASSUME NEW s \in Servers, Crash(s) PROVE SymbolState'
  <2>1. \A f \in Files : GoodEntry(NoEntries[f]) /\ GoodDocument(NoDocuments[f])
    BY DEF NoEntries, NoDocuments, GoodEntry, GoodDocument
  <2> QED BY <1>2, <2>1 DEF Crash
<1>3. ASSUME NEW f \in Files, DiskRemoves(f) PROVE SymbolState'
  BY <1>3 DEF DiskRemoves, Notify
<1>4. ASSUME NEW f \in Files, NEW onDisk \in OnDisk, DiskChanges(f, onDisk) PROVE SymbolState'
  BY <1>4 DEF DiskChanges, Notify
<1>5. ASSUME NEW s \in Servers, NEW f \in Files, Open(s, f) PROVE SymbolState'
  <2>1. GoodDocument(Parsed(disk[f].text))
    BY <1>5, ParsedGood DEF Open, OnDisk
  <2> QED BY <1>5, <2>1 DEF Open, bufferUnchanged
<1>6. ASSUME NEW s \in Servers, NEW f \in Files, Close(s, f) PROVE SymbolState'
  <2>1. GoodDocument(NoDocument)
    BY DEF GoodDocument
  <2> QED BY <1>6, <2>1 DEF Close, bufferUnchanged
<1>7. ASSUME NEW s \in Servers, NEW f \in Files, NEW t \in Texts, Edit(s, f, t) PROVE SymbolState'
  <2>1. documents[s][f] # NoDocument => GoodDocument(Reparsed(documents[s][f], t))
    BY ReparsedGood
  <2> QED BY <1>7, <2>1 DEF Edit, bufferUnchanged
<1> QED BY <1>1, <1>2, <1>3, <1>4, <1>5, <1>6, <1>7 DEF Environment

LEMMA StepSymbols == IInv /\ SymbolState /\ [Next]_vars => SymbolState'
<1> SUFFICES ASSUME IInv, SymbolState, [Next]_vars PROVE SymbolState'
  OBVIOUS
<1>1. CASE UNCHANGED vars
  BY <1>1 DEF vars, SymbolState, cacheVars, scanVars, storeVars
<1> QED BY <1>1, ScanSymbols, FollowSymbols, EnvironmentSymbols DEF Next

(* No chain of restarts, restored files, captures of unsaved buffers and   *)
(* foreign caches gives a document the symbols of another text: the hash   *)
(* kept with the symbols is what decides, not the stamp.                   *)
THEOREM SymbolsBelong == Spec => []SymbolsOfText
<1>1. SymbolState => SymbolsOfText
  BY DEF SymbolState, SymbolsOfText, GoodDocument
<1> QED BY InitIInv, StepIInv, InitSymbols, StepSymbols, <1>1, PTL DEF Spec

-----------------------------------------------------------------------------
(* The watcher's queue: what it still has to say about a file.             *)

About(q, f) == \E i \in DOMAIN q : q[i][2] = f

(* Its last word about f is of this kind.                                  *)
LastSays(q, f, news) ==
  \E i \in DOMAIN q :
    q[i] = <<news, f>> /\ \A j \in DOMAIN q : j > i => q[j][2] # f

LEMMA TailSays ==
  ASSUME NEW q \in Queue, q # <<>>, NEW f \in Files
  PROVE  /\ Head(q)[2] # f /\ ~About(Tail(q), f) => ~About(q, f)
         /\ Head(q)[2] = f /\ ~About(Tail(q), f) => LastSays(q, f, Head(q)[1])
         /\ \A news : LastSays(Tail(q), f, news) => LastSays(q, f, news)
<1> DEFINE t == Tail(q)
<1>1. /\ Len(q) \in Nat \ {0} /\ DOMAIN q = 1 .. Len(q)
      /\ DOMAIN t = 1 .. Len(q) - 1 /\ \A i \in DOMAIN t : t[i] = q[i + 1]
      /\ Head(q) = q[1]
  BY DEF Queue
<1>2. \A i \in DOMAIN q : i # 1 => i - 1 \in DOMAIN t /\ q[i] = t[i - 1]
  BY <1>1
<1>3. q[1] \in {"changed", "removed"} \X Files
  BY <1>1 DEF Queue
<1> HIDE DEF t
<1>4. Head(q)[2] # f /\ ~About(t, f) => ~About(q, f)
  BY <1>1, <1>2 DEF About
<1>5. Head(q)[2] = f /\ ~About(t, f) => LastSays(q, f, Head(q)[1])
  <2> SUFFICES ASSUME Head(q)[2] = f, ~About(t, f) PROVE LastSays(q, f, Head(q)[1])
    OBVIOUS
  <2>1. q[1] = <<Head(q)[1], f>>
    BY <1>1, <1>3
  <2>2. \A j \in DOMAIN q : j > 1 => q[j][2] # f
    BY <1>1, <1>2 DEF About
  <2> QED BY <1>1, <2>1, <2>2 DEF LastSays
<1>6. ASSUME NEW news, LastSays(t, f, news) PROVE LastSays(q, f, news)
  <2>1. PICK i \in DOMAIN t :
          t[i] = <<news, f>> /\ \A j \in DOMAIN t : j > i => t[j][2] # f
    BY <1>6 DEF LastSays
  <2>2. i + 1 \in DOMAIN q /\ q[i + 1] = <<news, f>>
    BY <1>1, <2>1
  <2>3. \A j \in DOMAIN q : j > i + 1 => q[j][2] # f
    BY <1>1, <1>2, <2>1
  <2> QED BY <2>2, <2>3 DEF LastSays
<1> QED BY <1>4, <1>5, <1>6 DEF t

LEMMA AppendSays ==
  ASSUME NEW q \in Queue, NEW k \in {"changed", "removed"}, NEW g \in Files, NEW f \in Files
  PROVE  /\ ~About(Append(q, <<k, g>>), f) => g # f /\ ~About(q, f)
         /\ g = f /\ LastSays(Append(q, <<k, g>>), f, "changed") => k = "changed"
         /\ g # f /\ LastSays(Append(q, <<k, g>>), f, "changed") => LastSays(q, f, "changed")
<1> DEFINE a == Append(q, <<k, g>>)
           n == Len(q) + 1
<1>1. /\ Len(q) \in Nat /\ DOMAIN q = 1 .. Len(q) /\ n \in Nat
      /\ DOMAIN a = 1 .. n /\ a[n] = <<k, g>>
      /\ \A i \in DOMAIN q : i \in DOMAIN a /\ a[i] = q[i] /\ n > i
      /\ n \in DOMAIN a /\ \A i \in DOMAIN a : i # n => i \in DOMAIN q
  BY DEF Queue
<1> HIDE DEF a, n
<1>2. ~About(a, f) => g # f /\ ~About(q, f)
  BY <1>1 DEF About
<1>3. ASSUME LastSays(a, f, "changed")
      PROVE  IF g = f THEN k = "changed" ELSE LastSays(q, f, "changed")
  <2>1. PICK i \in DOMAIN a :
          a[i] = <<"changed", f>> /\ \A j \in DOMAIN a : j > i => a[j][2] # f
    BY <1>3 DEF LastSays
  <2>2. CASE i = n
    BY <1>1, <2>1, <2>2
  <2>3. CASE i # n
    <3>1. i \in DOMAIN q /\ q[i] = <<"changed", f>> /\ g # f
      BY <1>1, <2>1, <2>3
    <3>2. \A j \in DOMAIN q : j > i => q[j][2] # f
      BY <1>1, <2>1
    <3> QED BY <3>1, <3>2 DEF LastSays
  <2> QED BY <2>2, <2>3
<1> QED BY <1>2, <1>3 DEF a

-----------------------------------------------------------------------------
(* Following the disk.                                                     *)

AsOnDisk(doc, f) == doc # NoDocument => disk[f] # NoFile /\ doc.text = disk[f].text

(* Everything that happened to f has come out of the watcher's queue.      *)
Told(s, f) == f \notin unseen[s] /\ ~About(events[s], f)

(* Without a job to come, what is stored and what is under way is the      *)
(* file's; without the file nothing is stored or under way, job or not;    *)
(* and a queue that ends in a change ends in the file's existence.         *)
FollowOf(s, f) ==
  /\ Told(s, f) /\ f \notin jobs[s] =>
       /\ AsOnDisk(loading[s][f], f)
       /\ f \in open_docs[s] \/ loading[s][f] # NoDocument \/ AsOnDisk(documents[s][f], f)
  /\ Told(s, f) /\ disk[f] = NoFile =>
       /\ loading[s][f] = NoDocument
       /\ f \in open_docs[s] \/ documents[s][f] = NoDocument
  /\ LastSays(events[s], f, "changed") => disk[f] # NoFile

FollowState == \A s \in Servers, f \in Files : FollowOf(s, f)

(* A server that does not run has nothing, and only a watcher has events.  *)
Lifeless ==
  \A s \in Servers :
    /\ ~watching[s] => events[s] = <<>>
    /\ ~Alive(s) => loading[s] = NoDocuments /\ documents[s] = NoDocuments /\ ~watching[s]

FollowInv == IInv /\ Lifeless /\ FollowState

LEMMA InitFollow == Init => Lifeless /\ FollowState
  BY DEF Init, Lifeless, FollowState, FollowOf, Told, AsOnDisk, About, LastSays, NoDocuments, Alive

LEMMA LifelessStep == IInv /\ Lifeless /\ [Next]_vars => Lifeless'
<1> SUFFICES ASSUME IInv, Lifeless, [Next]_vars PROVE Lifeless'
  OBVIOUS
<1> USE DEF IInv, TypeOK, Lifeless, Alive, Phases, Enter
<1>1. ASSUME NEW s \in Servers, BulkScan(s) PROVE Lifeless'
  <2>1. UNCHANGED <<documents, watching, events>>
    BY <1>1 DEF BulkScan, LoadCache, Discover, DiscoveryFails, EndScan, Save, SweepAndCreate,
       WriteTemp, WriteTempFails, RenameTemp, RenameFails, HydrateFile, ScanFile, CaptureFile,
       saveUnchanged, storeVars, watchVars
  <2>2. /\ phase[s] \notin {"new", "dead"} /\ phase'[s] \notin {"new", "dead"}
        /\ \A p \in Servers \ {s} : phase'[p] = phase[p] /\ loading'[p] = loading[p]
    BY <1>1 DEF BulkScan, LoadCache, Discover, DiscoveryFails, EndScan, Save, SweepAndCreate,
       WriteTemp, WriteTempFails, RenameTemp, RenameFails, HydrateFile, ScanFile, CaptureFile,
       saveUnchanged, SaveStep, Load
  <2> QED BY <2>1, <2>2
<1>2. ASSUME NEW s \in Servers, Follow(s) PROVE Lifeless'
  <2>1. \A p \in Servers \ {s} : UNCHANGED <<phase[p], loading[p], documents[p], events[p], watching[p]>>
    BY <1>2 DEF Follow, StartWatching, HandleChanged, HandleRemoved, Upsert, ParseFile, Load,
       scanVars, storeVars, watchVars
  <2>2. phase'[s] = phase[s] /\ phase[s] \notin {"new", "dead"}
    BY <1>2 DEF Follow, StartWatching, HandleChanged, HandleRemoved, Upsert, ParseFile, scanVars,
       NoDocuments
  <2>3. ~watching'[s] => events'[s] = <<>>
    BY <1>2 DEF Follow, StartWatching, HandleChanged, HandleRemoved, Upsert, ParseFile, watchVars
  <2> QED BY <2>1, <2>2, <2>3
<1>3. CASE Environment
  <2>1. ASSUME NEW s \in Servers, Start(s) PROVE Lifeless'
    BY <2>1 DEF Start, storeVars, watchVars
  <2>2. ASSUME NEW s \in Servers, Crash(s) PROVE Lifeless'
    BY <2>2 DEF Crash
  <2>3. ASSUME NEW s \in Servers, TempAges(s) PROVE Lifeless'
    BY <2>3 DEF TempAges, scanVars, storeVars, watchVars
  <2>4. ASSUME NEW news, NEW f, Notify(news, f) PROVE Lifeless'
    BY <2>4 DEF Notify, scanVars, storeVars
  <2>5. ASSUME NEW s \in Servers, NEW f \in Files,
               Open(s, f) \/ Close(s, f) \/ \E t \in Texts : Edit(s, f, t)
        PROVE  Lifeless'
    <3>1. UNCHANGED <<phase, loading, watching, events>>
      BY <2>5 DEF Open, Close, Edit, bufferUnchanged, scanVars, watchVars
    <3>2. \A p \in Servers \ {s} : documents'[p] = documents[p]
      BY <2>5 DEF Open, Close, Edit
    <3>3. Alive(s) \/ documents'[s] = documents[s]
      BY <2>5 DEF Open, Close, Edit, NoDocuments
    <3> QED BY <3>1, <3>2, <3>3
  <2> QED BY <1>3, <2>1, <2>2, <2>3, <2>4, <2>5 DEF Environment, DiskRemoves, DiskChanges
<1>4. CASE UNCHANGED vars
  BY <1>4 DEF vars, scanVars, storeVars, watchVars
<1> QED BY <1>1, <1>2, <1>3, <1>4 DEF Next

(* What a step leaves alone of a server and a file still follows the disk. *)
Apart(s, f) ==
  /\ disk'[f] = disk[f] /\ events'[s] = events[s]
  /\ loading'[s][f] = loading[s][f] /\ documents'[s][f] = documents[s][f]
  /\ f \in unseen'[s] <=> f \in unseen[s]
  /\ f \in jobs'[s] <=> f \in jobs[s]
  /\ f \in open_docs'[s] <=> f \in open_docs[s]

LEMMA ApartFollows ==
  ASSUME FollowState, NEW s \in Servers, NEW f \in Files, Apart(s, f) PROVE FollowOf(s, f)'
  BY DEF FollowState, FollowOf, Apart, Told, AsOnDisk

(* A document built from the file of now: the file is followed again.      *)
LEMMA LoadFollows ==
  ASSUME FollowInv, NEW s \in Servers, NEW f \in Files, NEW doc \in Document,
         Load(s, f, doc), disk[f] # NoFile, doc.text = disk[f].text,
         UNCHANGED <<disk, events, documents, open_docs>>,
         \A p \in Servers, g \in Files : p # s \/ g # f => (g \in jobs'[p] <=> g \in jobs[p])
  PROVE  FollowState'
<1> USE DEF FollowInv, IInv, TypeOK
<1>1. ASSUME NEW p \in Servers, NEW g \in Files, p # s \/ g # f PROVE FollowOf(p, g)'
  <2>1. loading'[p][g] = loading[p][g] /\ (g \in unseen'[p] <=> g \in unseen[p])
    BY <1>1 DEF Load
  <2> QED BY <1>1, <2>1, ApartFollows DEF Apart
<1>2. FollowOf(s, f)'
  <2>1. loading'[s][f] = doc /\ doc # NoDocument
    BY NothingAssumption DEF Load
  <2> QED BY <2>1 DEF FollowState, FollowOf, AsOnDisk, Told
<1> QED BY <1>1, <1>2 DEF FollowState

LEMMA ScanFollows ==
  ASSUME FollowInv, NEW s \in Servers, BulkScan(s) PROVE FollowState'
<1> USE DEF FollowInv, IInv, TypeOK
<1>1. CASE UNCHANGED <<disk, loading, documents, open_docs, events, jobs, unseen>>
  BY <1>1, ApartFollows DEF FollowState, Apart
<1>2. ASSUME NEW f \in Files, HydrateFile(s, f) PROVE FollowState'
  <2>1. UNCHANGED <<disk, events, documents, open_docs, jobs>>
    BY <1>2 DEF HydrateFile, diskVars, storeVars, watchVars
  <2>2. CASE UNCHANGED <<loading, unseen>>
    BY <2>1, <2>2, <1>1
  <2>3. CASE disk[f] # NoFile /\ Load(s, f, Hydrated(entries[s][f], disk[f]))
    <3>1. entries[s][f] \in CacheEntry
      BY <1>2 DEF HydrateFile, ScanState, Capture
    <3>2. /\ Hydrated(entries[s][f], disk[f]) \in Document
          /\ Hydrated(entries[s][f], disk[f]).text = disk[f].text
      BY <2>3, <3>1, HydratedType DEF Hydrated
    <3> QED BY <2>1, <2>3, <3>2, LoadFollows
  <2> QED BY <1>2, <2>2, <2>3 DEF HydrateFile
<1>3. ASSUME NEW f \in Files, ScanFile(s, f) PROVE FollowState'
  <2>1. UNCHANGED <<disk, events, documents, open_docs, jobs>>
    BY <1>3 DEF ScanFile, diskVars, storeVars, watchVars
  <2>2. CASE UNCHANGED <<loading, unseen>>
    BY <2>1, <2>2, <1>1
  <2>3. CASE disk[f] # NoFile /\ Load(s, f, Parsed(disk[f].text))
    <3>1. Parsed(disk[f].text) \in Document /\ Parsed(disk[f].text).text = disk[f].text
      BY <2>3, ParsedType DEF Parsed, OnDisk
    <3> QED BY <2>1, <2>3, <3>1, LoadFollows
  <2> QED BY <1>3, <2>2, <2>3 DEF ScanFile
<1>4. ASSUME \A f \in Files : ~HydrateFile(s, f) /\ ~ScanFile(s, f) PROVE FollowState'
  <2>1. UNCHANGED <<disk, loading, documents, open_docs, events, jobs, unseen>>
    BY <1>4 DEF BulkScan, LoadCache, Discover, DiscoveryFails, EndScan, CaptureFile, Save,
       SweepAndCreate, WriteTemp, WriteTempFails, RenameTemp, RenameFails, saveUnchanged, diskVars,
       storeVars, watchVars
  <2> QED BY <1>1, <2>1
<1> QED BY <1>2, <1>3, <1>4

LEMMA UpsertFollows ==
  ASSUME FollowInv, NEW s \in Servers, NEW f \in Files, Upsert(s, f) PROVE FollowState'
<1> USE DEF FollowInv, IInv, TypeOK
<1>1. UNCHANGED <<disk, events, open_docs, jobs, unseen>>
  BY DEF Upsert, diskVars, watchVars
<1>2. /\ loading'[s][f] = NoDocument
      /\ f \notin open_docs[s] => documents'[s][f] = loading[s][f]
      /\ f \in open_docs[s] => documents'[s][f] = documents[s][f]
      /\ \A p \in Servers, g \in Files : p # s \/ g # f =>
           loading'[p][g] = loading[p][g] /\ documents'[p][g] = documents[p][g]
  BY DEF Upsert, Refuses
<1>3. ASSUME NEW p \in Servers, NEW g \in Files, p # s \/ g # f PROVE FollowOf(p, g)'
  BY <1>1, <1>2, <1>3, ApartFollows DEF Apart
<1>4. FollowOf(s, f)'
  <2>1. loading[s][f] # NoDocument
    BY DEF Upsert
  <2> QED BY <1>1, <1>2, <2>1 DEF FollowState, FollowOf, Told, AsOnDisk
<1> QED BY <1>3, <1>4 DEF FollowState

(* Taking an event out of the queue.                                       *)
LEMMA ChangedFollows ==
  ASSUME FollowInv, NEW s \in Servers, HandleChanged(s) PROVE FollowState'
<1> USE DEF FollowInv, IInv, TypeOK
<1> DEFINE q == events[s]
<1>1. UNCHANGED <<disk, loading, documents, open_docs, unseen>>
  BY DEF HandleChanged, diskVars, storeVars
<1>2. q \in Queue /\ q # <<>> /\ Head(q)[1] = "changed" /\ Head(q)[2] \in Files
  BY DEF HandleChanged, Queue
<1>3. /\ events'[s] = Tail(q) /\ jobs'[s] = jobs[s] \cup {Head(q)[2]}
      /\ \A p \in Servers \ {s} : events'[p] = events[p] /\ jobs'[p] = jobs[p]
  BY DEF HandleChanged
<1>4. ASSUME NEW p \in Servers, p # s, NEW f \in Files PROVE FollowOf(p, f)'
  BY <1>1, <1>3, <1>4, ApartFollows DEF Apart
<1>5. ASSUME NEW f \in Files PROVE FollowOf(s, f)'
  <2> HIDE DEF q
  <2>1. /\ Head(q)[2] # f /\ ~About(Tail(q), f) => ~About(q, f)
        /\ Head(q)[2] = f /\ ~About(Tail(q), f) => LastSays(q, f, "changed")
        /\ LastSays(Tail(q), f, "changed") => LastSays(q, f, "changed")
    BY <1>2, TailSays
  <2>2. FollowOf(s, f) /\ q = events[s]
    BY DEF FollowState, q
  <2> QED BY <1>1, <1>3, <2>1, <2>2 DEF FollowOf, Told, AsOnDisk
<1> QED BY <1>4, <1>5 DEF FollowState

LEMMA RemovedFollows ==
  ASSUME FollowInv, NEW s \in Servers, HandleRemoved(s) PROVE FollowState'
<1> USE DEF FollowInv, IInv, TypeOK
<1> DEFINE q == events[s]
           h == Head(events[s])[2]
<1>1. UNCHANGED <<disk, loading, open_docs, jobs>>
  BY DEF HandleRemoved, diskVars
<1>2. q \in Queue /\ q # <<>> /\ h \in Files
  BY DEF HandleRemoved, Queue
<1>3. /\ events'[s] = Tail(q)
      /\ \A p \in Servers \ {s} : events'[p] = events[p]
  BY DEF HandleRemoved
<1>4. /\ documents' = IF h \in open_docs[s] THEN documents
                      ELSE [documents EXCEPT ![s][h] = NoDocument]
      /\ unseen' = IF loading[s][h] = NoDocument THEN unseen
                   ELSE [unseen EXCEPT ![s] = @ \cup {h}]
  BY DEF HandleRemoved
<1> HIDE DEF h
<1>5. /\ h \in open_docs[s] \/ documents'[s][h] = NoDocument
      /\ h \in unseen'[s] \/ loading[s][h] = NoDocument
      /\ \A p \in Servers, f \in Files : p # s \/ f # h =>
           documents'[p][f] = documents[p][f] /\ (f \in unseen'[p] <=> f \in unseen[p])
  BY <1>2, <1>4
<1>6. ASSUME NEW p \in Servers, p # s, NEW f \in Files PROVE FollowOf(p, f)'
  BY <1>1, <1>3, <1>5, <1>6, ApartFollows DEF Apart
<1>7. ASSUME NEW f \in Files PROVE FollowOf(s, f)'
  <2>1. /\ h # f /\ ~About(Tail(q), f) => ~About(q, f)
        /\ LastSays(Tail(q), f, "changed") => LastSays(q, f, "changed")
    BY <1>2, TailSays DEF h
  <2> HIDE DEF q
  <2>2. FollowOf(s, f) /\ q = events[s]
    BY DEF FollowState, q
  <2>3. CASE f = h
    BY <1>1, <1>3, <1>5, <2>1, <2>2, <2>3 DEF FollowOf, Told, AsOnDisk
  <2>4. CASE f # h
    BY <1>1, <1>3, <1>5, <2>1, <2>2, <2>4 DEF FollowOf, Told, AsOnDisk
  <2> QED BY <2>3, <2>4
<1> QED BY <1>6, <1>7 DEF FollowState

LEMMA ParseFollows ==
  ASSUME FollowInv, NEW s \in Servers, NEW f \in Files, ParseFile(s, f) PROVE FollowState'
<1> USE DEF FollowInv, IInv, TypeOK
<1>1. UNCHANGED <<disk, events, documents, open_docs>>
  BY DEF ParseFile, diskVars, storeVars
<1>2. \A p \in Servers, g \in Files : p # s \/ g # f => (g \in jobs'[p] <=> g \in jobs[p])
  BY DEF ParseFile
<1>3. CASE disk[f] = NoFile
  <2>1. UNCHANGED <<loading, unseen>>
    BY <1>3 DEF ParseFile
  <2>2. ASSUME NEW p \in Servers, NEW g \in Files, p # s \/ g # f PROVE FollowOf(p, g)'
    BY <1>1, <1>2, <2>1, <2>2, ApartFollows DEF Apart
  <2>3. FollowOf(s, f)'
    BY <1>1, <1>3, <2>1 DEF FollowState, FollowOf, Told, AsOnDisk
  <2> QED BY <2>2, <2>3 DEF FollowState
<1>4. CASE disk[f] # NoFile
  <2>1. Load(s, f, Parsed(disk[f].text))
    BY <1>4 DEF ParseFile
  <2>2. Parsed(disk[f].text) \in Document /\ Parsed(disk[f].text).text = disk[f].text
    BY <1>4, ParsedType DEF Parsed, OnDisk
  <2> QED BY <1>1, <1>2, <1>4, <2>1, <2>2, LoadFollows
<1> QED BY <1>3, <1>4

(* A change or a removal: a watcher is told, a server without one is not,  *)
(* and a server that does not run has nothing of the file.                 *)
LEMMA NotifyFollows ==
  ASSUME FollowInv, NEW f \in Files, NEW news \in {"changed", "removed"}, Notify(news, f),
         news = "changed" => disk'[f] # NoFile,
         \A g \in Files \ {f} : disk'[g] = disk[g]
  PROVE  FollowState'
<1> USE DEF FollowInv, IInv, TypeOK
<1>1. UNCHANGED <<loading, documents, open_docs, jobs>>
  BY DEF Notify, storeVars
<1>2. SUFFICES ASSUME NEW s \in Servers, NEW g \in Files PROVE FollowOf(s, g)'
  BY DEF FollowState
<1>3. CASE watching[s]
  <2>1. events'[s] = Append(events[s], <<news, f>>) /\ unseen'[s] = unseen[s]
    BY <1>3 DEF Notify
  <2>2. /\ ~About(Append(events[s], <<news, f>>), g) => f # g /\ ~About(events[s], g)
        /\ f = g /\ LastSays(Append(events[s], <<news, f>>), g, "changed") => news = "changed"
        /\ f # g /\ LastSays(Append(events[s], <<news, f>>), g, "changed")
             => LastSays(events[s], g, "changed")
    <3>1. events[s] \in Queue
      BY DEF Queue
    <3> QED BY <3>1, AppendSays, Zenon
  <2> QED BY <1>1, <2>1, <2>2 DEF FollowState, FollowOf, Told, AsOnDisk
<1>4. CASE ~watching[s] /\ Alive(s)
  <2>1. events'[s] = <<>> /\ unseen'[s] = unseen[s] \cup {f}
    BY <1>4 DEF Notify, Lifeless
  <2>2. ~LastSays(<<>>, g, "changed") /\ events[s] = <<>>
    BY <1>4 DEF LastSays, Lifeless
  <2> QED BY <1>1, <2>1, <2>2 DEF FollowState, FollowOf, Told, AsOnDisk
<1>5. CASE ~watching[s] /\ ~Alive(s)
  <2>1. events'[s] = <<>> /\ loading[s][g] = NoDocument /\ documents[s][g] = NoDocument
    BY <1>5 DEF Notify, Lifeless, NoDocuments
  <2>2. ~LastSays(<<>>, g, "changed")
    BY DEF LastSays
  <2> QED BY <1>1, <2>1, <2>2 DEF FollowOf, AsOnDisk
<1> QED BY <1>3, <1>4, <1>5

LEMMA EnvironmentFollows == ASSUME FollowInv, Environment PROVE FollowState'
<1> USE DEF FollowInv, IInv, TypeOK
<1>1. ASSUME NEW s \in Servers, Start(s) \/ TempAges(s) PROVE FollowState'
  BY <1>1, ApartFollows
     DEF Start, TempAges, diskVars, storeVars, watchVars, Apart, FollowState
<1>2. ASSUME NEW s \in Servers, Crash(s) PROVE FollowState'
  <2>1. ASSUME NEW p \in Servers, p # s, NEW f \in Files PROVE FollowOf(p, f)'
    BY <1>2, <2>1, ApartFollows DEF Crash, diskVars, Apart
  <2>2. ASSUME NEW f \in Files PROVE FollowOf(s, f)'
    <3>1. events'[s] = <<>> /\ loading'[s][f] = NoDocument /\ documents'[s][f] = NoDocument
      BY <1>2 DEF Crash, NoDocuments
    <3>2. ~LastSays(<<>>, f, "changed")
      BY DEF LastSays
    <3> QED BY <3>1, <3>2 DEF FollowOf, AsOnDisk
  <2> QED BY <2>1, <2>2 DEF FollowState
<1>3. ASSUME NEW f \in Files, DiskRemoves(f) PROVE FollowState'
  BY <1>3, NotifyFollows DEF DiskRemoves
<1>4. ASSUME NEW f \in Files, NEW onDisk \in OnDisk, DiskChanges(f, onDisk) PROVE FollowState'
  BY <1>4, NotifyFollows, NothingAssumption DEF DiskChanges
<1>5. ASSUME NEW s \in Servers, NEW f \in Files,
             Open(s, f) \/ Close(s, f) \/ \E t \in Texts : Edit(s, f, t)
      PROVE  FollowState'
  <2>1. UNCHANGED <<disk, loading, events, jobs, unseen>>
    BY <1>5 DEF Open, Close, Edit, bufferUnchanged, diskVars, watchVars
  <2>2. \A p \in Servers, g \in Files : p # s \/ g # f =>
          documents'[p][g] = documents[p][g] /\ (g \in open_docs'[p] <=> g \in open_docs[p])
    BY <1>5 DEF Open, Close, Edit
  <2>3. f \in open_docs'[s] \/ documents'[s][f] = NoDocument
    BY <1>5 DEF Open, Close, Edit
  <2>4. ASSUME NEW p \in Servers, NEW g \in Files, p # s \/ g # f PROVE FollowOf(p, g)'
    BY <2>1, <2>2, <2>4, ApartFollows DEF Apart
  <2>5. FollowOf(s, f)'
    BY <2>1, <2>3 DEF FollowState, FollowOf, Told, AsOnDisk
  <2> QED BY <2>4, <2>5 DEF FollowState
<1> QED BY <1>1, <1>2, <1>3, <1>4, <1>5 DEF Environment

LEMMA StepFollows == FollowInv /\ [Next]_vars => FollowState'
<1> SUFFICES ASSUME FollowInv, [Next]_vars PROVE FollowState'
  OBVIOUS
<1>1. ASSUME NEW s \in Servers, Follow(s) PROVE FollowState'
  <2>1. CASE StartWatching(s)
    BY <2>1, ApartFollows
       DEF StartWatching, diskVars, storeVars, Apart, FollowState, FollowInv
  <2> QED BY <1>1, <2>1, ChangedFollows, RemovedFollows, UpsertFollows, ParseFollows DEF Follow
<1>2. CASE UNCHANGED vars
  BY <1>2, ApartFollows DEF vars, diskVars, storeVars, watchVars, Apart, FollowState, FollowInv
<1> QED BY <1>1, <1>2, ScanFollows, EnvironmentFollows DEF Next

(* A server that has caught up holds what the disk holds, of every closed  *)
(* document it has, for any number of servers and files and any order of   *)
(* hydration, scans, events, jobs, removals and buffers opened and closed. *)
THEOREM ServersFollowDisk == Spec => []FollowsDisk
<1>1. Init => FollowInv
  BY InitIInv, InitFollow DEF FollowInv
<1>2. FollowInv /\ [Next]_vars => FollowInv'
  BY StepIInv, LifelessStep, StepFollows DEF FollowInv
<1>3. FollowInv => FollowsDisk
  BY DEF FollowInv, FollowState, FollowOf, FollowsDisk, Told, About, AsOnDisk
<1> QED BY <1>1, <1>2, <1>3, PTL DEF Spec

-----------------------------------------------------------------------------
(* VersionCatalog.  What holds of feeds, files and tasks.                  *)

Counts == [now : Nat, today : Nat, longAgo : Nat]
States == {"absent", "whole", "emptied", "mixed"}
Catalogs == [state : States, list : Nat, age : 0 .. Expired]
Steps == {"idle", "begun", "asked", "received", "emptied", "done", "unwritten"}
Progress == [step : Steps, list : Nat, failed : BOOLEAN, had : Nat]

(* Lists only grow.                                                        *)
FeedState ==
  \A r \in Feeds : released[r].longAgo <= released[r].today /\ released[r].today <= released[r].now

(* A catalogue written in this tick lists what there was when the tick     *)
(* began, one written in the tick before what there was then.              *)
Covers(f, r) ==
  /\ Whole(f) /\ f.age = 0 => f.list >= released[r].today
  /\ Whole(f) /\ f.age = 1 => f.list >= released[r].longAgo

FileState == \A r \in Feeds : Covers(file[r], r)

(* What a task holds of a feed is as new as the tick, what it has answered *)
(* is no older than a tick or what it found, and what it answered without  *)
(* a failure is in the file.                                               *)
Sound(p, r) ==
  /\ p.failed => p.step = "done"
  /\ p.step = "asked" /\ p.had > 0 => Whole(file[r]) /\ file[r].list = p.had
  /\ p.step \in {"received", "emptied"} => p.list >= released[r].today
  /\ p.step \in {"done", "unwritten"} /\ ~p.failed => p.list >= released[r].longAgo
  /\ p.failed /\ p.had > 0 => p.list = p.had
  /\ p.step = "done" /\ ~p.failed => Fresh(r)

TaskState == \A t \in Tasks, r \in Feeds : Sound(task[t][r], r)

(* What the last prefetch did not leave out is there, and not old.         *)
KnownState == prefetched => \A r \in Feeds \ missed : Fresh(r)

ToolsState == kind = "tools" => ~prefetched

CatalogInv ==
  CatalogTypeOK /\ FeedState /\ FileState /\ TaskState /\ KnownState /\ ToolsState

LEMMA FeedTypes ==
  ASSUME CatalogInv, NEW r \in Feeds
  PROVE  /\ released[r] \in Counts /\ released[r].now \in Nat /\ released[r].today \in Nat
         /\ released[r].longAgo \in Nat
         /\ released[r].longAgo <= released[r].today /\ released[r].today <= released[r].now
         /\ file[r] \in Catalogs /\ file[r].state \in States /\ file[r].list \in Nat
         /\ file[r].age \in 0 .. 2
<1>1. released \in [Feeds -> Counts] /\ file \in [Feeds -> Catalogs]
  BY DEF CatalogInv, CatalogTypeOK, Counts, Catalogs, States
<1>2. released[r] \in Counts /\ file[r] \in Catalogs
  BY <1>1
<1>3. released[r].now \in Nat /\ released[r].today \in Nat /\ released[r].longAgo \in Nat
  BY <1>2 DEF Counts
<1>4. file[r].state \in States /\ file[r].list \in Nat /\ file[r].age \in 0 .. 2
  BY <1>2 DEF Catalogs, Expired, TTL
<1> QED BY <1>2, <1>3, <1>4 DEF CatalogInv, FeedState

LEMMA TaskTypes ==
  ASSUME CatalogInv, NEW t \in Tasks, NEW r \in Feeds
  PROVE  /\ task \in [Tasks -> [Feeds -> Progress]] /\ task[t][r] \in Progress
         /\ task[t][r].step \in Steps /\ task[t][r].list \in Nat
         /\ task[t][r].failed \in BOOLEAN /\ task[t][r].had \in Nat
<1>1. task \in [Tasks -> [Feeds -> Progress]]
  BY DEF CatalogInv, CatalogTypeOK, Progress, Steps
<1>2. task[t][r] \in Progress
  BY <1>1
<1> QED BY <1>1, <1>2 DEF Progress

LEMMA BegunSound ==
  /\ Begun \in Progress /\ [Begun EXCEPT !.step = "idle"] \in Progress
  /\ Idle \in [Feeds -> Progress]
  /\ \A r \in Feeds : Sound(Begun, r) /\ Sound(Idle[r], r)
  /\ \A r \in Feeds : Idle[r].step = "idle" /\ Idle[r].failed = FALSE
  BY DEF Begun, Idle, Progress, Steps, Sound

LEMMA InitCatalog == CatalogInit => CatalogInv
<1> SUFFICES ASSUME CatalogInit PROVE CatalogInv
  OBVIOUS
<1>1. file \in [Feeds -> Catalogs] /\ \A r \in Feeds : file[r].state = "absent"
  BY DEF CatalogInit, NoCatalog, Catalogs, States, Expired, TTL
<1>2. task \in [Tasks -> [Feeds -> Progress]] /\ \A t \in Tasks : task[t] = Idle
  BY BegunSound DEF CatalogInit
<1>3. released \in [Feeds -> Counts] /\ FeedState
  BY DEF CatalogInit, Counts, FeedState
<1>4. CatalogTypeOK
  BY <1>1, <1>2, <1>3 DEF CatalogInit, CatalogTypeOK, Counts, Catalogs, States, Progress, Steps
<1>5. FileState
  BY <1>1 DEF FileState, Covers, Whole
<1>6. TaskState
  BY <1>2, BegunSound DEF TaskState
<1> QED BY <1>3, <1>4, <1>5, <1>6 DEF CatalogInit, CatalogInv, KnownState, ToolsState

-----------------------------------------------------------------------------
(* The steps of a task.                                                    *)

LEMMA ToEntry ==
  ASSUME CatalogInv, NEW t \in Tasks, NEW r \in Feeds, NEW p \in Progress
  PROVE  /\ To(t, r, p) \in [Tasks -> [Feeds -> Progress]]
         /\ \A u \in Tasks, q \in Feeds :
              To(t, r, p)[u][q] = IF u = t /\ q = r THEN p ELSE task[u][q]
<1>1. task \in [Tasks -> [Feeds -> Progress]]
  BY TaskTypes
<1> QED BY <1>1 DEF To

(* A task that gets to a sound state in one feed, no file changing.        *)
LEMMA TaskMoves ==
  ASSUME CatalogInv, NEW t \in Tasks, NEW r \in Feeds, NEW p \in Progress, Sound(p, r),
         task' = To(t, r, p), UNCHANGED <<kind, released, file, prefetched, missed>>
  PROVE  CatalogInv'
<1>1. /\ task' \in [Tasks -> [Feeds -> Progress]]
      /\ \A u \in Tasks, q \in Feeds : task'[u][q] = IF u = t /\ q = r THEN p ELSE task[u][q]
  BY ToEntry
<1>2. Feeds' = Feeds
  BY DEF Feeds
<1>3. \A x, q : Sound(x, q) => Sound(x, q)'
  BY DEF Sound, Whole, Fresh, Exists
<1>4. TaskState'
  BY <1>1, <1>2, <1>3 DEF CatalogInv, TaskState
<1>5. FeedState' /\ FileState' /\ KnownState' /\ ToolsState'
  BY <1>2 DEF CatalogInv, FeedState, FileState, Covers, KnownState, ToolsState, Whole, Fresh, Exists
<1>6. CatalogTypeOK'
  BY <1>1, <1>2 DEF CatalogInv, CatalogTypeOK, Progress, Steps
<1> QED BY <1>4, <1>5, <1>6 DEF CatalogInv

(* ... or that leaves a file written in this tick.                         *)
LEMMA FileMoves ==
  ASSUME CatalogInv, NEW t \in Tasks, NEW r \in Feeds,
         NEW p \in Progress, p.step \in {"emptied", "done"}, p.failed = FALSE,
         p.list >= released[r].today,
         NEW f \in Catalogs, f.age = 0, Exists(f), Covers(f, r), file' = [file EXCEPT ![r] = f],
         task' = Disturbs(To(t, r, p), r), UNCHANGED <<kind, released, prefetched, missed>>
  PROVE  CatalogInv'
<1>1. /\ To(t, r, p) \in [Tasks -> [Feeds -> Progress]]
      /\ \A u \in Tasks, q \in Feeds :
           To(t, r, p)[u][q] = IF u = t /\ q = r THEN p ELSE task[u][q]
  BY TaskTypes DEF To
<1>2. Feeds' = Feeds
  BY DEF Feeds
<1> DEFINE Undone(x) == [x EXCEPT !.had = 0]
<1>3. /\ \A x \in Progress : Undone(x) \in Progress
      /\ \A x \in Progress : /\ Undone(x).step = x.step /\ Undone(x).list = x.list
                             /\ Undone(x).failed = x.failed /\ Undone(x).had = 0
  BY DEF Progress
<1> HIDE DEF Undone
<1>4. /\ task' \in [Tasks -> [Feeds -> Progress]]
      /\ \A u \in Tasks, q \in Feeds :
           task'[u][q] = IF q = r /\ To(t, r, p)[u][r].step = "asked"
                         THEN Undone(To(t, r, p)[u][r]) ELSE To(t, r, p)[u][q]
  <2>1. task' = [u \in Tasks |-> IF To(t, r, p)[u][r].step = "asked"
                                 THEN [To(t, r, p)[u] EXCEPT ![r] = Undone(@)]
                                 ELSE To(t, r, p)[u]]
    BY DEF Disturbs, Undone
  <2>2. \A u \in Tasks : To(t, r, p)[u] \in [Feeds -> Progress] /\ To(t, r, p)[u][r] \in Progress
    BY <1>1
  <2> QED BY <1>3, <2>1, <2>2
<1>5. file \in [Feeds -> Catalogs] /\ \A q \in Feeds : file'[q] = IF q = r THEN f ELSE file[q]
  BY DEF CatalogInv, CatalogTypeOK, Catalogs, States
<1>6. file' \in [Feeds -> Catalogs]
  BY <1>5
<1>7. \A q \in Feeds : Fresh(q) => Fresh(q)'
  BY <1>5 DEF Fresh, TTL
<1>8. ASSUME NEW u \in Tasks, NEW q \in Feeds PROVE Sound(task[u][q], q)'
  <2>1. CASE q # r
    <3>1. task'[u][q] = task[u][q] /\ file'[q] = file[q] /\ Sound(task[u][q], q)
      BY <1>1, <1>4, <1>5, <2>1 DEF CatalogInv, TaskState
    <3> QED BY <3>1 DEF Sound, Fresh
  <2>2. CASE q = r /\ u = t
    <3>1. task'[t][r] = p
      BY <1>1, <1>4
    <3>2. p.list >= released[r].longAgo
      BY FeedTypes DEF Progress
    <3>3. Fresh(r)'
      BY <1>5 DEF Fresh, TTL
    <3> QED BY <2>2, <3>1, <3>2, <3>3 DEF Sound
  <2>3. CASE q = r /\ u # t
    <3>1. Sound(task[u][r], r) /\ task[u][r] \in Progress
      BY TaskTypes DEF CatalogInv, TaskState
    <3>2. task'[u][r] = IF task[u][r].step = "asked" THEN Undone(task[u][r]) ELSE task[u][r]
      BY <1>1, <1>4, <2>3
    <3>3. Fresh(r)'
      BY <1>5 DEF Fresh, TTL
    <3> QED BY <1>3, <2>3, <3>1, <3>2, <3>3 DEF Sound
  <2> QED BY <2>1, <2>2, <2>3
<1>9. CatalogTypeOK'
  BY <1>2, <1>4, <1>6 DEF CatalogInv, CatalogTypeOK, Catalogs, States, Progress, Steps
<1>10. FileState'
  BY <1>2, <1>5 DEF CatalogInv, FileState, Covers, Whole
<1>11. TaskState' /\ FeedState' /\ KnownState' /\ ToolsState'
  BY <1>2, <1>7, <1>8 DEF CatalogInv, TaskState, FeedState, KnownState, ToolsState
<1> QED BY <1>9, <1>10, <1>11 DEF CatalogInv

(* A readable, fresh file has what there was a tick ago.                   *)
LEMMA FreshCovers ==
  ASSUME CatalogInv, NEW r \in Feeds, Current(r) PROVE file[r].list >= released[r].longAgo
<1>1. Covers(file[r], r) /\ Whole(file[r]) /\ file[r].age <= 1
  BY DEF Current, Fresh, TTL, CatalogInv, FileState
<1> QED BY <1>1, FeedTypes DEF Covers

LEMMA FeedSteps ==
  ASSUME CatalogInv, NEW t \in Tasks, NEW r \in Feeds,
         \/ ReadFresh(t, r) \/ RequestSucceeds(t, r) \/ RequestFails(t, r)
         \/ Truncate(t, r) \/ Write(t, r) \/ WriteFails(t, r)
  PROVE  CatalogInv'
<1> USE FeedTypes, TaskTypes
<1> DEFINE p == task[t][r]
<1>1. p \in Progress /\ Sound(p, r)
  BY DEF CatalogInv, TaskState
<1>2. ASSUME NEW n \in Nat
      PROVE  /\ Answered(n) \in Progress /\ Answered(n).step = "done" /\ Answered(n).list = n
             /\ Answered(n).failed = FALSE /\ Answered(n).had = 0
             /\ Received(n) \in Progress /\ Received(n).step = "received" /\ Received(n).list = n
             /\ Received(n).failed = FALSE /\ Received(n).had = 0
  BY DEF Answered, Received, Begun, Progress, Steps
<1>3. /\ Asked(r) \in Progress /\ Asked(r).step = "asked" /\ Asked(r).had = Listed(r)
      /\ Asked(r).failed = FALSE
  BY DEF Asked, Begun, Listed, Progress, Steps
<1>4. CASE ReadFresh(t, r)
  <2>1. CASE Current(r)
    <3>1. Sound(Answered(file[r].list), r)
      BY <1>2, <2>1, FreshCovers DEF Sound, Current
    <3> QED BY <1>2, <1>4, <2>1, <3>1, TaskMoves DEF ReadFresh
  <2>2. CASE ~Current(r)
    <3>1. Sound(Asked(r), r)
      BY <1>3 DEF Sound, Listed
    <3> QED BY <1>3, <1>4, <2>2, <3>1, TaskMoves DEF ReadFresh
  <2> QED BY <2>1, <2>2
<1>5. CASE RequestSucceeds(t, r)
  <2>1. Sound(Received(released[r].now), r)
    BY <1>2 DEF Sound
  <2> QED BY <1>2, <1>5, <2>1, TaskMoves DEF RequestSucceeds
<1>6. CASE RequestFails(t, r)
  <2> DEFINE q == [p EXCEPT !.step = "done", !.failed = TRUE, !.list = Listed(r)]
  <2>1. /\ q \in Progress /\ q.step = "done" /\ q.failed = TRUE /\ q.list = Listed(r)
        /\ q.had = p.had
    BY <1>1 DEF Progress, Steps, Listed
  <2>2. p.step = "asked" /\ task' = To(t, r, q)
    BY <1>6 DEF RequestFails, Step
  <2> HIDE DEF q
  <2>3. Sound(q, r)
    BY <1>1, <2>1, <2>2 DEF Sound, Listed
  <2> QED BY <1>6, <2>1, <2>2, <2>3, TaskMoves DEF RequestFails
<1>7. CASE WriteFails(t, r)
  <2> DEFINE q == [Answered(p.list) EXCEPT !.step = "unwritten"]
  <2>1. q \in Progress /\ q.step = "unwritten" /\ q.failed = FALSE /\ q.list = p.list /\ q.had = 0
    <3> DEFINE a == Answered(p.list)
    <3>1. a \in Progress /\ a.failed = FALSE /\ a.list = p.list /\ a.had = 0
      BY <1>2
    <3> HIDE DEF a
    <3>2. q = [a EXCEPT !.step = "unwritten"]
      BY DEF a
    <3> HIDE DEF q
    <3> QED BY <3>1, <3>2 DEF Progress, Steps
  <2>2. p.step \in {"received", "emptied"} /\ task' = To(t, r, q)
    BY <1>7 DEF WriteFails, Step
  <2> HIDE DEF q
  <2>3. Sound(q, r)
    BY <1>1, <2>1, <2>2 DEF Sound
  <2> QED BY <1>7, <2>1, <2>2, <2>3, TaskMoves DEF WriteFails
<1>8. CASE Truncate(t, r)
  <2> DEFINE q == [p EXCEPT !.step = "emptied"]
             f == Unreadable("emptied", 0)
  <2>1. /\ q \in Progress /\ q.step = "emptied" /\ q.failed = p.failed /\ q.list = p.list
        /\ q.had = p.had
    BY <1>1 DEF Progress, Steps
  <2>2. /\ p.step = "received" /\ task' = Disturbs(To(t, r, q), r)
        /\ file' = [file EXCEPT ![r] = f]
    BY <1>8 DEF Truncate, Step
  <2>3. f \in Catalogs /\ f.age = 0 /\ Exists(f) /\ Covers(f, r)
    BY DEF Unreadable, Catalogs, States, Exists, Covers, Whole, Expired, TTL
  <2> HIDE DEF q, f
  <2>4. q.failed = FALSE /\ q.list >= released[r].today
    BY <1>1, <2>1, <2>2 DEF Sound
  <2> QED BY <1>8, <2>1, <2>2, <2>3, <2>4, FileMoves DEF Truncate
<1>9. CASE Write(t, r)
  <2> DEFINE q == Answered(p.list)
             f == Overwritten(file[r], p.list)
  <2>1. p.step = "emptied" /\ task' = Disturbs(To(t, r, q), r) /\ file' = [file EXCEPT ![r] = f]
    BY <1>9 DEF Write, Step
  <2>2. f \in Catalogs /\ f.age = 0 /\ Exists(f) /\ (Whole(f) => f.list = p.list)
    BY DEF Overwritten, Unreadable, Lists, Catalogs, States, Exists, Whole, Expired, TTL
  <2>3. p.list >= released[r].today
    BY <1>1, <2>1 DEF Sound
  <2>4. Covers(f, r)
    BY <2>2, <2>3 DEF Covers
  <2>5. q \in Progress /\ q.step = "done" /\ q.list = p.list /\ q.failed = FALSE /\ q.had = 0
    BY <1>2
  <2> HIDE DEF q, f
  <2> QED BY <1>9, <2>1, <2>2, <2>3, <2>4, <2>5, FileMoves DEF Write
<1> QED BY <1>4, <1>5, <1>6, <1>7, <1>8, <1>9

-----------------------------------------------------------------------------
(* Tasks begin and end, lists grow, time passes.                           *)

(* A task whose feeds are all sound, with nothing known in between.        *)
LEMMA TaskTurns ==
  ASSUME CatalogInv, NEW t \in Tasks, NEW all \in [Feeds -> Progress],
         \A r \in Feeds : Sound(all[r], r), task' = [task EXCEPT ![t] = all],
         UNCHANGED <<kind, released, file>>
  PROVE  /\ CatalogTypeOK' <=> prefetched' \in BOOLEAN /\ missed' \subseteq Feeds
         /\ Feeds' = Feeds /\ FeedState' /\ FileState' /\ TaskState'
<1>1. task \in [Tasks -> [Feeds -> Progress]] /\ task' \in [Tasks -> [Feeds -> Progress]]
  BY TaskTypes DEF CatalogInv, CatalogTypeOK, Progress, Steps
<1>2. Feeds' = Feeds
  BY DEF Feeds
<1>3. \A u \in Tasks, q \in Feeds : task'[u][q] = IF u = t THEN all[q] ELSE task[u][q]
  BY <1>1
<1>4. \A x, q : Sound(x, q) => Sound(x, q)'
  BY DEF Sound, Whole, Fresh, Exists
<1>5. TaskState'
  BY <1>2, <1>3, <1>4 DEF CatalogInv, TaskState
<1>6. FeedState' /\ FileState'
  BY <1>2 DEF CatalogInv, FeedState, FileState, Covers, Whole
<1>7. CatalogTypeOK' <=> prefetched' \in BOOLEAN /\ missed' \subseteq Feeds
  BY <1>1, <1>2 DEF CatalogInv, CatalogTypeOK, Progress, Steps
<1> QED BY <1>2, <1>5, <1>6, <1>7

LEMMA TaskSteps ==
  ASSUME CatalogInv, NEW t \in Tasks, Fetch(t) \/ Finish(t) \/ Dies(t) PROVE CatalogInv'
<1>1. CASE Fetch(t)
  <2> DEFINE all == [r \in Feeds |-> Begun]
  <2>1. all \in [Feeds -> Progress] /\ \A r \in Feeds : Sound(all[r], r)
    BY BegunSound
  <2>2. task' = [task EXCEPT ![t] = all] /\ UNCHANGED <<kind, released, file, prefetched, missed>>
    BY <1>1 DEF Fetch
  <2> HIDE DEF all
  <2>3. Feeds' = Feeds /\ FeedState' /\ FileState' /\ TaskState' /\ CatalogTypeOK'
    BY <2>1, <2>2, TaskTurns DEF CatalogInv, CatalogTypeOK
  <2> QED BY <2>2, <2>3 DEF CatalogInv, KnownState, ToolsState, Fresh, Exists
<1>2. CASE Dies(t)
  <2>1. task' = [task EXCEPT ![t] = Idle] /\ UNCHANGED <<kind, released, file, prefetched, missed>>
    BY <1>2 DEF Dies
  <2>2. Feeds' = Feeds /\ FeedState' /\ FileState' /\ TaskState' /\ CatalogTypeOK'
    BY <2>1, BegunSound, TaskTurns DEF CatalogInv, CatalogTypeOK
  <2> QED BY <2>1, <2>2 DEF CatalogInv, KnownState, ToolsState, Fresh, Exists
<1>3. CASE Finish(t)
  <2> DEFINE left == {r \in Feeds : task[t][r].failed \/ Step(t, r, "unwritten")}
  <2>1. /\ task' = [task EXCEPT ![t] = Idle] /\ UNCHANGED <<kind, released, file>>
        /\ \A r \in Feeds : Ended(t, r)
        /\ \/ Prefetched(left)
           \/ UNCHANGED <<prefetched, missed>>
    BY <1>3 DEF Finish
  <2>2. /\ Feeds' = Feeds /\ FeedState' /\ FileState' /\ TaskState'
        /\ CatalogTypeOK' <=> prefetched' \in BOOLEAN /\ missed' \subseteq Feeds
    BY <2>1, BegunSound, TaskTurns
  <2>3. \A r \in Feeds \ left : Fresh(r)
    <3>1. ASSUME NEW r \in Feeds \ left PROVE Fresh(r)
      BY <2>1, TaskTypes DEF CatalogInv, TaskState, Sound, Ended, Step
    <3> QED BY <3>1
  <2>4. \A r : Fresh(r)' <=> Fresh(r)
    BY <2>1 DEF Fresh, Exists
  <2>5. CASE Prefetched(left)
    <3>1. prefetched' \in BOOLEAN /\ missed' \subseteq Feeds
      BY <2>5 DEF Prefetched
    <3>2. KnownState' /\ ToolsState'
      BY <2>1, <2>2, <2>3, <2>4, <2>5 DEF KnownState, ToolsState, Prefetched
    <3> QED BY <2>2, <3>1, <3>2 DEF CatalogInv
  <2>6. CASE UNCHANGED <<prefetched, missed>>
    BY <2>1, <2>2, <2>4, <2>6 DEF CatalogInv, CatalogTypeOK, KnownState, ToolsState
  <2> QED BY <2>1, <2>5, <2>6
<1> QED BY <1>1, <1>2, <1>3

LEMMA SkipSteps == ASSUME CatalogInv, Skip PROVE CatalogInv'
<1>1. /\ Prefetched({r \in Feeds : ~Current(r)}) /\ UNCHANGED <<kind, released, file, task>>
      /\ Feeds' = Feeds
  BY DEF Skip, Feeds
<1>2. CatalogTypeOK' /\ FeedState' /\ FileState'
  BY <1>1 DEF CatalogInv, CatalogTypeOK, Prefetched, FeedState, FileState, Covers, Whole
<1>3. TaskState'
  BY <1>1 DEF CatalogInv, TaskState, Sound, Whole, Fresh, Exists
<1>4. KnownState' /\ ToolsState'
  BY <1>1 DEF Prefetched, KnownState, ToolsState, Current, Fresh, Exists
<1> QED BY <1>2, <1>3, <1>4 DEF CatalogInv

LEMMA ReleaseSteps == ASSUME CatalogInv, NEW r \in Feeds, Release(r) PROVE CatalogInv'
<1>1. /\ released' = [released EXCEPT ![r].now = @ + 1] /\ Feeds' = Feeds
      /\ UNCHANGED <<kind, file, task, prefetched, missed>>
  BY DEF Release, Feeds
<1>2. released \in [Feeds -> Counts]
  BY DEF CatalogInv, CatalogTypeOK, Counts
<1>3. /\ released' \in [Feeds -> Counts]
      /\ \A q \in Feeds : /\ released'[q].today = released[q].today
                          /\ released'[q].longAgo = released[q].longAgo
                          /\ released'[q].now >= released[q].now
  BY <1>1, <1>2 DEF Counts
<1>4. CatalogTypeOK'
  BY <1>1, <1>3 DEF CatalogInv, CatalogTypeOK, Counts
<1>5. FeedState'
  BY <1>1, <1>3, FeedTypes DEF FeedState, Counts
<1>6. FileState'
  BY <1>1, <1>3 DEF CatalogInv, FileState, Covers, Whole
<1>7. TaskState'
  <2>1. ASSUME NEW x, NEW q \in Feeds, Sound(x, q) PROVE Sound(x, q)'
    BY <1>1, <1>3, <2>1 DEF Sound, Whole, Fresh, Exists
  <2> QED BY <1>1, <2>1 DEF CatalogInv, TaskState
<1>8. KnownState' /\ ToolsState'
  BY <1>1 DEF CatalogInv, KnownState, ToolsState, Fresh, Exists
<1> QED BY <1>4, <1>5, <1>6, <1>7, <1>8 DEF CatalogInv

(* A tick later what was written today is a tick old, and today's releases *)
(* are those of a tick ago.                                                *)
LEMMA TickSteps == ASSUME CatalogInv, Tick PROVE CatalogInv'
<1> USE FeedTypes
<1>1. /\ \A t \in Tasks : task[t] = Idle
      /\ Feeds' = Feeds /\ UNCHANGED <<kind, task>> /\ ~prefetched' /\ missed' = {}
      /\ prefetched' \in BOOLEAN
      /\ released' = [r \in Feeds |-> [released[r] EXCEPT !.longAgo = released[r].today,
                                                          !.today = released[r].now]]
      /\ file' = [r \in Feeds |-> [file[r] EXCEPT !.age = IF @ > TTL THEN Expired ELSE @ + 1]]
  BY DEF Tick, Feeds
<1>2. ASSUME NEW r \in Feeds
      PROVE  /\ released'[r] \in Counts /\ file'[r] \in Catalogs
             /\ released'[r].now = released[r].now /\ released'[r].today = released[r].now
             /\ released'[r].longAgo = released[r].today
             /\ file'[r].state = file[r].state /\ file'[r].list = file[r].list
             /\ file'[r].age = IF file[r].age > 1 THEN 2 ELSE file[r].age + 1
  <2>1. released[r] \in Counts /\ file[r] \in Catalogs /\ file[r].age \in 0 .. 2
    OBVIOUS
  <2>2. released'[r] = [released[r] EXCEPT !.longAgo = released[r].today,
                                           !.today = released[r].now]
    BY <1>1
  <2>3. file'[r] = [file[r] EXCEPT !.age = IF file[r].age > TTL THEN Expired ELSE file[r].age + 1]
    BY <1>1
  <2>4. /\ released'[r] \in Counts
        /\ released'[r].now = released[r].now /\ released'[r].today = released[r].now
        /\ released'[r].longAgo = released[r].today
    BY <2>1, <2>2 DEF Counts
  <2> DEFINE age == IF file[r].age > TTL THEN Expired ELSE file[r].age + 1
  <2>5. age \in 0 .. 2 /\ age = IF file[r].age > 1 THEN 2 ELSE file[r].age + 1
    BY <2>1 DEF Expired, TTL
  <2>6. file'[r] = [file[r] EXCEPT !.age = age]
    BY <2>3
  <2> HIDE DEF age
  <2>7. /\ file'[r] \in [state : States, list : Nat, age : 0 .. 2]
        /\ file'[r].state = file[r].state /\ file'[r].list = file[r].list /\ file'[r].age = age
    BY <2>1, <2>5, <2>6 DEF Catalogs, Expired, TTL
  <2> QED BY <2>4, <2>5, <2>7 DEF Catalogs, Expired, TTL
<1>3. released' \in [Feeds -> Counts] /\ file' \in [Feeds -> Catalogs]
  BY <1>1, <1>2
<1>4. CatalogTypeOK'
  BY <1>1, <1>3 DEF CatalogInv, CatalogTypeOK, Counts, Catalogs, States
<1>5. FeedState'
  <2>1. ASSUME NEW r \in Feeds
        PROVE  released'[r].longAgo <= released'[r].today /\ released'[r].today <= released'[r].now
    <3>1. /\ released'[r].now = released[r].now /\ released'[r].today = released[r].now
          /\ released'[r].longAgo = released[r].today
      BY <1>2
    <3> QED BY <3>1
  <2> QED BY <1>1, <2>1 DEF FeedState
<1>6. FileState'
  <2>1. ASSUME NEW r \in Feeds PROVE Covers(file[r], r)'
    <3>1. Covers(file[r], r)
      BY DEF CatalogInv, FileState
    <3> QED BY <1>2, <3>1 DEF Covers, Whole
  <2> QED BY <1>1, <2>1 DEF FileState
<1>7. TaskState'
  BY <1>1, BegunSound DEF TaskState, Sound
<1> QED BY <1>1, <1>4, <1>5, <1>6, <1>7 DEF CatalogInv, KnownState, ToolsState

-----------------------------------------------------------------------------
LEMMA StepCatalog == CatalogInv /\ [CatalogNext]_catalogVars => CatalogInv'
<1> SUFFICES ASSUME CatalogInv, [CatalogNext]_catalogVars PROVE CatalogInv'
  OBVIOUS
<1>1. CASE UNCHANGED catalogVars
  <2>1. UNCHANGED <<kind, released, file, task, prefetched, missed>> /\ Feeds' = Feeds
    BY <1>1 DEF catalogVars, Feeds
  <2>2. CatalogTypeOK' /\ FeedState' /\ FileState' /\ KnownState' /\ ToolsState'
    BY <2>1 DEF CatalogInv, CatalogTypeOK, FeedState, FileState, Covers, Whole,
                KnownState, ToolsState, Fresh, Exists
  <2>3. TaskState'
    BY <2>1 DEF CatalogInv, TaskState, Sound, Whole, Fresh, Exists
  <2> QED BY <2>2, <2>3 DEF CatalogInv
<1> QED BY <1>1, FeedSteps, TaskSteps, SkipSteps, ReleaseSteps, TickSteps DEF CatalogNext

(* CatalogTypeOK: catalogues, tasks and histories are what they should be. *)
THEOREM CatalogTypeCorrect == CatalogSpec => []CatalogTypeOK
<1>1. CatalogInv => CatalogTypeOK
  BY DEF CatalogInv
<1> QED BY InitCatalog, StepCatalog, <1>1, PTL DEF CatalogSpec

(* AnswersCurrent: a feed that answers has every release a tick old, one   *)
(* that fails still what was on disk (registry_versions.rs), for any tasks *)
(* of any processes.                                                       *)
THEOREM AnswersStayCurrent == CatalogSpec => []AnswersCurrent
<1>1. CatalogInv => AnswersCurrent
  BY DEF CatalogInv, TaskState, Sound, AnswersCurrent, Ended
<1> QED BY InitCatalog, StepCatalog, <1>1, PTL DEF CatalogSpec

(* The longest of the readable lists is none of them shorter.              *)
LEMMA CachedIsLongest ==
  ASSUME CatalogInv, kind # "tools", NEW r \in Feeds, Whole(file[r])
  PROVE  CachedVersions \in Nat /\ CachedVersions >= file[r].list
<1> DEFINE S == {0} \cup {file[q].list : q \in {x \in Feeds : Whole(file[x])}}
<1>1. S \subseteq Nat /\ file[r].list \in S
  BY FeedTypes
<1>2. \E a, b \in S : \A x \in S : x \in {0, a, b}
  <2>1. CASE kind = "git"
    <3>1. S \subseteq {0, file["tags"].list}
      BY <2>1 DEF Feeds
    <3>2. r = "tags"
      BY <2>1 DEF Feeds
    <3> QED BY <1>1, <3>1, <3>2
  <2>2. CASE kind # "git"
    <3>1. Feeds = {"terraform", "opentofu"}
      BY <2>2 DEF Feeds
    <3> DEFINE a == IF Whole(file["terraform"]) THEN file["terraform"].list ELSE 0
               b == IF Whole(file["opentofu"]) THEN file["opentofu"].list ELSE 0
    <3>2. a \in S /\ b \in S /\ S \subseteq {0, a, b}
      BY <3>1
    <3> HIDE DEF a, b, S
    <3> QED BY <3>2
  <2> QED BY <2>1, <2>2
<1>3. \E m \in S : \A x \in S : m >= x
  <2>1. PICK a \in S, b \in S : \A x \in S : x \in {0, a, b}
    BY <1>2
  <2> HIDE DEF S
  <2>2. a \in Nat /\ b \in Nat
    BY <1>1, <2>1
  <2>3. CASE a >= b
    BY <1>1, <2>1, <2>2, <2>3
  <2>4. CASE b >= a
    BY <1>1, <2>1, <2>2, <2>4
  <2> QED BY <2>2, <2>3, <2>4
<1>4. CachedVersions = CHOOSE m \in S : \A x \in S : m >= x
  BY DEF CachedVersions, Max
<1> HIDE DEF S
<1>5. CachedVersions \in S /\ \A x \in S : CachedVersions >= x
  BY <1>3, <1>4
<1> QED BY <1>1, <1>5

(* DiagnosticsKnow: what a prefetch fetched, or found fresh, the           *)
(* diagnostics know, whoever else rewrites the files meanwhile.            *)
THEOREM DiagnosticsAlwaysKnow == CatalogSpec => []DiagnosticsKnow
<1>1. ASSUME CatalogInv PROVE DiagnosticsKnow
  <2> SUFFICES ASSUME prefetched, NEW r \in Feeds \ missed, Exists(file[r]) => Whole(file[r])
               PROVE  CachedVersions >= released[r].longAgo
    BY DEF DiagnosticsKnow
  <2>1. Current(r) /\ kind # "tools"
    BY <1>1 DEF CatalogInv, KnownState, ToolsState, Current, Fresh
  <2>2. /\ CachedVersions \in Nat /\ CachedVersions >= file[r].list
        /\ file[r].list >= released[r].longAgo
    BY <1>1, <2>1, CachedIsLongest, FreshCovers DEF Current
  <2> QED BY <1>1, <2>2, FeedTypes
<1> QED BY InitCatalog, StepCatalog, <1>1, PTL DEF CatalogSpec

=============================================================================
