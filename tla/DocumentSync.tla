---------------------------- MODULE DocumentSync ----------------------------
(***************************************************************************)
(* One document between the editor, the server and the disk: the life      *)
(* cycle handlers (crates/tfls-lsp/src/handlers/document.rs,               *)
(* formatting.rs), the disk-driven paths that also write it (indexer.rs,   *)
(* tfls-engine/src/index.rs) and the store operations they share           *)
(* (tfls-state/src/store.rs, document.rs).                                 *)
(*                                                                         *)
(* Handlers run as futures of one task: a handler's steps up to its first  *)
(* await are not interleaved with other handlers, but they are with the    *)
(* worker task, the watcher task and the blocking threads.  A text is      *)
(* named by the session and version that produced it; session 0 is the     *)
(* disk's own.                                                             *)
(***************************************************************************)
EXTENDS Naturals, Sequences, SequencesExt

CONSTANTS
  Loaders,      \* "worker" (ParseFile jobs), "sync" (module indexing and scans)
  MaxSessions,  \* bounds: how often the document is opened
  MaxVersion,   \* ... edited within a session
  MaxWrites,    \* ... saved, written from outside or deleted
  MaxPending,   \* ... and how many messages and events are under way
  Events,       \* what may happen besides opening, editing and closing
  NoFile, NoDocument

ASSUME SyncAssumption ==
  /\ Loaders \subseteq {"worker", "sync"}
  /\ {MaxSessions, MaxVersion, MaxWrites, MaxPending} \subseteq Nat
  /\ MaxVersion > 0                   \* a document is opened as version 1
  /\ Events \subseteq {"format", "save", "write", "delete", "reorder"}

Texts == (0 .. MaxSessions) \X (0 .. MaxVersion + MaxWrites)
Versions == 0 .. MaxVersion
Document == [text : Texts, version : Versions]
Message == [kind : {"open", "change", "format", "close"}, session : 0 .. MaxSessions,
            text : Texts, version : Versions]

ASSUME NothingAssumption == NoDocument \notin Document

VARIABLES
  editor,       \* the editor: open or not, session, version and buffer
  disk,         \* the text of the file, or NoFile
  writes,       \* how often the file was changed so far
  inbox,        \* notifications and requests not yet begun
  serving,      \* the handler in the middle of its first steps
  lock_queue,   \* the waiters of the document's doc_lock, first in first out
  document,     \* the stored document, or NoDocument
  open_docs,    \* whether the server holds the document open
  watch,        \* the watcher's events
  parse_job,    \* whether a ParseFile job waits in the queue
  loader,       \* the progress of each disk-driven upsert
  remover,      \* the watcher task inside handle_disk_removal
  spoiled       \* history: what put another text over the open buffer, and the
                \* newest version of the buffer that was lost

vars == <<editor, disk, writes, inbox, serving, lock_queue, document, open_docs,
          watch, parse_job, loader, remover, spoiled>>
clientVars == <<editor, disk, writes>>
diskVars == <<watch, parse_job, loader, remover>>
stored == <<document, spoiled>>

Unspoiled == [by |-> "nothing", over |-> 0]
NoLoad == [step |-> "idle", text |-> NoFile]

TypeOK ==
  /\ editor \in [open : BOOLEAN, session : 0 .. MaxSessions,
                 version : Versions, text : Texts]
  /\ disk \in Texts \cup {NoFile}
  /\ writes \in 0 .. MaxWrites
  /\ inbox \in Seq(Message)
  /\ serving \in {"none", "open", "close"}
  /\ lock_queue \in Seq(Message)
  /\ document \in Document \cup {NoDocument}
  /\ open_docs \in BOOLEAN
  /\ watch \in Seq({"changed", "removed"})
  /\ parse_job \in BOOLEAN
  /\ loader \in [Loaders -> [step : {"idle", "begun", "read", "checked"},
                             text : Texts \cup {NoFile}]]
  /\ remover \in {"idle", "checked"}
  /\ spoiled \in [by : {"nothing", "disk", "session"}, over : Versions]

Init ==
  /\ editor = [open |-> FALSE, session |-> 0, version |-> 0, text |-> <<0, 0>>]
  /\ disk = <<0, 0>>
  /\ writes = 0
  /\ inbox = <<>> /\ serving = "none" /\ lock_queue = <<>>
  /\ document = NoDocument
  /\ open_docs = FALSE
  /\ watch = <<>> /\ parse_job = FALSE
  /\ loader = [l \in Loaders |-> NoLoad]
  /\ remover = "idle"
  /\ spoiled = Unspoiled

-----------------------------------------------------------------------------
(* The editor and the rest of the machine.                                 *)

MaySend == Len(inbox) + Len(lock_queue) < MaxPending
MayNotify == Len(watch) < MaxPending

Send(kind) ==
  inbox' = Append(inbox, [kind |-> kind, session |-> editor'.session,
                          text |-> editor'.text, version |-> editor'.version])

serverVars == <<serving, lock_queue, document, open_docs, parse_job, loader, remover, spoiled>>

EditorOpens ==
  /\ ~editor.open /\ editor.session < MaxSessions
  /\ disk # NoFile /\ MaySend
  /\ editor' = [open |-> TRUE, session |-> editor.session + 1, version |-> 1, text |-> disk]
  /\ Send("open")
  /\ UNCHANGED <<disk, writes, watch, serverVars>>

EditorChanges ==
  /\ editor.open /\ editor.version < MaxVersion /\ MaySend
  /\ editor' = [editor EXCEPT !.version = @ + 1,
                              !.text = <<editor.session, editor.version + 1>>]
  /\ Send("change")
  /\ UNCHANGED <<disk, writes, watch, serverVars>>

EditorFormats ==
  /\ "format" \in Events /\ editor.open /\ MaySend
  /\ UNCHANGED editor
  /\ Send("format")
  /\ UNCHANGED <<disk, writes, watch, serverVars>>

OnDisk(content, event) ==
  /\ MayNotify /\ writes < MaxWrites
  /\ writes' = writes + 1
  /\ disk' = content
  /\ watch' = Append(watch, event)
  /\ UNCHANGED <<editor, inbox, serverVars>>

(* did_save only reparses what is stored; the write is seen on disk.       *)
EditorSaves ==
  /\ "save" \in Events /\ editor.open /\ disk # editor.text
  /\ OnDisk(editor.text, "changed")

EditorCloses ==
  /\ editor.open /\ MaySend
  /\ editor' = [editor EXCEPT !.open = FALSE]
  /\ Send("close")
  /\ UNCHANGED <<disk, writes, watch, serverVars>>

ExternalWrite ==
  /\ "write" \in Events
  /\ OnDisk(<<0, writes + 1>>, "changed")

ExternalDelete ==
  /\ "delete" \in Events /\ disk # NoFile
  /\ OnDisk(NoFile, "removed")
-----------------------------------------------------------------------------
(* The life cycle handlers.  A message stays in the inbox until the first  *)
(* steps of its handler are over.                                          *)

(* Notifications begin in the order of the inbox; where the transport      *)
(* reorders, a full-text edit may overtake the edits just before it.       *)
Deliverable ==
  {i \in DOMAIN inbox :
     i = 1 \/ ("reorder" \in Events /\ \A j \in 1 .. i : inbox[j].kind = "change")}

DidOpenMark ==
  /\ serving = "none" /\ inbox # <<>> /\ Head(inbox).kind = "open"
  /\ serving' = "open"
  /\ open_docs' = TRUE
  /\ UNCHANGED <<clientVars, diskVars, inbox, lock_queue, stored>>

DidOpenUpsert ==
  /\ serving = "open"
  /\ serving' = "none"
  /\ document' = [text |-> Head(inbox).text, version |-> Head(inbox).version]
  /\ spoiled' = Unspoiled
  /\ inbox' = Tail(inbox)
  /\ UNCHANGED <<clientVars, diskVars, lock_queue, open_docs>>

DidCloseMark ==
  /\ serving = "none" /\ inbox # <<>> /\ Head(inbox).kind = "close"
  /\ serving' = "close"
  /\ open_docs' = FALSE
  /\ UNCHANGED <<clientVars, diskVars, inbox, lock_queue, stored>>

DidCloseRemove ==
  /\ serving = "close"
  /\ serving' = "none"
  /\ document' = NoDocument
  /\ spoiled' = Unspoiled
  /\ inbox' = Tail(inbox)
  /\ UNCHANGED <<clientVars, diskVars, lock_queue, open_docs>>

(* Faulty: a format request does not wait its turn.                        *)
WaitFormatFirst(m) == IF m.kind = "format" THEN <<m>> \o lock_queue
                                           ELSE Append(lock_queue, m)

(* did_change and formatting up to the await of doc_lock, a fair mutex.    *)
Wait(m) == Append(lock_queue, m)

AwaitDocLock(i) ==
  /\ serving = "none"
  /\ inbox[i].kind \in {"change", "format"}
  /\ lock_queue' = Wait(inbox[i])
  /\ inbox' = RemoveAt(inbox, i)
  /\ UNCHANGED <<clientVars, diskVars, serving, stored, open_docs>>

(* Faulty: whatever comes last wins; or a version gap is never bridged.    *)
SupersedesAlways(m) == TRUE
SupersedesInSequence(m) == m.version = document.version + 1

(* apply_versioned_changes takes a newer version only.                     *)
Supersedes(m) == m.version > document.version

Applied(m) == [text |-> m.text, version |-> m.version]

(* An edit of a session that ended, its document open again by now.        *)
Late(m) ==
  /\ open_docs /\ m.session < editor.session
  /\ \A i \in DOMAIN inbox : inbox[i].kind # "open"

(* A version of the open buffer the store had, or was sent, and has lost.   *)
Lost(version) ==
  IF ~open_docs THEN Unspoiled
  ELSE [by |-> "disk", over |-> IF version > spoiled.over THEN version ELSE spoiled.over]

(* The harm to the open buffer once the store has taken an edit: a late    *)
(* one does it, one at least as new as what was lost ends it.              *)
Overwritten(m) ==
  IF Late(m) THEN [by |-> "session", over |-> 0]
  ELSE IF m.version < spoiled.over THEN spoiled ELSE Unspoiled

(* did_change holding doc_lock: apply_and_reparse_document on a blocking   *)
(* thread.  An absent document or a stale version leaves the store alone.  *)
ApplyChange ==
  /\ lock_queue # <<>> /\ Head(lock_queue).kind = "change"
  /\ LET m == Head(lock_queue) IN
       \/ /\ document = NoDocument
          /\ spoiled' = Lost(m.version)
          /\ UNCHANGED document
       \/ /\ document # NoDocument /\ ~Supersedes(m)
          /\ UNCHANGED stored
       \/ /\ document # NoDocument /\ Supersedes(m)
          /\ document' = Applied(m)
          /\ spoiled' = Overwritten(m)
  /\ lock_queue' = Tail(lock_queue)
  /\ UNCHANGED <<clientVars, diskVars, inbox, serving, open_docs>>

(* formatting holding doc_lock: it reads the rope and answers.             *)
FormatDocument ==
  /\ serving = "none"
  /\ lock_queue # <<>> /\ Head(lock_queue).kind = "format"
  /\ lock_queue' = Tail(lock_queue)
  /\ UNCHANGED <<clientVars, diskVars, inbox, serving, stored, open_docs>>

Handlers ==
  \/ DidOpenMark \/ DidOpenUpsert \/ DidCloseMark \/ DidCloseRemove
  \/ \E i \in Deliverable : AwaitDocLock(i)
  \/ ApplyChange \/ FormatDocument

-----------------------------------------------------------------------------
(* The paths that follow the disk.                                         *)

handlerVars == <<inbox, serving, lock_queue, open_docs>>

FromDisk == Lost(IF document = NoDocument THEN 0 ELSE document.version)

(* The watcher turns a change into a ParseFile job; one already pending    *)
(* is not queued twice.                                                    *)
WatchChanged ==
  /\ remover = "idle" /\ watch # <<>> /\ Head(watch) = "changed"
  /\ watch' = Tail(watch)
  /\ parse_job' = TRUE
  /\ UNCHANGED <<clientVars, handlerVars, stored, loader, remover>>

(* handle_disk_removal: returns early for an open document, then removes.  *)
WatchRemoved ==
  /\ remover = "idle" /\ watch # <<>> /\ Head(watch) = "removed"
  /\ watch' = Tail(watch)
  /\ remover' = IF open_docs THEN "idle" ELSE "checked"
  /\ UNCHANGED <<clientVars, handlerVars, stored, parse_job, loader>>

RemoveFromDisk ==
  /\ remover = "checked"
  /\ remover' = "idle"
  /\ document' = NoDocument
  /\ spoiled' = FromDisk
  /\ UNCHANGED <<clientVars, handlerVars, watch, parse_job, loader>>

(* The worker takes the job; module indexing and scans pick the file when  *)
(* it is neither open nor stored.                                          *)
LoadBegins(l) ==
  /\ loader[l].step = "idle"
  /\ \/ l = "worker" /\ parse_job /\ parse_job' = FALSE
     \/ l = "sync" /\ ~open_docs /\ document = NoDocument /\ UNCHANGED parse_job
  /\ loader' = [loader EXCEPT ![l] = [step |-> "begun", text |-> NoFile]]
  /\ UNCHANGED <<clientVars, handlerVars, stored, watch, remover>>

LoadReads(l) ==
  /\ loader[l].step = "begun"
  /\ loader' = [loader EXCEPT ![l] =
                  IF disk = NoFile THEN NoLoad ELSE [step |-> "read", text |-> disk]]
  /\ UNCHANGED <<clientVars, handlerVars, stored, watch, parse_job, remover>>

(* upsert_document_unless_open looks at open_docs ...                      *)
Refuses == open_docs

LoadChecksOpen(l) ==
  /\ loader[l].step = "read"
  /\ loader' = [loader EXCEPT ![l] =
                  IF Refuses THEN NoLoad ELSE [@ EXCEPT !.step = "checked"]]
  /\ UNCHANGED <<clientVars, handlerVars, stored, watch, parse_job, remover>>

(* ... and upserts what was read as version 0, without looking again.      *)
Loaded(text) == [text |-> text, version |-> 0]

LoadUpserts(l) ==
  /\ loader[l].step = "checked"
  /\ document' = Loaded(loader[l].text)
  /\ spoiled' = FromDisk
  /\ loader' = [loader EXCEPT ![l] = NoLoad]
  /\ UNCHANGED <<clientVars, handlerVars, watch, parse_job, remover>>

DiskPaths ==
  \/ WatchChanged \/ WatchRemoved \/ RemoveFromDisk
  \/ \E l \in Loaders :
       LoadBegins(l) \/ LoadReads(l) \/ LoadChecksOpen(l) \/ LoadUpserts(l)

Environment ==
  \/ EditorOpens \/ EditorChanges \/ EditorFormats \/ EditorSaves \/ EditorCloses
  \/ ExternalWrite \/ ExternalDelete

Next == Environment \/ Handlers \/ DiskPaths

Spec == Init /\ [][Next]_vars

(* The runtime polls every handler that can go on: tokio's executor and    *)
(* blocking pool starve no ready future.                                   *)
FairSpec == Spec /\ WF_vars(Handlers)

-----------------------------------------------------------------------------
(* Nothing sent is unanswered and no disk-driven step is under way.        *)
Quiescent ==
  /\ inbox = <<>> /\ serving = "none" /\ lock_queue = <<>>
  /\ watch = <<>> /\ ~parse_job /\ remover = "idle"
  /\ \A l \in Loaders : loader[l] = NoLoad

Synced == document = [text |-> editor.text, version |-> editor.version]

(* Once everything is served, the server's copy of an open document is the *)
(* editor's buffer, whatever order the edits and the disk events came in   *)
(* (capabilities.rs: "the server's rope is always exactly the editor's     *)
(* buffer").  It is not when a disk load or removal slipped past the open  *)
(* check, until an edit at least as new as the lost buffer is applied, nor *)
(* when an edit of an earlier session was still waiting for doc_lock and   *)
(* carries a higher version than the reopened buffer.                      *)
InSync == Quiescent /\ editor.open /\ spoiled = Unspoiled => Synced

(* The same without exception: the document an editor holds open is never  *)
(* clobbered by what was read from disk (store.rs: "a (possibly stale)     *)
(* disk read must never clobber it").                                      *)
NeverClobbered == Quiescent /\ editor.open => Synced

(* A format request never reads a text older than the buffer it was sent   *)
(* for: doc_lock makes it wait for every edit that precedes it.            *)
FormatNotStale ==
  [][(/\ FormatDocument
      /\ document # NoDocument /\ spoiled = Unspoiled
      /\ editor.open /\ Head(lock_queue).session = editor.session)
       => document.version >= Head(lock_queue).version]_vars

(* From some point on an open document is in sync for good: edits stop,    *)
(* and no reordering of them leaves the server's copy stuck behind.        *)
Converges == <>[](editor.open /\ spoiled = Unspoiled => Synced)
=============================================================================
