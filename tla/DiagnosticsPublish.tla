------------------------- MODULE DiagnosticsPublish -------------------------
(***************************************************************************)
(* Which diagnostics the editor ends up showing: the handlers did_open,    *)
(* did_change, did_save and did_close (crates/tfls-lsp/src/handlers/       *)
(* document.rs) and the worker's ParseFile job (indexer.rs) compute them   *)
(* on blocking threads and publish them, for their own document and for    *)
(* the open peers of its module, each at a moment of its own.              *)
(*                                                                         *)
(* A text is a number, counted up per document; its fingerprint is what    *)
(* cross_file_fingerprint tells apart.  What is computed for a document    *)
(* depends on the texts of all documents of the module and is read in one  *)
(* step (StateStore takes that reading apart).  The editor shows what was  *)
(* published last.                                                         *)
(***************************************************************************)
EXTENDS Naturals, Sequences, SequencesExt, FiniteSets, TLC

CONSTANTS
  Docs,         \* the documents of one module
  MaxText,      \* bounds: texts of a document
  MaxTasks,     \* ... notifications and jobs, each a task
  Concurrent    \* tasks in progress at a time

ASSUME PublishAssumption ==
  {MaxText, MaxTasks, Concurrent} \subseteq Nat

Tasks == 1 .. MaxTasks
Text == 0 .. MaxText            \* 0: no document
Snapshot == [Docs -> Text]      \* what diagnostics were computed from
Nothing == [p \in Docs |-> 0]

VARIABLES
  fingerprint,  \* of each text
  last,         \* the last text of each document
  stored,       \* the text the store holds, or 0
  open_docs,
  tasks,        \* what each task is about and how far it is
  begun,        \* the tasks begun so far
  shown,        \* what the editor shows, by what it was computed from
  inflight,     \* history: results not yet published, as they were computed
  late,         \* history: those overtaken by a result computed after them
  overtaken,    \* history: documents whose last publication was one of those
  overlapped    \* history: documents with an edit begun before one was applied

vars == <<fingerprint, last, stored, open_docs, tasks, begun, shown, inflight,
          late, overtaken, overlapped>>
history == <<inflight, late, overtaken, overlapped>>
store == <<last, stored, open_docs>>

Steps == {"locked", "applied", "compared", "compute", "publish",
          "peers", "computing", "pushing"}

Task == [doc : Docs, step : Steps, text : Text,
         old : {"none", "x", "y"}, changed : BOOLEAN,
         todo : SUBSET Docs, results : [Docs -> Snapshot]]

TypeOK ==
  /\ fingerprint \in [1 .. MaxText -> {"x", "y"}]
  /\ last \in Snapshot /\ stored \in Snapshot /\ shown \in [Docs -> Snapshot]
  /\ open_docs \subseteq Docs
  /\ begun \in 0 .. MaxTasks
  /\ DOMAIN tasks \subseteq 1 .. begun /\ \A i \in DOMAIN tasks : tasks[i] \in Task
  /\ inflight \in [Docs -> Seq(Tasks)]
  /\ late \subseteq Docs \X Tasks
  /\ overtaken \subseteq Docs /\ overlapped \subseteq Docs

NoResults == [p \in Docs |-> Nothing]

Init ==
  /\ fingerprint \in {fp \in [1 .. MaxText -> {"x", "y"}] : fp[1] = "x"}
  /\ last = Nothing /\ stored = Nothing /\ open_docs = {}
  /\ tasks = <<>> /\ begun = 0
  /\ shown = NoResults
  /\ inflight = [d \in Docs |-> <<>>] /\ late = {} /\ overtaken = {} /\ overlapped = {}

-----------------------------------------------------------------------------
Quiescent == DOMAIN tasks = {}

FingerprintOf(text) == IF text = 0 THEN "none" ELSE fingerprint[text]

(* compute_diagnostics: of a document that is not there, none.             *)
Computed(d) == IF stored[d] = 0 THEN Nothing ELSE stored

Begin(d, step, text, changed) ==
  /\ begun < MaxTasks
  /\ Cardinality(DOMAIN tasks) < Concurrent
  /\ begun' = begun + 1
  /\ tasks' = [i \in DOMAIN tasks \cup {begun + 1} |->
       IF i \in DOMAIN tasks THEN tasks[i]
       ELSE [doc |-> d, step |-> step, text |-> text, old |-> FingerprintOf(stored[d]),
             changed |-> changed, todo |-> {}, results |-> NoResults]]

NewText(d) == last[d] < MaxText /\ last' = [last EXCEPT ![d] = @ + 1]

Goto(i, step) == tasks' = [tasks EXCEPT ![i].step = step]

Finish(i) == tasks' = [j \in DOMAIN tasks \ {i} |-> tasks[j]]

-----------------------------------------------------------------------------
(* How the handlers begin, up to their first await.                        *)

DidOpen(d) ==
  /\ d \notin open_docs /\ NewText(d)
  /\ open_docs' = open_docs \cup {d}
  /\ stored' = [stored EXCEPT ![d] = last'[d]]
  /\ Begin(d, "compute", last'[d], TRUE)
  /\ UNCHANGED <<fingerprint, shown, history>>

(* did_change reads the old fingerprint before it waits for doc_lock.      *)
DidChange(d) ==
  /\ d \in open_docs /\ NewText(d)
  /\ Begin(d, "locked", last'[d], FALSE)
  /\ overlapped' = IF \E i \in DOMAIN tasks : tasks[i].doc = d /\ tasks[i].step = "locked"
                   THEN overlapped \cup {d} ELSE overlapped
  /\ UNCHANGED <<fingerprint, stored, open_docs, shown, inflight, late, overtaken>>

(* did_save reparses what is stored.                                       *)
DidSave(d) ==
  /\ d \in open_docs
  /\ Begin(d, "compute", stored[d], TRUE)
  /\ UNCHANGED <<fingerprint, store, shown, history>>

(* did_close removes the document and publishes an empty list.             *)
DidClose(d) ==
  /\ d \in open_docs
  /\ open_docs' = open_docs \ {d}
  /\ stored' = [stored EXCEPT ![d] = 0]
  /\ Begin(d, "publish", 0, FALSE)
  /\ inflight' = [inflight EXCEPT ![d] = Append(@, begun + 1)]
  /\ UNCHANGED <<fingerprint, last, shown, late, overtaken, overlapped>>

(* A ParseFile job stores a closed file and publishes as handlers do; it   *)
(* takes the peers one by one, which one open peer cannot tell.            *)
ParseFile(d) ==
  /\ d \notin open_docs /\ NewText(d)
  /\ stored' = [stored EXCEPT ![d] = last'[d]]
  /\ Begin(d, "compute", last'[d], TRUE)
  /\ UNCHANGED <<fingerprint, open_docs, shown, history>>

-----------------------------------------------------------------------------
(* did_change under doc_lock and after.                                    *)

taskUnchanged == UNCHANGED <<fingerprint, begun>>

HoldsLock(i) ==
  /\ tasks[i].step = "locked"
  /\ \A j \in DOMAIN tasks : tasks[j].doc = tasks[i].doc /\ tasks[j].step = "locked" => i <= j

ApplyChange(i) ==
  LET d == tasks[i].doc
      applies == stored[d] # 0 /\ tasks[i].text > stored[d] IN
  /\ HoldsLock(i)
  /\ IF applies THEN /\ stored' = [stored EXCEPT ![d] = tasks[i].text]
                     /\ Goto(i, "applied")
                ELSE UNCHANGED stored /\ Finish(i)
  /\ UNCHANGED <<last, open_docs, shown, history>> /\ taskUnchanged

CompareFingerprints(i) ==
  LET new == FingerprintOf(stored[tasks[i].doc]) IN
  /\ tasks[i].step = "applied"
  /\ tasks' = [tasks EXCEPT ![i].step = "compared",
                            ![i].changed = \/ tasks[i].old = "none" \/ new = "none"
                                           \/ tasks[i].old # new]
  /\ UNCHANGED <<store, shown, history>> /\ taskUnchanged

(* Faulty: a superseded edit leaves the peers to its successor as well.    *)
WhenSupersededNothing(t) == "done"

(* A superseded edit refreshes the peers if it changed what they see.      *)
WhenSuperseded(t) == IF t.changed THEN "peers" ELSE "done"

CheckSuperseded(i) ==
  LET t == tasks[i]
      superseded == stored[t.doc] \notin {0, t.text} IN
  /\ t.step = "compared"
  /\ LET next == IF superseded THEN WhenSuperseded(t) ELSE "compute" IN
       IF next = "done" THEN Finish(i) ELSE Goto(i, next)
  /\ UNCHANGED <<store, shown, history>> /\ taskUnchanged

-----------------------------------------------------------------------------
(* Computing and publishing.                                               *)

Compute(i, d, step) ==
  /\ tasks' = [tasks EXCEPT ![i].results[d] = Computed(d), ![i].step = step,
                            ![i].todo = @ \ {d}]
  /\ inflight' = [inflight EXCEPT ![d] = Append(@, i)]
  /\ UNCHANGED <<store, shown, late, overtaken, overlapped>> /\ taskUnchanged

Position(i, d) == CHOOSE n \in DOMAIN inflight[d] : inflight[d][n] = i

(* The editor shows what arrives; results computed before it come late.    *)
Publish(i, d) ==
  /\ shown' = [shown EXCEPT ![d] = tasks[i].results[d]]
  /\ inflight' = [inflight EXCEPT ![d] = RemoveAt(@, Position(i, d))]
  /\ late' = (late \ {<<d, i>>})
             \cup {<<d, inflight[d][n]>> : n \in 1 .. Position(i, d) - 1}
  /\ overtaken' = IF <<d, i>> \in late THEN overtaken \cup {d} ELSE overtaken \ {d}
  /\ UNCHANGED <<store, overlapped>> /\ taskUnchanged

ComputeOwn(i) == tasks[i].step = "compute" /\ Compute(i, tasks[i].doc, "publish")

(* Open, save and parse refresh the peers, an edit if it changed what they *)
(* see, a close never.                                                     *)
PeersFollow(t) == t.changed

PublishOwn(i) ==
  LET t == tasks[i] IN
  /\ t.step = "publish"
  /\ IF PeersFollow(t) THEN Goto(i, "peers") ELSE Finish(i)
  /\ Publish(i, t.doc)

(* publish_peer_diagnostics: the peers open now, all computed before any   *)
(* is published.                                                           *)
SelectPeers(i) ==
  LET peers == open_docs \ {tasks[i].doc} IN
  /\ tasks[i].step = "peers"
  /\ IF peers = {} THEN Finish(i)
     ELSE tasks' = [tasks EXCEPT ![i].step = "computing", ![i].todo = peers,
                                 ![i].results = NoResults]
  /\ UNCHANGED <<store, shown, history>> /\ taskUnchanged

ComputePeer(i, p) ==
  /\ tasks[i].step = "computing" /\ p \in tasks[i].todo
  /\ Compute(i, p, IF tasks[i].todo = {p} THEN "pushing" ELSE "computing")

PublishPeer(i, p) ==
  /\ tasks[i].step = "pushing" /\ \E n \in DOMAIN inflight[p] : inflight[p][n] = i
  /\ IF \E q \in Docs \ {p} : \E n \in DOMAIN inflight[q] : inflight[q][n] = i
     THEN UNCHANGED tasks ELSE Finish(i)
  /\ Publish(i, p)

TaskStep(i) ==
  \/ ApplyChange(i) \/ CompareFingerprints(i) \/ CheckSuperseded(i)
  \/ ComputeOwn(i) \/ PublishOwn(i) \/ SelectPeers(i)
  \/ \E p \in Docs : ComputePeer(i, p) \/ PublishPeer(i, p)

Next ==
  \/ \E d \in Docs : DidOpen(d) \/ DidChange(d) \/ DidSave(d) \/ DidClose(d) \/ ParseFile(d)
  \/ \E i \in DOMAIN tasks : TaskStep(i)

Spec == Init /\ [][Next]_vars

DocsSymmetric == Permutations(Docs)

-----------------------------------------------------------------------------
(* With nothing under way the editor shows what the last texts say.  Of    *)
(* each document, the diagnostics of the text the store holds, and none of *)
(* a document that is gone: coalescing drops no edit's own diagnostics     *)
(* (document.rs: "the newer handler produces the up-to-date result").  And *)
(* an open document's diagnostics know the names its stored peers declare: *)
(* skipping the peers of an edit whose fingerprint is unchanged, or of a   *)
(* superseded one, leaves none stale.  Excepted are documents for which an *)
(* older result was sent last, and peers two edits of which overlapped.    *)
DiagnosticsSettle ==
  Quiescent =>
    \A d \in Docs \ overtaken :
      /\ shown[d][d] = stored[d]
      /\ \A p \in Docs \ overlapped :
           d \in open_docs /\ stored[p] # 0 /\ stored[d] # 0 =>
             FingerprintOf(shown[d][p]) = FingerprintOf(stored[p])
=============================================================================
