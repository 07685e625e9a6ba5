----------------------------- MODULE StateStore -----------------------------
(***************************************************************************)
(* The document table and its two secondary indexes                        *)
(* (crates/tfls-state/src/store.rs, document.rs), and a diagnostics pass   *)
(* that reads them (crates/tfls-engine/src/pipeline.rs).                   *)
(*                                                                         *)
(* documents, definitions_by_name and references_by_name are three         *)
(* concurrent maps: each access to one of them is atomic, a mutator's      *)
(* whole sequence of accesses is not.  Mutators exclude one another with   *)
(* index_lock.  Readers take no lock: they hold the shared guard of one    *)
(* document and look names up in the indexes.  An action is one access, or *)
(* a run of accesses no other task can tell apart from one.                *)
(*                                                                         *)
(* A text stands for what the parser makes of it: its outcome, and the     *)
(* names it declares and refers to.  A symbol is a name; all documents     *)
(* belong to one module directory.                                         *)
(***************************************************************************)
EXTENDS Naturals, FiniteSets

CONSTANTS
  Uris, Names, Texts,
  Outcome,      \* Outcome[t]: "clean", "recovered" (errors) or "bodyless"
  Declares,     \* Declares[t]: the names compute_analysis finds declared
  Refers,       \* Refers[t]: the names it finds referred to
  Threads,      \* tasks that mutate the store
  Readers,      \* tasks that compute diagnostics
  NoThread, NoDocument, NoArgs, NoPass,
  MaxVersion    \* bound on the versions a client sends

ASSUME StoreAssumption ==
  /\ Outcome \in [Texts -> {"clean", "recovered", "bodyless"}]
  /\ Declares \in [Texts -> SUBSET Names]
  /\ Refers \in [Texts -> SUBSET Names]
  /\ NoThread \notin Threads
  /\ MaxVersion \in Nat

Versions == 0 .. MaxVersion
Index == [Names -> [Uris -> Nat]]

(* text is the rope, parsed the text of the last parse, analysed the text  *)
(* the symbols come from; the two differ when a parse yields no body.      *)
Document == [text : Texts, parsed : Texts, analysed : Texts, version : Versions]

Operations == {"upsert", "apply", "reparse", "remove"}
Phases == {"remove_defs", "remove_refs", "mutate", "add_defs", "add_refs", "insert"}
Args == [op : Operations, uri : Uris, text : Texts, version : Versions, valid : BOOLEAN]

(* A diagnostics pass: the names still to look up and the names flagged.   *)
Pass == [uri : Uris, refs : SUBSET Names, decls : SUBSET Names,
         undefined : SUBSET Names, unused : SUBSET Names]

ASSUME NothingAssumption ==
  NoDocument \notin Document /\ NoArgs \notin Args /\ NoPass \notin Pass

VARIABLES
  documents,            \* the document of each uri, or NoDocument
  definitions_by_name,  \* how many locations each name has in each document
  references_by_name,
  index_lock,           \* the mutator that holds it, or NoThread
  phase,                \* how far the mutator each thread runs has come
  args,                 \* the arguments of that call
  pass,                 \* the diagnostics pass each reader is in
  rejected              \* history: documents not parsed since they last
                        \* rejected a batch of changes

vars == <<documents, definitions_by_name, references_by_name, index_lock, phase, args,
          pass, rejected>>

TypeOK ==
  /\ documents \in [Uris -> Document \cup {NoDocument}]
  /\ definitions_by_name \in Index
  /\ references_by_name \in Index
  /\ index_lock \in Threads \cup {NoThread}
  /\ phase \in [Threads -> Phases \cup {"idle"}]
  /\ args \in [Threads -> Args \cup {NoArgs}]
  /\ pass \in [Readers -> Pass \cup {NoPass}]
  /\ rejected \subseteq Uris

Init ==
  /\ documents = [u \in Uris |-> NoDocument]
  /\ definitions_by_name = [n \in Names |-> [u \in Uris |-> 0]]
  /\ references_by_name = [n \in Names |-> [u \in Uris |-> 0]]
  /\ index_lock = NoThread
  /\ phase = [t \in Threads |-> "idle"]
  /\ args = [t \in Threads |-> NoArgs]
  /\ pass = [r \in Readers |-> NoPass]
  /\ rejected = {}

-----------------------------------------------------------------------------
(* Helpers.                                                                *)

Stored(u) == documents[u] # NoDocument
DeclaredIn(u) == IF Stored(u) THEN Declares[documents[u].analysed] ELSE {}
ReferredIn(u) == IF Stored(u) THEN Refers[documents[u].analysed] ELSE {}

(* entry.retain(|loc| loc.uri != uri) on the keys of some names.           *)
Drop(index, names, u) ==
  [n \in Names |-> IF n \in names THEN [index[n] EXCEPT ![u] = 0] ELSE index[n]]

(* entry.or_default().push(location) on the keys of some names.            *)
Push(index, names, u) ==
  [n \in Names |-> IF n \in names THEN [index[n] EXCEPT ![u] = @ + 1] ELSE index[n]]

Found(index, n) == \E u \in Uris : index[n][u] > 0

(* DocumentState::new: a parse without a body is analysed all the same, by *)
(* the text fallback.                                                      *)
NewDocument(text, version) ==
  [text |-> text, parsed |-> text, analysed |-> text, version |-> version]

(* Faulty: only the rope is replaced, parsing is left for later.           *)
ReparsedLater(doc) == doc

(* DocumentState::reparse keeps the old symbols when there is no body.     *)
Reparsed(doc) ==
  [doc EXCEPT !.parsed = doc.text,
              !.analysed = IF Outcome[doc.text] = "bodyless" THEN @ ELSE doc.text]

(* A thread past get_mut holds the document's exclusive guard until it     *)
(* returns; a diagnostics pass holds a shared one.                         *)
WriteGuarded(u) ==
  \E t \in Threads : /\ phase[t] \in {"add_defs", "add_refs"}
                     /\ args[t].op \in {"apply", "reparse"}
                     /\ args[t].uri = u
ReadGuarded(u) == \E r \in Readers : pass[r] # NoPass /\ pass[r].uri = u

Goto(t, next) == phase' = [phase EXCEPT ![t] = next] /\ UNCHANGED <<args, index_lock>>

(* The call returns: its guards drop, the index lock with them.            *)
Return(t) ==
  /\ phase' = [phase EXCEPT ![t] = "idle"]
  /\ args' = [args EXCEPT ![t] = NoArgs]
  /\ index_lock' = NoThread

-----------------------------------------------------------------------------
(* Mutators: upsert_document, apply_and_reparse_document,                  *)
(* reparse_document and remove_document.                                   *)

indexVars == <<definitions_by_name, references_by_name>>

(* Faulty: nothing is removed from the indexes first.                      *)
BeginWithoutRemoval(t, a) ==
  /\ phase[t] = "idle"
  /\ index_lock = NoThread
  /\ index_lock' = t
  /\ args' = [args EXCEPT ![t] = a]
  /\ phase' = [phase EXCEPT ![t] = IF a.op = "upsert" THEN "add_defs" ELSE "mutate"]
  /\ UNCHANGED <<documents, indexVars, pass, rejected>>

(* lock_indexes; remove_from_indexes has nothing to do for an absent       *)
(* document, and no other thread can change that while the lock is held.   *)
Begin(t, a) ==
  /\ phase[t] = "idle"
  /\ index_lock = NoThread
  /\ index_lock' = t
  /\ args' = [args EXCEPT ![t] = a]
  /\ phase' = [phase EXCEPT ![t] = IF Stored(a.uri) THEN "remove_defs"
                                  ELSE IF a.op = "upsert" THEN "add_defs"
                                  ELSE "mutate"]
  /\ UNCHANGED <<documents, indexVars, pass, rejected>>

RemoveDefinitions(t) ==
  /\ phase[t] = "remove_defs"
  /\ definitions_by_name' =
       Drop(definitions_by_name, DeclaredIn(args[t].uri), args[t].uri)
  /\ Goto(t, "remove_refs")
  /\ UNCHANGED <<documents, references_by_name, pass, rejected>>

RemoveReferences(t) ==
  /\ phase[t] = "remove_refs"
  /\ references_by_name' =
       Drop(references_by_name, ReferredIn(args[t].uri), args[t].uri)
  /\ Goto(t, IF args[t].op = "upsert" THEN "add_defs" ELSE "mutate")
  /\ UNCHANGED <<documents, definitions_by_name, pass, rejected>>

(* Faulty: a stale batch returns early, without add_to_indexes.            *)
ApplyChangesStaleReturns(t) ==
  LET a == args[t]
      doc == documents[a.uri]
  IN /\ phase[t] = "mutate" /\ a.op = "apply"
     /\ Stored(a.uri) /\ ~ReadGuarded(a.uri)
     /\ IF a.version <= doc.version
          THEN Return(t) /\ UNCHANGED <<documents, rejected>>
          ELSE /\ Goto(t, "add_defs")
               /\ documents' = [documents EXCEPT ![a.uri] =
                    Reparsed([doc EXCEPT !.text = a.text, !.version = a.version])]
               /\ rejected' = rejected \ {a.uri}
     /\ UNCHANGED <<indexVars, pass>>

(* apply_versioned_changes and reparse under get_mut: a batch that is      *)
(* stale leaves the document as it was, and both go on to add_to_indexes.  *)
(* With FULL sync every batch is the whole text.                           *)
ApplyChanges(t) ==
  LET a == args[t]
      doc == documents[a.uri]
  IN /\ phase[t] = "mutate" /\ a.op = "apply"
     /\ Stored(a.uri) /\ ~ReadGuarded(a.uri)
     /\ a.valid \/ a.version <= doc.version
     /\ documents' =
          [documents EXCEPT ![a.uri] =
             IF a.version <= doc.version THEN doc
             ELSE Reparsed([doc EXCEPT !.text = a.text, !.version = a.version])]
     /\ rejected' = IF a.version <= doc.version THEN rejected ELSE rejected \ {a.uri}
     /\ Goto(t, "add_defs")
     /\ UNCHANGED <<indexVars, pass>>

(* A change with a range outside the text fails; the changes before it in  *)
(* the batch are applied, and the error returns before add_to_indexes.     *)
RejectChanges(t) ==
  LET a == args[t]
      doc == documents[a.uri]
  IN /\ phase[t] = "mutate" /\ a.op = "apply"
     /\ Stored(a.uri) /\ ~ReadGuarded(a.uri)
     /\ ~a.valid /\ a.version > doc.version
     /\ \E rope \in {doc.text, a.text} :
          documents' = [documents EXCEPT ![a.uri].text = rope]
     /\ rejected' = rejected \cup {a.uri}
     /\ Return(t)
     /\ UNCHANGED <<indexVars, pass>>

ReparseStored(t) ==
  LET u == args[t].uri
  IN /\ phase[t] = "mutate" /\ args[t].op = "reparse"
     /\ Stored(u) /\ ~ReadGuarded(u)
     /\ documents' = [documents EXCEPT ![u] = Reparsed(@)]
     /\ rejected' = rejected \ {u}
     /\ Goto(t, "add_defs")
     /\ UNCHANGED <<indexVars, pass>>

(* No document to change: the call returns with nothing done.              *)
FindAbsent(t) ==
  /\ phase[t] = "mutate" /\ ~Stored(args[t].uri)
  /\ Return(t)
  /\ UNCHANGED <<documents, indexVars, pass, rejected>>

RemoveStored(t) ==
  LET u == args[t].uri
  IN /\ phase[t] = "mutate" /\ args[t].op = "remove"
     /\ Stored(u) /\ ~ReadGuarded(u)
     /\ documents' = [documents EXCEPT ![u] = NoDocument]
     /\ rejected' = rejected \ {u}
     /\ Return(t)
     /\ UNCHANGED <<indexVars, pass>>

(* The document add_to_indexes is given: upsert's new one, or the stored.  *)
Analysed(t) ==
  IF args[t].op = "upsert" THEN args[t].text ELSE documents[args[t].uri].analysed

AddDefinitions(t) ==
  /\ phase[t] = "add_defs"
  /\ definitions_by_name' =
       Push(definitions_by_name, Declares[Analysed(t)], args[t].uri)
  /\ Goto(t, "add_refs")
  /\ UNCHANGED <<documents, references_by_name, pass, rejected>>

AddReferences(t) ==
  /\ phase[t] = "add_refs"
  /\ references_by_name' = Push(references_by_name, Refers[Analysed(t)], args[t].uri)
  /\ IF args[t].op = "upsert" THEN Goto(t, "insert") ELSE Return(t)
  /\ UNCHANGED <<documents, definitions_by_name, pass, rejected>>

InsertDocument(t) ==
  LET a == args[t]
  IN /\ phase[t] = "insert"
     /\ ~ReadGuarded(a.uri)
     /\ documents' = [documents EXCEPT ![a.uri] = NewDocument(a.text, a.version)]
     /\ rejected' = rejected \ {a.uri}
     /\ Return(t)
     /\ UNCHANGED <<indexVars, pass>>

-----------------------------------------------------------------------------
(* Readers: compute_diagnostics on a stored document, whose shared guard   *)
(* they hold to the end.  Both passes run on a clean parse only.           *)

mutatorVars == <<documents, indexVars, index_lock, phase, args, rejected>>

StartPass(r, u) ==
  /\ pass[r] = NoPass
  /\ Stored(u) /\ ~WriteGuarded(u)
  /\ Outcome[documents[u].parsed] = "clean"
  /\ pass' = [pass EXCEPT ![r] =
       [uri |-> u, refs |-> ReferredIn(u), decls |-> DeclaredIn(u),
        undefined |-> {}, unused |-> {}]]
  /\ UNCHANGED mutatorVars

(* Faulty: the index alone says what is defined.                           *)
ResolveReferenceInIndex(r, n) ==
  /\ pass[r] # NoPass /\ n \in pass[r].refs
  /\ pass' = [pass EXCEPT ![r].refs = @ \ {n},
                          ![r].undefined = IF Found(definitions_by_name, n)
                                             THEN @ ELSE @ \cup {n}]
  /\ UNCHANGED mutatorVars

(* undefined_reference_diagnostics: a reference resolves in the document's *)
(* own symbols or in the index.                                            *)
ResolveReference(r, n) ==
  /\ pass[r] # NoPass /\ n \in pass[r].refs
  /\ LET defined == n \in DeclaredIn(pass[r].uri) \/ Found(definitions_by_name, n)
     IN pass' = [pass EXCEPT ![r].refs = @ \ {n},
                             ![r].undefined = IF defined THEN @ ELSE @ \cup {n}]
  /\ UNCHANGED mutatorVars

(* unused_declarations_diagnostics: the index alone says who refers.       *)
CheckDeclaration(r, n) ==
  /\ pass[r] # NoPass /\ pass[r].refs = {} /\ n \in pass[r].decls
  /\ pass' = [pass EXCEPT ![r].decls = @ \ {n},
                          ![r].unused = IF Found(references_by_name, n)
                                          THEN @ ELSE @ \cup {n}]
  /\ UNCHANGED mutatorVars

EndPass(r) ==
  /\ pass[r] # NoPass /\ pass[r].refs = {} /\ pass[r].decls = {}
  /\ pass' = [pass EXCEPT ![r] = NoPass]
  /\ UNCHANGED mutatorVars

-----------------------------------------------------------------------------
Mutate(t) ==
  \/ RemoveDefinitions(t) \/ RemoveReferences(t)
  \/ ApplyChanges(t) \/ RejectChanges(t) \/ ReparseStored(t)
  \/ FindAbsent(t) \/ RemoveStored(t)
  \/ AddDefinitions(t) \/ AddReferences(t) \/ InsertDocument(t)

(* Arguments an operation does not take are fixed.                         *)
AnyText == CHOOSE text \in Texts : TRUE
Requests ==
  {a \in Args :
     /\ a.op \in {"reparse", "remove"} => a.text = AnyText /\ a.version = 0
     /\ a.valid \/ a.op = "apply"}

Next ==
  \/ \E t \in Threads, a \in Requests : Begin(t, a)
  \/ \E t \in Threads : Mutate(t)
  \/ \E r \in Readers, u \in Uris : StartPass(r, u)
  \/ \E r \in Readers, n \in Names : ResolveReference(r, n) \/ CheckDeclaration(r, n)
  \/ \E r \in Readers : EndPass(r)

Spec == Init /\ [][Next]_vars

-----------------------------------------------------------------------------
(* Properties.                                                             *)

(* Whenever no mutator is inside, each index holds exactly one location    *)
(* for each name a stored document declares (refers to) and nothing else:  *)
(* no orphaned location survives a remove, a replace or a reparse, and a   *)
(* stale batch does not cost a document its locations.  Only a batch that  *)
(* was rejected midway leaves a document out of the indexes.               *)
IndexesMirrorDocuments ==
  index_lock = NoThread =>
    \A u \in Uris \ rejected, n \in Names :
      /\ definitions_by_name[n][u] = IF n \in DeclaredIn(u) THEN 1 ELSE 0
      /\ references_by_name[n][u] = IF n \in ReferredIn(u) THEN 1 ELSE 0

(* Not even inside a mutation, nor after a rejected batch, does a name have *)
(* two locations from one document: add_to_indexes never runs on top of an *)
(* earlier add.                                                            *)
NoDuplicateLocations ==
  \A u \in Uris, n \in Names :
    definitions_by_name[n][u] <= 1 /\ references_by_name[n][u] <= 1

(* A reader never meets a new rope with an old parse, nor symbols older    *)
(* than the last text that parsed, unless a batch was rejected midway.     *)
NeverTorn ==
  \A u \in Uris \ rejected : Stored(u) =>
    /\ documents[u].parsed = documents[u].text
    /\ Outcome[documents[u].text] # "bodyless" =>
         documents[u].analysed = documents[u].text

(* The own-symbols fallback: a pass never flags a name of the document's   *)
(* own as undefined, whatever is being done to the index meanwhile.        *)
OwnNamesResolve ==
  \A r \in Readers : pass[r] # NoPass =>
    pass[r].undefined \cap DeclaredIn(pass[r].uri) = {}

-----------------------------------------------------------------------------
(* The abstract store sees, of a call that changes a document in place,    *)
(* that it has taken effect as soon as the document is changed; an upsert  *)
(* takes effect with its last step.                                        *)
InPlaceDone ==
  \E t \in Threads : phase[t] \in {"add_defs", "add_refs"} /\ args[t].op # "upsert"
HeldBy == [r \in Readers |-> IF pass[r] = NoPass THEN {} ELSE {pass[r].uri}]

Atomic == INSTANCE AtomicStore WITH done <- InPlaceDone, held <- HeldBy

(* The calls look atomic to one another and to readers: one at a time,     *)
(* each changes its document at one instant while nobody reads it, touches *)
(* the locations of no other document, and leaves its own settled when it  *)
(* returns (store.rs:692-700, "under a SINGLE write guard, so no           *)
(* concurrent reader ever observes a torn state").                         *)
ServesAtomically == Atomic!Spec
=============================================================================
