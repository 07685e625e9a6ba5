----------------------------- MODULE AtomicStore -----------------------------
(***************************************************************************)
(* What the document store promises to those who call it                   *)
(* (crates/tfls-state/src/store.rs): calls are served one at a time; each  *)
(* takes effect on its document at one instant, and on nothing else; when  *)
(* it replies, the two indexes hold one location for each name the         *)
(* document declares or refers to.  Until then the names filed for the     *)
(* document, and only for it, come and go.  A document stays as it is as   *)
(* long as a reader holds it.                                              *)
(***************************************************************************)
EXTENDS Naturals

CONSTANTS
  Uris, Names, Threads, Readers,
  Outcome, Declares, Refers,  \* what the parser makes of each text
  Requests,                   \* the calls there are, with their arguments
  NoDocument, NoArgs

VARIABLES
  documents, definitions_by_name, references_by_name,
  args,   \* the call each thread waits for, or NoArgs
  done,   \* has the call being served taken effect?
  held    \* the documents each reader holds, one at most

indexVars == <<definitions_by_name, references_by_name>>
storeVars == <<documents, indexVars, args, done, held>>

Init ==
  /\ documents = [u \in Uris |-> NoDocument]
  /\ definitions_by_name = [n \in Names |-> [u \in Uris |-> 0]]
  /\ references_by_name = [n \in Names |-> [u \in Uris |-> 0]]
  /\ args = [t \in Threads |-> NoArgs]
  /\ done = FALSE
  /\ held = [r \in Readers |-> {}]

-----------------------------------------------------------------------------
(* What a call makes of its document.                                      *)

\* Analysed at once; a text without a body leaves the symbols as they were.
Analyse(doc) ==
  [doc EXCEPT !.parsed = doc.text,
              !.analysed = IF Outcome[doc.text] = "bodyless" THEN @ ELSE doc.text]

\* A newer batch with a change outside the text: the call fails midway.
Fails(doc, a) ==
  a.op = "apply" /\ doc # NoDocument /\ ~a.valid /\ a.version > doc.version

After(doc, a) ==
  IF a.op = "upsert"
  THEN [text |-> a.text, parsed |-> a.text, analysed |-> a.text, version |-> a.version]
  ELSE IF a.op = "remove" \/ doc = NoDocument THEN NoDocument
  ELSE IF a.op = "reparse" THEN Analyse(doc)
  ELSE IF a.version <= doc.version THEN doc
  ELSE Analyse([doc EXCEPT !.text = a.text, !.version = a.version])

-----------------------------------------------------------------------------
(* The names filed for a document.                                         *)

Declared(doc) == IF doc = NoDocument THEN {} ELSE Declares[doc.analysed]
Referred(doc) == IF doc = NoDocument THEN {} ELSE Refers[doc.analysed]

Filed(index, u, names) == \A n \in Names : index[n][u] = IF n \in names THEN 1 ELSE 0
Settled(u) ==
  /\ Filed(definitions_by_name, u, Declared(documents[u]))
  /\ Filed(references_by_name, u, Referred(documents[u]))
Unfiled(u) ==
  Filed(definitions_by_name, u, {}) /\ Filed(references_by_name, u, {})

\* Names of the document, or of the one that is to replace it, none twice.
InFlux(a) ==
  \A n \in Names :
    LET doc == documents[a.uri]
        May(names, new) == IF n \in names \/ (a.op = "upsert" /\ n \in new) THEN {0, 1} ELSE {0}
    IN /\ definitions_by_name[n][a.uri] \in May(Declared(doc), Declares[a.text])
       /\ references_by_name[n][a.uri] \in May(Referred(doc), Refers[a.text])

ElsewhereAsFiled(u) ==
  \A v \in Uris \ {u}, n \in Names :
    /\ definitions_by_name'[n][v] = definitions_by_name[n][v]
    /\ references_by_name'[n][v] = references_by_name[n][v]

Held(u) == \E r \in Readers : u \in held[r]

-----------------------------------------------------------------------------
Request(t, a) ==
  /\ args' = [args EXCEPT ![t] = a] /\ done' = FALSE
  /\ UNCHANGED <<documents, indexVars, held>>

Reply(t) == args' = [args EXCEPT ![t] = NoArgs] /\ done' = FALSE

Refile(t, a) ==
  /\ UNCHANGED <<documents, args, done, held>>
  /\ ElsewhereAsFiled(a.uri) /\ InFlux(a)'

\* The one instant at which the call's document changes.
TakeEffect(t, a) ==
  /\ ~done /\ ~Held(a.uri) /\ ~Fails(documents[a.uri], a)
  /\ documents' = [documents EXCEPT ![a.uri] = After(@, a)]
  /\ \/ done' = TRUE /\ UNCHANGED args /\ InFlux(a)'
     \/ Reply(t) /\ Settled(a.uri)'
  /\ ElsewhereAsFiled(a.uri) /\ UNCHANGED held

\* The call fails: the changes before the bad one remain, unparsed, and the
\* document is in no index.
Fail(t, a) ==
  /\ ~done /\ ~Held(a.uri) /\ Fails(documents[a.uri], a)
  /\ \E rope \in {documents[a.uri].text, a.text} :
       documents' = [documents EXCEPT ![a.uri].text = rope]
  /\ Reply(t) /\ Unfiled(a.uri)'
  /\ ElsewhereAsFiled(a.uri) /\ UNCHANGED held

Finish(t, a) ==
  /\ done /\ Reply(t)
  /\ UNCHANGED <<documents, held>>
  /\ ElsewhereAsFiled(a.uri) /\ Settled(a.uri)'

Hold(r, u) ==
  /\ held[r] = {} /\ documents[u] # NoDocument
  /\ ~ \E t \in Threads : args[t] # NoArgs /\ args[t].uri = u /\ done
  /\ held' = [held EXCEPT ![r] = {u}]
  /\ UNCHANGED <<documents, indexVars, args, done>>

LetGo(r) ==
  /\ held' = [held EXCEPT ![r] = {}]
  /\ UNCHANGED <<documents, indexVars, args, done>>

Serve(t, a) == Refile(t, a) \/ TakeEffect(t, a) \/ Fail(t, a) \/ Finish(t, a)

Next ==
  \/ \E r \in Readers : LetGo(r) \/ \E u \in Uris : Hold(r, u)
  \/ \E t \in Threads : \E a \in {args[t]} \ {NoArgs} : Serve(t, a)
  \/ (\A t \in Threads : args[t] = NoArgs) /\ \E t \in Threads, a \in Requests : Request(t, a)

Spec == Init /\ [][Next]_storeVars
=============================================================================
