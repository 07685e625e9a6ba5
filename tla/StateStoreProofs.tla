-------------------------- MODULE StateStoreProofs --------------------------
(***************************************************************************)
(* Proofs about StateStore, for any documents, names, texts, mutator       *)
(* threads and readers, and any bound on the versions.                     *)
(***************************************************************************)
EXTENDS StateStore, TLAPS

(* Whoever is inside a mutator holds the lock, with arguments that fit the *)
(* phase: add_to_indexes has a document to add, remove_from_indexes one to *)
(* remove.                                                                 *)
LockDiscipline ==
  \A t \in Threads : phase[t] # "idle" =>
    /\ index_lock = t
    /\ args[t] \in Requests
    /\ phase[t] \in {"remove_defs", "remove_refs"} => Stored(args[t].uri)
    /\ phase[t] = "mutate" => args[t].op # "upsert"
    /\ phase[t] \in {"add_defs", "add_refs"} =>
         args[t].op # "remove" /\ (args[t].op # "upsert" => Stored(args[t].uri))
    /\ phase[t] = "insert" => args[t].op = "upsert"

LockFree == index_lock # NoThread => index_lock \in Threads /\ phase[index_lock] # "idle"

(* Is the mutator that holds the lock at work on document u, in one of     *)
(* these phases?                                                           *)
At(u, phases) ==
  /\ index_lock # NoThread
  /\ args[index_lock].uri = u
  /\ phase[index_lock] \in phases

(* What the indexes should hold of a document, mutations included.         *)
DefinitionsOf(u) ==
  IF At(u, {"remove_refs", "mutate", "add_defs"}) THEN {}
  ELSE IF At(u, {"add_refs", "insert"}) THEN Declares[Analysed(index_lock)]
  ELSE DeclaredIn(u)
ReferencesOf(u) ==
  IF At(u, {"mutate", "add_defs", "add_refs"}) THEN {}
  ELSE IF At(u, {"insert"}) THEN Refers[Analysed(index_lock)]
  ELSE ReferredIn(u)

(* Since a batch was rejected midway, its document may be missing from the *)
(* indexes, until a mutator has taken it out and set about adding it again. *)
Lost(u) ==
  u \in rejected /\ ~At(u, {"mutate", "add_defs", "add_refs", "insert"})

Holds(index, n, u, names, lost) ==
  \/ index[n][u] = IF n \in names THEN 1 ELSE 0
  \/ lost /\ index[n][u] = 0

IndexState ==
  \A u \in Uris, n \in Names :
    /\ Holds(definitions_by_name, n, u, DefinitionsOf(u), Lost(u))
    /\ Holds(references_by_name, n, u, ReferencesOf(u), Lost(u))

(* A pass holds the guard of a stored document.                            *)
PassState ==
  \A r \in Readers : pass[r] # NoPass =>
    /\ Stored(pass[r].uri)
    /\ pass[r].undefined \cap DeclaredIn(pass[r].uri) = {}

CoreInv == TypeOK /\ LockDiscipline /\ LockFree

-----------------------------------------------------------------------------
(* The two index helpers keep the shape of an index and touch one document. *)
LEMMA DropFacts ==
  ASSUME NEW index \in Index, NEW names, NEW u \in Uris
  PROVE  /\ Drop(index, names, u) \in Index
         /\ \A n \in Names, v \in Uris :
              Drop(index, names, u)[n][v] =
                IF n \in names /\ v = u THEN 0 ELSE index[n][v]
  BY DEF Drop, Index

LEMMA PushFacts ==
  ASSUME NEW index \in Index, NEW names, NEW u \in Uris
  PROVE  /\ Push(index, names, u) \in Index
         /\ \A n \in Names, v \in Uris :
              Push(index, names, u)[n][v] =
                IF n \in names /\ v = u THEN index[n][v] + 1 ELSE index[n][v]
  BY DEF Push, Index

LEMMA ReparsedType ==
  ASSUME NEW doc \in Document
  PROVE  Reparsed(doc) \in Document
  BY DEF Reparsed, Document

LEMMA InitCore == Init => CoreInv /\ PassState
<1> SUFFICES ASSUME Init PROVE CoreInv /\ PassState
  OBVIOUS
<1>1. TypeOK
  BY DEF Init, TypeOK, Index
<1>2. LockDiscipline /\ LockFree /\ PassState
  BY DEF Init, LockDiscipline, LockFree, PassState
<1>3. QED
  BY <1>1, <1>2 DEF CoreInv

(* The mutator actions, one by one, keep types and the lock discipline.    *)
LEMMA MutateCore ==
  ASSUME CoreInv, NEW t \in Threads, Mutate(t)
  PROVE  CoreInv'
<1> USE DEF CoreInv
<1>a. /\ phase[t] # "idle" /\ index_lock = t /\ args[t] \in Requests
      /\ args[t] \in Args /\ args[t].uri \in Uris /\ args[t].text \in Texts
      /\ args[t].version \in Versions
  <2>1. phase[t] # "idle"
    BY DEF Mutate, RemoveDefinitions, RemoveReferences, ApplyChanges,
           RejectChanges, ReparseStored, FindAbsent, RemoveStored,
           AddDefinitions, AddReferences, InsertDocument
  <2>2. QED
    BY <2>1 DEF LockDiscipline, Requests, Args
<1>b. \A s \in Threads : s # t => phase[s] = "idle"
  BY <1>a DEF LockDiscipline
<1>c. ASSUME NEW u \in Uris, Stored(u) PROVE documents[u] \in Document
  BY <1>c DEF TypeOK, Stored
<1>r. rejected' \subseteq Uris
  BY <1>a DEF TypeOK, Mutate, RemoveDefinitions, RemoveReferences, ApplyChanges,
         RejectChanges, ReparseStored, FindAbsent, RemoveStored, AddDefinitions,
         AddReferences, InsertDocument
<1>d. ASSUME Return(t), UNCHANGED <<documents>>
             \/ documents' \in [Uris -> Document \cup {NoDocument}],
             definitions_by_name' \in Index, references_by_name' \in Index,
             UNCHANGED pass
      PROVE  CoreInv'
  <2>1. TypeOK'
    BY <1>d, <1>r DEF TypeOK, Return
  <2>2. \A s \in Threads : phase'[s] = "idle"
    BY <1>b, <1>d DEF Return, TypeOK
  <2>3. index_lock' = NoThread
    BY <1>d DEF Return
  <2>4. QED
    BY <2>1, <2>2, <2>3 DEF LockDiscipline, LockFree
<1>e. ASSUME NEW next \in Phases, Goto(t, next),
             documents' \in [Uris -> Document \cup {NoDocument}],
             definitions_by_name' \in Index, references_by_name' \in Index,
             UNCHANGED pass,
             next = "remove_refs" => Stored(args[t].uri)',
             next # "remove_defs",
             next = "mutate" => args[t].op # "upsert",
             next \in {"add_defs", "add_refs"} =>
               args[t].op # "remove" /\ (args[t].op # "upsert" => Stored(args[t].uri)'),
             next = "insert" => args[t].op = "upsert"
      PROVE  CoreInv'
  <2>1. /\ TypeOK'
        /\ phase'[t] = next /\ next # "idle"
        /\ \A s \in Threads : s # t => phase'[s] = "idle"
        /\ index_lock' = t /\ args' = args
    BY <1>a, <1>b, <1>e, <1>r DEF TypeOK, Goto, Phases
  <2>2. LockFree'
    BY <2>1 DEF LockFree
  <2>3. LockDiscipline'
    BY <1>a, <1>e, <2>1 DEF LockDiscipline
  <2>4. QED
    BY <2>1, <2>2, <2>3
<1>p. {"add_defs", "add_refs", "insert"} \subseteq Phases
  BY DEF Phases
<1> USE StoreAssumption
<1>1. CASE RemoveDefinitions(t)
  <2>1. definitions_by_name' \in Index
    BY <1>1, <1>a, DropFacts DEF RemoveDefinitions, TypeOK
  <2>2. Stored(args[t].uri)'
    BY <1>1, <1>a DEF RemoveDefinitions, LockDiscipline, Stored, Goto
  <2>3. QED
    BY <1>1, <1>e, <2>1, <2>2 DEF RemoveDefinitions, TypeOK, Phases
<1>2. CASE RemoveReferences(t)
  <2>1. references_by_name' \in Index
    BY <1>2, <1>a, DropFacts DEF RemoveReferences, TypeOK
  <2> DEFINE next == IF args[t].op = "upsert" THEN "add_defs" ELSE "mutate"
  <2>2. next \in Phases /\ Goto(t, next)
    BY <1>2 DEF RemoveReferences, Phases
  <2>3. QED
    BY <1>2, <1>e, <2>1, <2>2 DEF RemoveReferences, TypeOK
<1>3. CASE ApplyChanges(t)
  <2> DEFINE u == args[t].uri
  <2>1. documents[u] \in Document
    BY <1>3, <1>a, <1>c DEF ApplyChanges
  <2>2. PICK d \in Document : documents' = [documents EXCEPT ![u] = d]
    <3>1. [documents[u] EXCEPT !.text = args[t].text, !.version = args[t].version]
            \in Document
      BY <1>a, <2>1 DEF Document
    <3> DEFINE d == IF args[t].version <= documents[u].version THEN documents[u]
                    ELSE Reparsed([documents[u] EXCEPT !.text = args[t].text,
                                                       !.version = args[t].version])
    <3>2. d \in Document
      BY <2>1, <3>1, ReparsedType
    <3>3. documents' = [documents EXCEPT ![u] = d]
      BY <1>3 DEF ApplyChanges
    <3> HIDE DEF d
    <3>4. QED
      BY <3>2, <3>3
  <2>3. args' = args
    BY <1>3 DEF ApplyChanges, Goto
  <2>4. Stored(u)' /\ documents' \in [Uris -> Document \cup {NoDocument}]
    BY <1>a, <2>2, <2>3, NothingAssumption DEF TypeOK, Stored
  <2>5. QED
    BY <1>3, <1>e, <2>4, <1>p
       DEF ApplyChanges, TypeOK, indexVars, Stored
<1>4. CASE RejectChanges(t)
  <2> DEFINE u == args[t].uri
  <2>1. documents[u] \in Document
    BY <1>4, <1>a, <1>c DEF RejectChanges
  <2>2. documents' \in [Uris -> Document \cup {NoDocument}]
    BY <1>4, <1>a, <2>1 DEF RejectChanges, TypeOK, Document
  <2>3. QED
    BY <1>4, <1>d, <2>2 DEF RejectChanges, TypeOK, indexVars
<1>5. CASE ReparseStored(t)
  <2> DEFINE u == args[t].uri
  <2>1. documents[u] \in Document
    BY <1>5, <1>a, <1>c DEF ReparseStored
  <2>2. Reparsed(documents[u]) \in Document
    BY <2>1, ReparsedType
  <2>3. Stored(u)' /\ documents' \in [Uris -> Document \cup {NoDocument}]
    BY <1>5, <1>a, <2>2, NothingAssumption DEF ReparseStored, TypeOK, Stored, Goto
  <2>4. QED
    BY <1>5, <1>e, <2>3, <1>p
       DEF ReparseStored, TypeOK, indexVars, Stored
<1>6. CASE FindAbsent(t)
  BY <1>6, <1>d DEF FindAbsent, TypeOK, indexVars
<1>7. CASE RemoveStored(t)
  BY <1>7, <1>d, <1>a DEF RemoveStored, TypeOK, indexVars
<1>8. CASE AddDefinitions(t)
  <2>1. definitions_by_name' \in Index
    BY <1>8, <1>a, PushFacts DEF AddDefinitions, TypeOK
  <2>2. /\ args[t].op # "remove"
        /\ args[t].op # "upsert" => Stored(args[t].uri)'
    BY <1>8, <1>a DEF AddDefinitions, LockDiscipline, Stored, Goto
  <2>3. QED
    BY <1>8, <1>e, <2>1, <2>2, <1>p DEF AddDefinitions, TypeOK
<1>9. CASE AddReferences(t)
  <2>1. references_by_name' \in Index
    BY <1>9, <1>a, PushFacts DEF AddReferences, TypeOK
  <2>2. CASE args[t].op = "upsert"
    BY <1>9, <1>e, <2>1, <2>2, <1>p DEF AddReferences, TypeOK
  <2>3. CASE args[t].op # "upsert"
    BY <1>9, <1>d, <2>1, <2>3 DEF AddReferences, TypeOK
  <2>4. QED
    BY <2>2, <2>3
<1>10. CASE InsertDocument(t)
  <2>1. NewDocument(args[t].text, args[t].version) \in Document
    BY <1>a DEF NewDocument, Document
  <2>2. documents' \in [Uris -> Document \cup {NoDocument}]
    BY <1>10, <1>a, <2>1 DEF InsertDocument, TypeOK
  <2>3. QED
    BY <1>10, <1>d, <2>2 DEF InsertDocument, TypeOK, indexVars
<1>11. QED
  BY <1>1, <1>2, <1>3, <1>4, <1>5, <1>6, <1>7, <1>8, <1>9, <1>10 DEF Mutate

(* Beginning a call.                                                       *)
LEMMA BeginCore ==
  ASSUME CoreInv, NEW t \in Threads, NEW a \in Requests, Begin(t, a)
  PROVE  CoreInv'
<1> USE DEF CoreInv
<1>1. a \in Args
  BY DEF Requests
<1>2. TypeOK'
  BY <1>1 DEF TypeOK, Begin, Phases, indexVars
<1>3. \A s \in Threads : phase[s] = "idle"
  BY StoreAssumption DEF LockDiscipline, Begin
<1>4. /\ phase'[t] # "idle" /\ index_lock' = t /\ args'[t] = a
      /\ phase'[t] \in {"remove_defs", "add_defs", "mutate"}
      /\ \A s \in Threads : s # t => phase'[s] = "idle"
  BY <1>3 DEF Begin, TypeOK
<1>5. /\ phase'[t] = "remove_defs" => Stored(a.uri)'
      /\ phase'[t] = "mutate" => a.op # "upsert"
      /\ phase'[t] = "add_defs" => a.op = "upsert"
  BY DEF Begin, TypeOK, Stored
<1>6. a \in Requests'
  BY DEF Requests
<1>7. LockDiscipline'
  BY <1>4, <1>5, <1>6 DEF LockDiscipline
<1>8. LockFree'
  BY <1>4 DEF LockFree
<1>9. QED
  BY <1>2, <1>7, <1>8

ReaderStep ==
  \/ \E r \in Readers, u \in Uris : StartPass(r, u)
  \/ \E r \in Readers, n \in Names : ResolveReference(r, n) \/ CheckDeclaration(r, n)
  \/ \E r \in Readers : EndPass(r)

LEMMA NamesOfDocument ==
  ASSUME TypeOK, NEW u \in Uris
  PROVE  DeclaredIn(u) \subseteq Names /\ ReferredIn(u) \subseteq Names
  BY StoreAssumption DEF TypeOK, DeclaredIn, ReferredIn, Stored, Document

(* A reader changes nothing but its own pass, whose fields keep their types. *)
LEMMA ReaderCore ==
  ASSUME CoreInv, ReaderStep
  PROVE  CoreInv'
<1> USE DEF CoreInv
<1>1. UNCHANGED mutatorVars
  BY DEF ReaderStep, StartPass, ResolveReference, CheckDeclaration, EndPass
<1>2. pass' \in [Readers -> Pass \cup {NoPass}]
  <2>1. ASSUME NEW r \in Readers, NEW u \in Uris, StartPass(r, u)
        PROVE  pass' \in [Readers -> Pass \cup {NoPass}]
    <3>1. [uri |-> u, refs |-> ReferredIn(u), decls |-> DeclaredIn(u),
           undefined |-> {}, unused |-> {}] \in Pass
      BY NamesOfDocument DEF Pass
    <3>2. QED
      BY <2>1, <3>1 DEF StartPass, TypeOK
  <2>2. ASSUME NEW r \in Readers, NEW n \in Names, ResolveReference(r, n)
        PROVE  pass' \in [Readers -> Pass \cup {NoPass}]
    <3> DEFINE q == pass[r]
               defined == n \in DeclaredIn(q.uri) \/ Found(definitions_by_name, n)
               p == [q EXCEPT !.refs = @ \ {n},
                              !.undefined = IF defined THEN @ ELSE @ \cup {n}]
    <3>1. q \in Pass
      BY <2>2 DEF ResolveReference, TypeOK
    <3>2. p \in Pass
      BY <3>1 DEF Pass
    <3>3. pass' = [pass EXCEPT ![r] = p]
      BY <2>2 DEF ResolveReference, TypeOK
    <3> HIDE DEF p
    <3>4. QED
      BY <3>2, <3>3 DEF TypeOK
  <2>3. ASSUME NEW r \in Readers, NEW n \in Names, CheckDeclaration(r, n)
        PROVE  pass' \in [Readers -> Pass \cup {NoPass}]
    <3> DEFINE q == pass[r]
               p == [q EXCEPT !.decls = @ \ {n},
                              !.unused = IF Found(references_by_name, n)
                                           THEN @ ELSE @ \cup {n}]
    <3>1. q \in Pass
      BY <2>3 DEF CheckDeclaration, TypeOK
    <3>2. p \in Pass
      BY <3>1 DEF Pass
    <3>3. pass' = [pass EXCEPT ![r] = p]
      BY <2>3 DEF CheckDeclaration, TypeOK
    <3> HIDE DEF p
    <3>4. QED
      BY <3>2, <3>3 DEF TypeOK
  <2>4. ASSUME NEW r \in Readers, EndPass(r)
        PROVE  pass' \in [Readers -> Pass \cup {NoPass}]
    BY <2>4 DEF EndPass, TypeOK
  <2>5. QED
    BY <2>1, <2>2, <2>3, <2>4 DEF ReaderStep
<1>3. TypeOK'
  BY <1>1, <1>2 DEF TypeOK, mutatorVars, indexVars
<1>4. LockDiscipline' /\ LockFree'
  BY <1>1 DEF LockDiscipline, LockFree, mutatorVars, Stored, Requests
<1>5. QED
  BY <1>3, <1>4

LEMMA StutterCore == CoreInv /\ UNCHANGED vars => CoreInv'
<1> SUFFICES ASSUME CoreInv, UNCHANGED vars PROVE CoreInv'
  OBVIOUS
<1>1. TypeOK'
  BY DEF CoreInv, vars, TypeOK
<1>2. LockDiscipline' /\ LockFree'
  BY DEF CoreInv, vars, LockDiscipline, LockFree, Stored, Requests
<1>3. QED
  BY <1>1, <1>2 DEF CoreInv

LEMMA StepCore == CoreInv /\ [Next]_vars => CoreInv'
  BY MutateCore, BeginCore, ReaderCore, StutterCore DEF Next, ReaderStep

(* Every reachable state of the store is well-formed, for any number of    *)
(* documents, names, texts, mutators and readers.                          *)
THEOREM TypeCorrect == Spec => []TypeOK
<1>1. Init => CoreInv
  BY InitCore
<1>2. CoreInv => TypeOK
  BY DEF CoreInv
<1>3. QED
  BY <1>1, StepCore, <1>2, PTL DEF Spec

-----------------------------------------------------------------------------
(* A document under a reader's guard stays as it is: get_mut, insert and   *)
(* remove wait for the guard.                                              *)
LEMMA GuardProtects ==
  ASSUME TypeOK, NEW t \in Threads, Mutate(t),
         NEW u \in Uris, ReadGuarded(u)
  PROVE  documents'[u] = documents[u]
<1>1. CASE UNCHANGED documents
  BY <1>1
<1>2. ASSUME NEW v, ~ReadGuarded(v), NEW d, documents' = [documents EXCEPT ![v] = d]
      PROVE  documents'[u] = documents[u]
  BY <1>2 DEF TypeOK
<1>3. QED
  BY <1>1, <1>2
     DEF Mutate, RemoveDefinitions, RemoveReferences, ApplyChanges,
         RejectChanges, ReparseStored, FindAbsent, RemoveStored,
         AddDefinitions, AddReferences, InsertDocument

LEMMA StepPass ==
  ASSUME CoreInv, PassState, [Next]_vars
  PROVE  PassState'
<1> USE DEF CoreInv
<1>1. ASSUME UNCHANGED pass,
             \A u \in Uris : ReadGuarded(u) => documents'[u] = documents[u]
      PROVE  PassState'
  <2> SUFFICES ASSUME NEW r \in Readers, pass[r] # NoPass
               PROVE  /\ Stored(pass[r].uri)'
                      /\ pass[r].undefined \cap DeclaredIn(pass[r].uri)' = {}
    BY <1>1 DEF PassState
  <2>1. ReadGuarded(pass[r].uri) /\ pass[r].uri \in Uris
    BY DEF ReadGuarded, TypeOK, Pass
  <2>2. documents'[pass[r].uri] = documents[pass[r].uri]
    BY <1>1, <2>1
  <2>3. QED
    BY <1>1, <2>2 DEF PassState, Stored, DeclaredIn
<1>2. ASSUME NEW t \in Threads, NEW a \in Requests, Begin(t, a)
      PROVE  PassState'
  BY <1>1, <1>2 DEF Begin
<1>3. ASSUME NEW t \in Threads, Mutate(t)
      PROVE  PassState'
  <2>1. UNCHANGED pass
    BY <1>3 DEF Mutate, RemoveDefinitions, RemoveReferences, ApplyChanges,
         RejectChanges, ReparseStored, FindAbsent, RemoveStored,
         AddDefinitions, AddReferences, InsertDocument
  <2>2. QED
    BY <1>1, <1>3, <2>1, GuardProtects
<1>4. ASSUME NEW r \in Readers, NEW p \in Pass \cup {NoPass},
             documents' = documents, pass' = [pass EXCEPT ![r] = p],
             p # NoPass => /\ Stored(p.uri)
                           /\ p.undefined \cap DeclaredIn(p.uri) = {}
      PROVE  PassState'
  BY <1>4 DEF PassState, Stored, DeclaredIn, TypeOK
<1>5. ASSUME NEW r \in Readers, NEW u \in Uris, StartPass(r, u)
      PROVE  PassState'
  <2> DEFINE p == [uri |-> u, refs |-> ReferredIn(u), decls |-> DeclaredIn(u),
                   undefined |-> {}, unused |-> {}]
  <2>1. p \in Pass
    BY NamesOfDocument DEF Pass
  <2>2. Stored(p.uri) /\ p.undefined \cap DeclaredIn(p.uri) = {}
    BY <1>5 DEF StartPass
  <2>3. documents' = documents /\ pass' = [pass EXCEPT ![r] = p]
    BY <1>5 DEF StartPass, mutatorVars
  <2> HIDE DEF p
  <2>4. QED
    BY <2>1, <2>2, <2>3, <1>4
<1>6. ASSUME NEW r \in Readers, NEW n \in Names, ResolveReference(r, n)
      PROVE  PassState'
  <2> DEFINE q == pass[r]
             defined == n \in DeclaredIn(q.uri) \/ Found(definitions_by_name, n)
             p == [q EXCEPT !.refs = @ \ {n},
                            !.undefined = IF defined THEN @ ELSE @ \cup {n}]
  <2>1. q \in Pass /\ q # NoPass
    BY <1>6 DEF ResolveReference, TypeOK
  <2>2. p \in Pass /\ p.uri = q.uri
    BY <2>1 DEF Pass
  <2>3. p.undefined \cap DeclaredIn(p.uri) = {}
    BY <2>1, <2>2 DEF PassState, Pass
  <2>4. Stored(p.uri)
    BY <2>1, <2>2 DEF PassState
  <2>5. documents' = documents /\ pass' = [pass EXCEPT ![r] = p]
    BY <1>6 DEF ResolveReference, mutatorVars, TypeOK
  <2> HIDE DEF p
  <2>6. QED
    BY <2>2, <2>3, <2>4, <2>5, <1>4
<1>7. ASSUME NEW r \in Readers, NEW n \in Names, CheckDeclaration(r, n)
      PROVE  PassState'
  <2> DEFINE q == pass[r]
             p == [q EXCEPT !.decls = @ \ {n},
                            !.unused = IF Found(references_by_name, n)
                                         THEN @ ELSE @ \cup {n}]
  <2>1. q \in Pass /\ q # NoPass
    BY <1>7 DEF CheckDeclaration, TypeOK
  <2>2. p \in Pass /\ p.uri = q.uri /\ p.undefined = q.undefined
    BY <2>1, <1>7 DEF Pass
  <2>3. documents' = documents /\ pass' = [pass EXCEPT ![r] = p]
    BY <1>7 DEF CheckDeclaration, mutatorVars, TypeOK
  <2>4. Stored(p.uri) /\ p.undefined \cap DeclaredIn(p.uri) = {}
    BY <2>1, <2>2 DEF PassState
  <2> HIDE DEF p
  <2>5. QED
    BY <2>2, <2>3, <2>4, <1>4
<1>8. ASSUME NEW r \in Readers, EndPass(r)
      PROVE  PassState'
  BY <1>4, <1>8 DEF EndPass, mutatorVars
<1>9. CASE UNCHANGED vars
  BY <1>1, <1>9 DEF vars
<1>10. QED
  BY <1>2, <1>3, <1>5, <1>6, <1>7, <1>8, <1>9 DEF Next

(* Diagnostics never flag a document's own name as undefined, at whatever  *)
(* point a concurrent mutation of the indexes has arrived.                 *)
THEOREM OwnNamesAlwaysResolve == Spec => []OwnNamesResolve
<1>1. PassState => OwnNamesResolve
  BY DEF PassState, OwnNamesResolve
<1>2. Init => CoreInv /\ PassState
  BY InitCore
<1>3. CoreInv /\ PassState /\ [Next]_vars => (CoreInv /\ PassState)'
  BY StepCore, StepPass
<1>4. QED
  BY <1>1, <1>2, <1>3, PTL DEF Spec

-----------------------------------------------------------------------------
(* The indexes.                                                            *)

LEMMA InitIndex == Init => IndexState
  BY DEF Init, IndexState, Holds, DefinitionsOf, ReferencesOf, At, DeclaredIn,
         ReferredIn, Stored, Lost

(* Documents nobody works on keep their document and their locations.      *)
LEMMA OthersIndex ==
  ASSUME CoreInv, IndexState, NEW t \in Threads, Mutate(t),
         NEW u \in Uris, u # args[t].uri, NEW n \in Names
  PROVE  /\ Holds(definitions_by_name', n, u, DefinitionsOf(u)', Lost(u)')
         /\ Holds(references_by_name', n, u, ReferencesOf(u)', Lost(u)')
<1> USE DEF CoreInv
<1>1. index_lock = t /\ args[t].uri \in Uris
  BY DEF LockDiscipline, Requests, Args, Mutate, RemoveDefinitions,
         RemoveReferences, ApplyChanges, RejectChanges, ReparseStored, FindAbsent,
         RemoveStored, AddDefinitions, AddReferences, InsertDocument
<1>2. /\ documents'[u] = documents[u]
      /\ definitions_by_name'[n][u] = definitions_by_name[n][u]
      /\ references_by_name'[n][u] = references_by_name[n][u]
      /\ index_lock' = NoThread \/ (index_lock' = t /\ args' = args)
      /\ u \in rejected' <=> u \in rejected
  BY <1>1, DropFacts, PushFacts
     DEF TypeOK, indexVars, Goto, Return, Mutate, RemoveDefinitions,
         RemoveReferences, ApplyChanges, RejectChanges, ReparseStored, FindAbsent,
         RemoveStored, AddDefinitions, AddReferences, InsertDocument
<1>3. /\ DefinitionsOf(u) = DeclaredIn(u) /\ ReferencesOf(u) = ReferredIn(u)
      /\ DefinitionsOf(u)' = DeclaredIn(u)' /\ ReferencesOf(u)' = ReferredIn(u)'
      /\ Lost(u)' = Lost(u)
  BY <1>1, <1>2 DEF DefinitionsOf, ReferencesOf, Lost, At
<1>4. DeclaredIn(u)' = DeclaredIn(u) /\ ReferredIn(u)' = ReferredIn(u)
  BY <1>2 DEF DeclaredIn, ReferredIn, Stored
<1>5. QED
  BY <1>2, <1>3, <1>4 DEF IndexState, Holds

(* The document a mutator works on, phase by phase.                        *)
LEMMA OwnIndex ==
  ASSUME CoreInv, IndexState, NEW t \in Threads, Mutate(t),
         NEW u \in Uris, u = args[t].uri, NEW n \in Names
  PROVE  /\ Holds(definitions_by_name', n, u, DefinitionsOf(u)', Lost(u)')
         /\ Holds(references_by_name', n, u, ReferencesOf(u)', Lost(u)')
<1> USE DEF CoreInv
<1>0. phase[t] # "idle"
  BY DEF Mutate, RemoveDefinitions, RemoveReferences, ApplyChanges, RejectChanges,
         ReparseStored, FindAbsent, RemoveStored, AddDefinitions, AddReferences,
         InsertDocument
<1>1. /\ index_lock = t /\ t # NoThread /\ args[t] \in Args
      /\ documents \in [Uris -> Document \cup {NoDocument}]
  BY <1>0, StoreAssumption DEF LockDiscipline, Requests, TypeOK
<1>2. /\ Holds(definitions_by_name, n, u, DefinitionsOf(u), Lost(u))
      /\ Holds(references_by_name, n, u, ReferencesOf(u), Lost(u))
      /\ definitions_by_name \in Index /\ references_by_name \in Index
  BY DEF IndexState, TypeOK
<1> USE DEF At, DefinitionsOf, ReferencesOf, Lost
<1>a. ASSUME NEW next, Goto(t, next)
      PROVE  index_lock' = t /\ args' = args /\ phase'[t] = next
  BY <1>a, <1>1 DEF Goto, TypeOK
<1>b. ASSUME Return(t)
      PROVE  DefinitionsOf(u)' = DeclaredIn(u)' /\ ReferencesOf(u)' = ReferredIn(u)'
  BY <1>b DEF Return
<1>3. CASE RemoveDefinitions(t)
  <2>1. /\ definitions_by_name'[n][u] = IF n \in DeclaredIn(u) THEN 0
                                        ELSE definitions_by_name[n][u]
        /\ references_by_name' = references_by_name /\ documents' = documents
        /\ phase[t] = "remove_defs"
    BY <1>2, <1>3, DropFacts DEF RemoveDefinitions
  <2>2. index_lock' = t /\ args' = args /\ phase'[t] = "remove_refs"
    BY <1>3, <1>a DEF RemoveDefinitions
  <2>3. /\ DefinitionsOf(u)' = {} /\ ReferencesOf(u)' = ReferredIn(u)
        /\ Lost(u)' = Lost(u)
    BY <1>1, <1>3, <2>1, <2>2 DEF ReferredIn, Stored, RemoveDefinitions
  <2>4. DefinitionsOf(u) = DeclaredIn(u) /\ ReferencesOf(u) = ReferredIn(u)
    BY <1>1, <2>1
  <2>5. QED
    BY <1>2, <2>1, <2>3, <2>4 DEF Holds
<1>4. CASE RemoveReferences(t)
  <2>1. /\ references_by_name'[n][u] = IF n \in ReferredIn(u) THEN 0
                                       ELSE references_by_name[n][u]
        /\ definitions_by_name' = definitions_by_name
        /\ phase[t] = "remove_refs"
    BY <1>2, <1>4, DropFacts DEF RemoveReferences
  <2>2. /\ index_lock' = t /\ args' = args
        /\ phase'[t] = IF args[t].op = "upsert" THEN "add_defs" ELSE "mutate"
    BY <1>4, <1>a DEF RemoveReferences
  <2>3. DefinitionsOf(u)' = {} /\ ReferencesOf(u)' = {}
    BY <1>1, <2>1, <2>2
  <2>4. DefinitionsOf(u) = {} /\ ReferencesOf(u) = ReferredIn(u)
    BY <1>1, <2>1
  <2>5. QED
    BY <1>2, <2>1, <2>3, <2>4 DEF Holds
<1>5. CASE ApplyChanges(t) \/ ReparseStored(t)
  <2>1. /\ UNCHANGED indexVars /\ phase[t] = "mutate"
        /\ index_lock' = t /\ args' = args /\ phase'[t] = "add_defs"
    BY <1>5, <1>a DEF ApplyChanges, ReparseStored
  <2>2. /\ DefinitionsOf(u)' = {} /\ ReferencesOf(u)' = {}
        /\ DefinitionsOf(u) = {} /\ ReferencesOf(u) = {}
    BY <1>1, <2>1
  <2>3. QED
    BY <1>2, <2>1, <2>2 DEF Holds, indexVars
<1>6. CASE RejectChanges(t)
  <2>1. /\ UNCHANGED indexVars /\ phase[t] = "mutate" /\ u \in rejected'
        /\ index_lock' = NoThread
    BY <1>1, <1>6 DEF RejectChanges, Return
  <2>2. DefinitionsOf(u) = {} /\ ReferencesOf(u) = {} /\ Lost(u)'
    BY <1>1, <2>1
  <2>3. QED
    BY <1>2, <2>1, <2>2 DEF Holds, indexVars
<1>7. CASE FindAbsent(t) \/ RemoveStored(t)
  <2>1. UNCHANGED indexVars /\ phase[t] = "mutate" /\ Return(t) /\ ~Stored(u)'
    BY <1>1, <1>7 DEF FindAbsent, RemoveStored, Stored
  <2>2. DefinitionsOf(u)' = {} /\ ReferencesOf(u)' = {}
    BY <2>1, <1>b DEF DeclaredIn, ReferredIn
  <2>3. DefinitionsOf(u) = {} /\ ReferencesOf(u) = {}
    BY <1>1, <2>1
  <2>4. QED
    BY <1>2, <2>1, <2>2, <2>3 DEF Holds, indexVars
<1>8. CASE AddDefinitions(t)
  <2>1. /\ definitions_by_name'[n][u] = IF n \in Declares[Analysed(t)]
                                          THEN definitions_by_name[n][u] + 1
                                          ELSE definitions_by_name[n][u]
        /\ references_by_name' = references_by_name /\ documents' = documents
        /\ phase[t] = "add_defs"
    BY <1>2, <1>8, PushFacts DEF AddDefinitions
  <2>2. index_lock' = t /\ args' = args /\ phase'[t] = "add_refs"
    BY <1>8, <1>a DEF AddDefinitions
  <2>3. DefinitionsOf(u)' = Declares[Analysed(t)] /\ ReferencesOf(u)' = {}
    BY <1>1, <2>1, <2>2 DEF Analysed
  <2>4. DefinitionsOf(u) = {} /\ ReferencesOf(u) = {}
    BY <1>1, <2>1
  <2>5. QED
    BY <1>2, <2>1, <2>3, <2>4 DEF Holds
<1>9. CASE AddReferences(t)
  <2>1. /\ references_by_name'[n][u] = IF n \in Refers[Analysed(t)]
                                         THEN references_by_name[n][u] + 1
                                         ELSE references_by_name[n][u]
        /\ definitions_by_name' = definitions_by_name /\ documents' = documents
        /\ phase[t] = "add_refs"
    BY <1>2, <1>9, PushFacts DEF AddReferences
  <2>2. /\ DefinitionsOf(u) = Declares[Analysed(t)] /\ ReferencesOf(u) = {}
        /\ ~Lost(u)
    BY <1>1, <2>1
  <2>3. /\ DefinitionsOf(u)' = Declares[Analysed(t)]
        /\ ReferencesOf(u)' = Refers[Analysed(t)]
    <3>1. CASE args[t].op = "upsert"
      <4>1. index_lock' = t /\ args' = args /\ phase'[t] = "insert"
        BY <1>9, <1>a, <3>1 DEF AddReferences
      <4>2. QED
        BY <1>1, <2>1, <4>1 DEF Analysed
    <3>2. CASE args[t].op # "upsert"
      <4>1. Stored(u)' /\ Analysed(t) = documents[u].analysed
        BY <2>1, <3>2 DEF LockDiscipline, Analysed, Stored
      <4>2. Return(t)
        BY <1>9, <3>2 DEF AddReferences
      <4>3. QED
        BY <1>b, <2>1, <4>1, <4>2 DEF DeclaredIn, ReferredIn
    <3>3. QED
      BY <3>1, <3>2
  <2>4. QED
    BY <1>2, <2>1, <2>2, <2>3 DEF Holds
<1>10. CASE InsertDocument(t)
  <2>1. UNCHANGED indexVars /\ phase[t] = "insert" /\ Return(t)
    BY <1>10 DEF InsertDocument
  <2>2. args[t].op = "upsert"
    BY <2>1 DEF LockDiscipline
  <2>3. /\ DefinitionsOf(u) = Declares[args[t].text]
        /\ ReferencesOf(u) = Refers[args[t].text]
        /\ ~Lost(u)
    BY <1>1, <2>1, <2>2 DEF Analysed
  <2>4. Stored(u)' /\ documents'[u].analysed = args[t].text
    <3>1. documents'[u] = NewDocument(args[t].text, args[t].version)
      BY <1>1, <1>10 DEF InsertDocument
    <3>2. documents'[u] \in Document /\ documents'[u].analysed = args[t].text
      BY <1>1, <3>1 DEF NewDocument, Document, Args
    <3>3. QED
      BY <3>2, NothingAssumption DEF Stored
  <2>5. /\ DefinitionsOf(u)' = Declares[args[t].text]
        /\ ReferencesOf(u)' = Refers[args[t].text]
    BY <1>b, <2>1, <2>4 DEF DeclaredIn, ReferredIn
  <2>6. QED
    BY <1>2, <2>1, <2>3, <2>5 DEF Holds, indexVars
<1>11. QED
  BY <1>3, <1>4, <1>5, <1>6, <1>7, <1>8, <1>9, <1>10 DEF Mutate

LEMMA StepIndex ==
  ASSUME CoreInv, IndexState, [Next]_vars
  PROVE  IndexState'
<1>1. ASSUME NEW t \in Threads, Mutate(t)
      PROVE  IndexState'
  <2> SUFFICES ASSUME NEW u \in Uris, NEW n \in Names
               PROVE  /\ Holds(definitions_by_name', n, u, DefinitionsOf(u)', Lost(u)')
                      /\ Holds(references_by_name', n, u, ReferencesOf(u)', Lost(u)')
    BY DEF IndexState, Holds
  <2>1. CASE u = args[t].uri
    BY <1>1, <2>1, OwnIndex
  <2>2. CASE u # args[t].uri
    BY <1>1, <2>2, OthersIndex
  <2>3. QED
    BY <2>1, <2>2
<1>2. ASSUME UNCHANGED <<documents, indexVars>>,
             \A u \in Uris : /\ DefinitionsOf(u)' = DefinitionsOf(u)
                             /\ ReferencesOf(u)' = ReferencesOf(u)
                             /\ \/ Lost(u)' = Lost(u)
                                \/ DefinitionsOf(u) = {} /\ ReferencesOf(u) = {}
      PROVE  IndexState'
  BY <1>2 DEF IndexState, Holds, indexVars
<1>3. ASSUME NEW t \in Threads, NEW a \in Requests, Begin(t, a)
      PROVE  IndexState'
  <2>1. /\ index_lock = NoThread /\ index_lock' = t /\ args'[t] = a
        /\ UNCHANGED <<documents, indexVars, rejected>>
        /\ phase'[t] = IF Stored(a.uri) THEN "remove_defs"
                       ELSE IF a.op = "upsert" THEN "add_defs" ELSE "mutate"
    BY <1>3 DEF Begin, CoreInv, TypeOK
  <2>2. SUFFICES ASSUME NEW u \in Uris
                 PROVE  /\ DefinitionsOf(u)' = DefinitionsOf(u)
                        /\ ReferencesOf(u)' = ReferencesOf(u)
                        /\ \/ Lost(u)' = Lost(u)
                           \/ DefinitionsOf(u) = {} /\ ReferencesOf(u) = {}
    BY <1>2, <2>1
  <2>3. /\ DefinitionsOf(u) = DeclaredIn(u) /\ ReferencesOf(u) = ReferredIn(u)
        /\ DeclaredIn(u)' = DeclaredIn(u) /\ ReferredIn(u)' = ReferredIn(u)
    BY <2>1 DEF DefinitionsOf, ReferencesOf, At, DeclaredIn, ReferredIn, Stored
  <2>4. CASE Stored(a.uri) \/ u # a.uri
    BY <2>1, <2>3, <2>4 DEF DefinitionsOf, ReferencesOf, Lost, At
  <2>5. CASE ~Stored(a.uri) /\ u = a.uri
    BY <2>1, <2>3, <2>5 DEF DefinitionsOf, ReferencesOf, At, DeclaredIn, ReferredIn
  <2>6. QED
    BY <2>4, <2>5
<1>4. CASE UNCHANGED mutatorVars
  <2>1. \A u \in Uris : /\ DefinitionsOf(u)' = DefinitionsOf(u)
                        /\ ReferencesOf(u)' = ReferencesOf(u)
                        /\ Lost(u)' = Lost(u)
    BY <1>4 DEF mutatorVars, DefinitionsOf, ReferencesOf, Lost, At, Analysed,
                DeclaredIn, ReferredIn, Stored
  <2>2. QED
    BY <1>2, <1>4, <2>1 DEF mutatorVars
<1>5. CASE ReaderStep
  BY <1>4, <1>5 DEF ReaderStep, StartPass, ResolveReference, CheckDeclaration, EndPass
<1>6. CASE UNCHANGED vars
  BY <1>4, <1>6 DEF vars, mutatorVars, indexVars
<1>7. QED
  BY <1>1, <1>3, <1>5, <1>6 DEF Next, ReaderStep

(* The two indexes say exactly what the stored documents say whenever the  *)
(* index lock is free, save for documents that rejected a batch.           *)
THEOREM IndexesAgree == Spec => []IndexesMirrorDocuments
<1>1. Init => CoreInv /\ IndexState
  BY InitCore, InitIndex
<1>2. CoreInv /\ IndexState /\ [Next]_vars => (CoreInv /\ IndexState)'
  BY StepCore, StepIndex
<1>3. IndexState => IndexesMirrorDocuments
  BY DEF IndexState, IndexesMirrorDocuments, Holds, DefinitionsOf,
         ReferencesOf, Lost, At
<1>4. QED
  BY <1>1, <1>2, <1>3, PTL DEF Spec

(* No push ever meets a location of the same document, in the middle of a  *)
(* mutation, for a stale batch or after a rejected one.                    *)
THEOREM LocationsAreSingle == Spec => []NoDuplicateLocations
<1>1. IndexState => NoDuplicateLocations
  <2> SUFFICES ASSUME IndexState, NEW u \in Uris, NEW n \in Names
               PROVE  definitions_by_name[n][u] <= 1 /\ references_by_name[n][u] <= 1
    BY DEF NoDuplicateLocations
  <2>1. definitions_by_name[n][u] \in {0, 1} /\ references_by_name[n][u] \in {0, 1}
    BY DEF IndexState, Holds
  <2>2. QED
    BY <2>1
<1>2. Init => CoreInv /\ IndexState
  BY InitCore, InitIndex
<1>3. CoreInv /\ IndexState /\ [Next]_vars => (CoreInv /\ IndexState)'
  BY StepCore, StepIndex
<1>4. QED
  BY <1>1, <1>2, <1>3, PTL DEF Spec

-----------------------------------------------------------------------------
(* A reader never meets a new rope with an old parse.                      *)
LEMMA StepTorn ==
  ASSUME CoreInv, NeverTorn, [Next]_vars
  PROVE  NeverTorn'
<1> USE DEF CoreInv
<1> DEFINE Whole(d) == /\ d.parsed = d.text
                       /\ Outcome[d.text] # "bodyless" => d.analysed = d.text
<1>1. ASSUME NEW u \in Uris, NEW d \in Document, Whole(d),
             documents' = [documents EXCEPT ![u] = d],
             rejected' = rejected \ {u}
      PROVE  NeverTorn'
  BY <1>1 DEF NeverTorn, Stored, TypeOK
<1>2. ASSUME NEW d \in Document
      PROVE  Whole(Reparsed(d))
  BY <1>2 DEF Reparsed, Document
<1>3. CASE UNCHANGED <<documents, rejected>>
  BY <1>3 DEF NeverTorn, Stored
<1>4. ASSUME NEW t \in Threads, Mutate(t)
      PROVE  NeverTorn'
  <2> DEFINE u == args[t].uri
  <2>1. /\ args[t] \in Args /\ u \in Uris
        /\ args[t].text \in Texts /\ args[t].version \in Versions
    BY <1>4 DEF LockDiscipline, Requests, Args, Mutate, RemoveDefinitions,
         RemoveReferences, ApplyChanges, RejectChanges, ReparseStored, FindAbsent,
         RemoveStored, AddDefinitions, AddReferences, InsertDocument
  <2>2. ASSUME Stored(u) PROVE documents[u] \in Document
    BY <2>1, <2>2 DEF TypeOK, Stored
  <2>3. CASE ApplyChanges(t)
    <3> DEFINE d == [documents[u] EXCEPT !.text = args[t].text,
                                         !.version = args[t].version]
    <3>1. d \in Document
      BY <2>1, <2>2, <2>3 DEF ApplyChanges, Document
    <3>2. \/ documents' = documents /\ rejected' = rejected
          \/ documents' = [documents EXCEPT ![u] = Reparsed(d)] /\ rejected' = rejected \ {u}
      BY <2>3 DEF ApplyChanges, TypeOK
    <3>3. Reparsed(d) \in Document /\ Whole(Reparsed(d))
      BY <3>1, <1>2, ReparsedType
    <3> HIDE DEF d
    <3>4. QED
      BY <1>1, <1>3, <2>1, <3>2, <3>3
  <2>4. CASE RejectChanges(t)
    <3>1. \A v \in Uris : v # u => documents'[v] = documents[v]
      BY <2>4 DEF RejectChanges, TypeOK
    <3>2. rejected' = rejected \cup {u}
      BY <2>4 DEF RejectChanges
    <3>3. QED
      BY <3>1, <3>2 DEF NeverTorn, Stored
  <2>5. CASE ReparseStored(t)
    <3>1. Reparsed(documents[u]) \in Document /\ Whole(Reparsed(documents[u]))
      BY <1>2, <2>2, <2>5, ReparsedType DEF ReparseStored
    <3>2. /\ documents' = [documents EXCEPT ![u] = Reparsed(documents[u])]
          /\ rejected' = rejected \ {u}
      BY <2>5 DEF ReparseStored
    <3>3. QED
      BY <1>1, <2>1, <3>1, <3>2
  <2>6. CASE RemoveStored(t)
    BY <2>1, <2>6, NothingAssumption DEF RemoveStored, NeverTorn, Stored, TypeOK
  <2>7. CASE InsertDocument(t)
    <3> DEFINE d == NewDocument(args[t].text, args[t].version)
    <3>1. d \in Document /\ Whole(d)
      BY <2>1 DEF NewDocument, Document
    <3>2. documents' = [documents EXCEPT ![u] = d] /\ rejected' = rejected \ {u}
      BY <2>7 DEF InsertDocument
    <3>3. QED
      BY <1>1, <2>1, <3>1, <3>2
  <2>8. CASE UNCHANGED <<documents, rejected>>
    BY <1>3, <2>8
  <2>9. QED
    BY <1>4, <2>3, <2>4, <2>5, <2>6, <2>7, <2>8
       DEF Mutate, RemoveDefinitions, RemoveReferences, FindAbsent,
           AddDefinitions, AddReferences
<1>5. CASE ReaderStep
  BY <1>3, <1>5 DEF ReaderStep, StartPass, ResolveReference, CheckDeclaration,
                    EndPass, mutatorVars
<1>6. QED
  BY <1>3, <1>4, <1>5 DEF Next, ReaderStep, Begin, vars

(* A stored document is never torn unless it rejected a batch: its parse   *)
(* is of its rope, and its symbols are of its last text that parsed.       *)
THEOREM DocumentsAreWhole == Spec => []NeverTorn
<1>1. Init => CoreInv /\ NeverTorn
  BY InitCore DEF Init, NeverTorn, Stored
<1>2. CoreInv /\ NeverTorn /\ [Next]_vars => (CoreInv /\ NeverTorn)'
  BY StepCore, StepTorn
<1>3. QED
  BY <1>1, <1>2, PTL DEF Spec
-----------------------------------------------------------------------------
(* The store implements the abstract one, in which a call changes its      *)
(* document at one instant.                                                *)

LEMMA InitAtomic == Init => Atomic!Init
  BY DEF Init, Atomic!Init, InPlaceDone, HeldBy

(* In the middle of a call its document has no names in the indexes but    *)
(* those of the document and of the one to be inserted.                    *)
LEMMA FluxAfter ==
  ASSUME CoreInv', IndexState', NEW t \in Threads, phase'[t] # "idle",
         NEW a, a = args'[t]
  PROVE  Atomic!InFlux(a)'
<1>1. /\ index_lock' = t /\ a \in Args /\ a.uri \in Uris /\ t # NoThread
      /\ phase'[t] = "insert" => a.op = "upsert"
  BY StoreAssumption DEF CoreInv, LockDiscipline, Requests, Args
<1>2. ASSUME phase'[t] \in {"add_defs", "add_refs"}, a.op # "upsert"
      PROVE  Stored(a.uri)'
  BY <1>1, <1>2 DEF CoreInv, LockDiscipline
<1>3. /\ DeclaredIn(a.uri)' = Atomic!Declared(documents'[a.uri])
      /\ ReferredIn(a.uri)' = Atomic!Referred(documents'[a.uri])
  BY DEF DeclaredIn, ReferredIn, Stored, Atomic!Declared, Atomic!Referred
<1>4. Analysed(t)' = IF a.op = "upsert" THEN a.text ELSE documents'[a.uri].analysed
  BY DEF Analysed
<1>5. ASSUME phase'[t] \in {"add_defs", "add_refs", "insert"}
      PROVE  \/ a.op = "upsert" /\ Analysed(t)' = a.text
             \/ /\ DeclaredIn(a.uri)' = Declares[Analysed(t)']
                /\ ReferredIn(a.uri)' = Refers[Analysed(t)']
  BY <1>1, <1>2, <1>4, <1>5 DEF DeclaredIn, ReferredIn
<1>6. \A n \in DefinitionsOf(a.uri)' :
        n \in DeclaredIn(a.uri)' \/ (a.op = "upsert" /\ n \in Declares[a.text])
  BY <1>1, <1>5 DEF DefinitionsOf, At
<1>7. \A n \in ReferencesOf(a.uri)' :
        n \in ReferredIn(a.uri)' \/ (a.op = "upsert" /\ n \in Refers[a.text])
  BY <1>1, <1>5 DEF ReferencesOf, At
<1>8. \A n \in Names :
        /\ definitions_by_name'[n][a.uri] \in
             IF n \in DefinitionsOf(a.uri)' THEN {0, 1} ELSE {0}
        /\ references_by_name'[n][a.uri] \in
             IF n \in ReferencesOf(a.uri)' THEN {0, 1} ELSE {0}
  BY <1>1 DEF IndexState, Holds
<1>9. QED
  BY <1>3, <1>6, <1>7, <1>8 DEF Atomic!InFlux

LEMMA HeldWhenGuarded ==
  ASSUME NEW u \in Uris
  PROVE  Atomic!Held(u) <=> ReadGuarded(u)
  BY DEF Atomic!Held, ReadGuarded, HeldBy

(* A thread that runs no mutator has no arguments.                         *)
IdleArgs == \A t \in Threads : phase[t] = "idle" => args[t] = NoArgs

LEMMA StepIdle ==
  ASSUME CoreInv, IdleArgs, [Next]_vars
  PROVE  IdleArgs'
<1> USE DEF CoreInv
<1>1. ASSUME NEW t \in Threads, NEW next, next # "idle", Goto(t, next)
      PROVE  IdleArgs'
  BY <1>1 DEF IdleArgs, Goto, TypeOK
<1>2. ASSUME NEW t \in Threads, Return(t)
      PROVE  IdleArgs'
  BY <1>2 DEF IdleArgs, Return, TypeOK
<1>3. ASSUME NEW t \in Threads, Mutate(t)
      PROVE  IdleArgs'
  BY <1>1, <1>2, <1>3
     DEF Mutate, RemoveDefinitions, RemoveReferences, ApplyChanges, RejectChanges,
         ReparseStored, FindAbsent, RemoveStored, AddDefinitions, AddReferences,
         InsertDocument
<1>4. ASSUME NEW t \in Threads, NEW a \in Requests, Begin(t, a)
      PROVE  IdleArgs'
  BY <1>4 DEF Begin, IdleArgs, TypeOK
<1>5. CASE UNCHANGED <<phase, args>>
  BY <1>5 DEF IdleArgs
<1>6. QED
  BY <1>3, <1>4, <1>5
     DEF Next, StartPass, ResolveReference, CheckDeclaration, EndPass, mutatorVars, vars

LEMMA ElsewhereKept ==
  ASSUME CoreInv, NEW t \in Threads, Mutate(t), NEW a \in Args, a = args[t]
  PROVE  Atomic!ElsewhereAsFiled(a.uri)
<1>1. a.uri \in Uris
  BY DEF Args
<1>2. QED
  BY <1>1, DropFacts, PushFacts
     DEF CoreInv, TypeOK, Atomic!ElsewhereAsFiled, indexVars, Mutate, RemoveDefinitions,
         RemoveReferences, ApplyChanges, RejectChanges, ReparseStored, FindAbsent,
         RemoveStored, AddDefinitions, AddReferences, InsertDocument

(* In the phases between removal and addition, nothing is filed.           *)
LEMMA UnfiledBetween ==
  ASSUME CoreInv, IndexState, NEW t \in Threads, phase[t] = "mutate",
         NEW a \in Args, a = args[t]
  PROVE  Atomic!Unfiled(a.uri)
<1>1. index_lock = t /\ t # NoThread /\ a.uri \in Uris
  BY StoreAssumption DEF CoreInv, LockDiscipline, Args
<1>2. DefinitionsOf(a.uri) = {} /\ ReferencesOf(a.uri) = {}
  BY <1>1 DEF DefinitionsOf, ReferencesOf, At
<1>3. QED
  BY <1>1, <1>2 DEF IndexState, Holds, Atomic!Unfiled, Atomic!Filed

(* Every step of a mutator is a step of the call it serves.                *)
LEMMA MutateAtomic ==
  ASSUME CoreInv, CoreInv', IndexState, IndexState', PassState,
         NEW t \in Threads, Mutate(t), NEW a, a = args[t]
  PROVE  a \in {args[t]} \ {NoArgs} /\ Atomic!Serve(t, a)
<1>1. /\ phase[t] # "idle" /\ index_lock = t /\ a \in Args /\ a # NoArgs
      /\ a.uri \in Uris
      /\ \A s \in Threads : s # t => phase[s] = "idle"
  <2>1. phase[t] # "idle"
    BY DEF Mutate, RemoveDefinitions, RemoveReferences, ApplyChanges, RejectChanges,
           ReparseStored, FindAbsent, RemoveStored, AddDefinitions, AddReferences,
           InsertDocument
  <2>2. QED
    BY <2>1, NothingAssumption DEF CoreInv, LockDiscipline, Requests, Args
<1>0. SUFFICES Atomic!Serve(t, a)
  BY <1>1
<1>2. UNCHANGED HeldBy
  BY DEF HeldBy, Mutate, RemoveDefinitions, RemoveReferences, ApplyChanges,
         RejectChanges, ReparseStored, FindAbsent, RemoveStored, AddDefinitions,
         AddReferences, InsertDocument
<1>3. Atomic!ElsewhereAsFiled(a.uri)
  BY <1>1, ElsewhereKept
<1>4. InPlaceDone <=> phase[t] \in {"add_defs", "add_refs"} /\ a.op # "upsert"
  BY <1>1 DEF InPlaceDone
<1>5. ASSUME NEW next, next # "idle", Goto(t, next)
      PROVE  /\ Atomic!InFlux(a)' /\ UNCHANGED args
             /\ InPlaceDone' <=> next \in {"add_defs", "add_refs"} /\ a.op # "upsert"
  <2>1. args' = args /\ phase' = [phase EXCEPT ![t] = next] /\ phase'[t] = next
    BY <1>5 DEF Goto, CoreInv, TypeOK
  <2>2. Atomic!InFlux(a)'
    BY <1>5, <2>1, FluxAfter
  <2>3. \A s \in Threads : s # t => phase'[s] = "idle"
    BY <1>1, <2>1 DEF CoreInv, TypeOK
  <2>4. QED
    BY <2>1, <2>2, <2>3 DEF InPlaceDone
<1>6. ASSUME Return(t)
      PROVE  Atomic!Reply(t)
  <2>1. \A s \in Threads : phase'[s] = "idle"
    BY <1>1, <1>6 DEF Return, CoreInv, TypeOK
  <2>2. InPlaceDone' = FALSE
    BY <2>1 DEF InPlaceDone
  <2>3. QED
    BY <1>6, <2>2 DEF Return, Atomic!Reply
<1>7. ASSUME NEW next, next # "idle", Goto(t, next), UNCHANGED documents,
             next \in {"add_defs", "add_refs"} /\ a.op # "upsert" <=>
               phase[t] \in {"add_defs", "add_refs"} /\ a.op # "upsert"
      PROVE  Atomic!Serve(t, a)
  <2>1. Atomic!InFlux(a)' /\ UNCHANGED args
    BY <1>5, <1>7
  <2>2. UNCHANGED InPlaceDone
    <3>1. InPlaceDone' <=> InPlaceDone
      BY <1>4, <1>5, <1>7
    <3>2. InPlaceDone \in BOOLEAN /\ InPlaceDone' \in BOOLEAN
      BY DEF InPlaceDone
    <3>3. QED
      BY <3>1, <3>2
  <2>3. Atomic!Refile(t, a)
    BY <1>2, <1>3, <1>7, <2>1, <2>2 DEF Atomic!Refile
  <2>4. QED
    BY <2>3 DEF Atomic!Serve
<1>8. phase[t] = "mutate" => Atomic!Unfiled(a.uri)
  BY <1>1, UnfiledBetween
<1>9. ASSUME ~ReadGuarded(a.uri)
      PROVE  ~Atomic!Held(a.uri)
  BY <1>1, <1>9, HeldWhenGuarded
<1>10. CASE RemoveDefinitions(t)
  BY <1>7, <1>10 DEF RemoveDefinitions
<1>11. CASE RemoveReferences(t)
  <2> DEFINE next == IF a.op = "upsert" THEN "add_defs" ELSE "mutate"
  <2>1. Goto(t, next) /\ next # "idle" /\ phase[t] = "remove_refs" /\ UNCHANGED documents
    BY <1>11 DEF RemoveReferences
  <2>2. ~(next \in {"add_defs", "add_refs"} /\ a.op # "upsert")
    OBVIOUS
  <2> HIDE DEF next
  <2>3. QED
    BY <1>7, <2>1, <2>2
<1>12. CASE AddDefinitions(t)
  BY <1>7, <1>12 DEF AddDefinitions
<1>13. CASE AddReferences(t) /\ a.op = "upsert"
  BY <1>7, <1>13 DEF AddReferences
<1>14. CASE AddReferences(t) /\ a.op # "upsert"
  <2>1. /\ Return(t) /\ phase[t] = "add_refs" /\ UNCHANGED <<documents, definitions_by_name>>
        /\ Analysed(t) = documents[a.uri].analysed
        /\ references_by_name' = Push(references_by_name, Refers[Analysed(t)], a.uri)
    BY <1>14 DEF AddReferences, Analysed
  <2>2. /\ Stored(a.uri) /\ ~Lost(a.uri)
        /\ DefinitionsOf(a.uri) = Declares[Analysed(t)] /\ ReferencesOf(a.uri) = {}
    BY <1>1, <1>14, <2>1, StoreAssumption
       DEF CoreInv, LockDiscipline, Lost, DefinitionsOf, ReferencesOf, At
  <2>3. \A n \in Names :
          /\ definitions_by_name[n][a.uri] = IF n \in Declares[Analysed(t)] THEN 1 ELSE 0
          /\ references_by_name[n][a.uri] = 0
    BY <1>1, <2>2 DEF IndexState, Holds
  <2>4. \A n \in Names :
          references_by_name'[n][a.uri] = IF n \in Refers[Analysed(t)] THEN 1 ELSE 0
    BY <1>1, <2>1, <2>3, PushFacts DEF CoreInv, TypeOK
  <2>a. /\ Atomic!Declared(documents'[a.uri]) = Declares[Analysed(t)]
        /\ Atomic!Referred(documents'[a.uri]) = Refers[Analysed(t)]
    BY <2>1, <2>2 DEF Atomic!Declared, Atomic!Referred, Stored
  <2>b. \A n \in Names : definitions_by_name'[n][a.uri] = definitions_by_name[n][a.uri]
    BY <2>1
  <2>5. Atomic!Settled(a.uri)'
    BY <2>3, <2>4, <2>a, <2>b DEF Atomic!Settled, Atomic!Filed
  <2>6. Atomic!Finish(t, a)
    BY <1>2, <1>3, <1>4, <1>6, <1>14, <2>1, <2>5 DEF Atomic!Finish
  <2>7. QED
    BY <2>6 DEF Atomic!Serve
<1>15. CASE ApplyChanges(t) \/ ReparseStored(t)
  <2>1. /\ Goto(t, "add_defs") /\ a.op \in {"apply", "reparse"} /\ phase[t] = "mutate"
        /\ Stored(a.uri) /\ ~ReadGuarded(a.uri)
    BY <1>15 DEF ApplyChanges, ReparseStored
  <2>a. documents[a.uri] \in Document /\ documents[a.uri].version \in Nat /\ a.version \in Nat
    BY <1>1, <2>1, StoreAssumption DEF CoreInv, TypeOK, Stored, Document, Args, Versions
  <2>2. ~Atomic!Fails(documents[a.uri], a)
    BY <1>15, <2>a DEF Atomic!Fails, ApplyChanges, ReparseStored
  <2>3. documents' = [documents EXCEPT ![a.uri] = Atomic!After(@, a)]
    BY <1>15, <2>1
       DEF ApplyChanges, ReparseStored, Atomic!After, Atomic!Analyse, Reparsed, Stored
  <2>4. InPlaceDone' = TRUE /\ UNCHANGED args /\ Atomic!InFlux(a)'
    <3>1. InPlaceDone' \in BOOLEAN
      BY DEF InPlaceDone
    <3>2. QED
      BY <1>5, <2>1, <3>1
  <2>5. Atomic!TakeEffect(t, a)
    BY <1>2, <1>3, <1>4, <1>9, <2>1, <2>2, <2>3, <2>4 DEF Atomic!TakeEffect
  <2>6. QED
    BY <2>5 DEF Atomic!Serve
<1>16. CASE RejectChanges(t)
  <2>1. /\ Return(t) /\ phase[t] = "mutate" /\ ~ReadGuarded(a.uri)
        /\ UNCHANGED indexVars /\ Atomic!Fails(documents[a.uri], a)
        /\ \E rope \in {documents[a.uri].text, a.text} :
             documents' = [documents EXCEPT ![a.uri].text = rope]
    BY <1>16 DEF RejectChanges, Atomic!Fails, Stored
  <2>2. Atomic!Unfiled(a.uri)'
    BY <1>8, <2>1 DEF indexVars, Atomic!Unfiled, Atomic!Filed
  <2>3. Atomic!Fail(t, a)
    BY <1>2, <1>3, <1>4, <1>6, <1>9, <2>1, <2>2 DEF Atomic!Fail
  <2>4. QED
    BY <2>3 DEF Atomic!Serve
<1>17. CASE FindAbsent(t) \/ RemoveStored(t)
  <2>1. /\ Return(t) /\ phase[t] = "mutate" /\ UNCHANGED indexVars
        /\ a.op # "upsert" /\ (a.op = "remove" \/ ~Stored(a.uri))
        /\ documents' = [documents EXCEPT ![a.uri] = NoDocument]
    <3>1. CASE FindAbsent(t)
      BY <1>1, <3>1 DEF FindAbsent, Stored, CoreInv, TypeOK, LockDiscipline
    <3>2. CASE RemoveStored(t)
      BY <3>2 DEF RemoveStored
    <3>3. QED
      BY <1>17, <3>1, <3>2
  <2>2. ~ReadGuarded(a.uri)
    BY <1>17 DEF FindAbsent, RemoveStored, PassState, ReadGuarded
  <2>3. /\ ~Atomic!Fails(documents[a.uri], a)
        /\ Atomic!After(documents[a.uri], a) = NoDocument
    BY <2>1 DEF Atomic!Fails, Atomic!After, Stored
  <2>4. documents'[a.uri] = NoDocument
    BY <1>1, <2>1 DEF CoreInv, TypeOK
  <2>5. Atomic!Settled(a.uri)'
    BY <1>8, <2>1, <2>4
       DEF Atomic!Settled, Atomic!Unfiled, Atomic!Filed, Atomic!Declared, Atomic!Referred,
           indexVars
  <2>6. Atomic!TakeEffect(t, a)
    BY <1>2, <1>3, <1>4, <1>6, <1>9, <2>1, <2>2, <2>3, <2>5 DEF Atomic!TakeEffect
  <2>7. QED
    BY <2>6 DEF Atomic!Serve
<1>18. CASE InsertDocument(t)
  <2> DEFINE d == NewDocument(a.text, a.version)
  <2>1. /\ Return(t) /\ phase[t] = "insert" /\ a.op = "upsert" /\ ~ReadGuarded(a.uri)
        /\ UNCHANGED indexVars /\ documents' = [documents EXCEPT ![a.uri] = d]
    BY <1>18 DEF InsertDocument, CoreInv, LockDiscipline
  <2>2. d \in Document /\ d # NoDocument /\ d.analysed = a.text
    BY <1>1, NothingAssumption DEF NewDocument, Document, Args
  <2>3. /\ ~Lost(a.uri) /\ DefinitionsOf(a.uri) = Declares[a.text]
        /\ ReferencesOf(a.uri) = Refers[a.text]
    BY <1>1, <2>1, StoreAssumption DEF Lost, DefinitionsOf, ReferencesOf, At, Analysed
  <2>4. \A n \in Names :
          /\ definitions_by_name[n][a.uri] = IF n \in Declares[a.text] THEN 1 ELSE 0
          /\ references_by_name[n][a.uri] = IF n \in Refers[a.text] THEN 1 ELSE 0
    BY <1>1, <2>3 DEF IndexState, Holds
  <2>5. documents'[a.uri] = d
    BY <1>1, <2>1 DEF CoreInv, TypeOK
  <2>6. Atomic!Settled(a.uri)'
    BY <2>1, <2>2, <2>4, <2>5
       DEF Atomic!Settled, Atomic!Filed, Atomic!Declared, Atomic!Referred, indexVars
  <2>7. /\ ~Atomic!Fails(documents[a.uri], a)
        /\ Atomic!After(documents[a.uri], a) = d
    BY <2>1 DEF Atomic!Fails, Atomic!After, NewDocument
  <2>8. Atomic!TakeEffect(t, a)
    BY <1>2, <1>3, <1>4, <1>6, <1>9, <2>1, <2>6, <2>7 DEF Atomic!TakeEffect
  <2>9. QED
    BY <2>8 DEF Atomic!Serve
<1>19. QED
  BY <1>10, <1>11, <1>12, <1>13, <1>14, <1>15, <1>16, <1>17, <1>18 DEF Mutate

LEMMA StepAtomic ==
  ASSUME CoreInv, CoreInv', IndexState, IndexState', PassState, IdleArgs, [Next]_vars
  PROVE  [Atomic!Next]_(Atomic!storeVars)
<1>1. ASSUME NEW t \in Threads, Mutate(t)
      PROVE  Atomic!Next
  <2>1. PICK a : a = args[t]
    OBVIOUS
  <2>2. a \in {args[t]} \ {NoArgs} /\ Atomic!Serve(t, a)
    BY <1>1, <2>1, MutateAtomic
  <2>3. QED
    BY <2>2 DEF Atomic!Next
<1>2. ASSUME NEW t \in Threads, NEW a \in Requests, Begin(t, a)
      PROVE  Atomic!Next
  <2>1. \A s \in Threads : phase[s] = "idle" /\ args[s] = NoArgs
    BY <1>2, StoreAssumption DEF Begin, CoreInv, LockDiscipline, IdleArgs
  <2>2. /\ phase' = [phase EXCEPT ![t] = phase'[t]]
        /\ phase'[t] \in {"remove_defs", "mutate"} \/ a.op = "upsert"
        /\ args' = [args EXCEPT ![t] = a] /\ args'[t] = a
    BY <1>2 DEF Begin, CoreInv, TypeOK
  <2>3. \A s \in Threads : phase'[s] = "idle" \/ s = t
    BY <2>1, <2>2 DEF CoreInv, TypeOK
  <2>4. InPlaceDone' = FALSE /\ InPlaceDone = FALSE
    BY <2>1, <2>2, <2>3 DEF InPlaceDone
  <2>5. UNCHANGED <<documents, indexVars, HeldBy>>
    BY <1>2 DEF Begin, HeldBy
  <2>6. Atomic!Request(t, a)
    BY <2>2, <2>4, <2>5 DEF Atomic!Request, Atomic!indexVars, indexVars
  <2>7. QED
    BY <2>1, <2>6 DEF Atomic!Next
<1>3. ASSUME UNCHANGED mutatorVars
      PROVE  UNCHANGED <<documents, Atomic!indexVars, args, InPlaceDone>>
  BY <1>3 DEF mutatorVars, indexVars, Atomic!indexVars, InPlaceDone
<1>4. ASSUME NEW r \in Readers, NEW u \in Uris, StartPass(r, u)
      PROVE  Atomic!Next
  <2>1. /\ pass[r] = NoPass /\ Stored(u) /\ ~WriteGuarded(u) /\ UNCHANGED mutatorVars
        /\ pass' = [pass EXCEPT ![r] = pass'[r]] /\ pass'[r].uri = u
        /\ pass'[r] # NoPass
    <3> DEFINE p == [uri |-> u, refs |-> ReferredIn(u), decls |-> DeclaredIn(u),
                     undefined |-> {}, unused |-> {}]
    <3>1. p \in Pass /\ p.uri = u
      BY NamesOfDocument DEF CoreInv, Pass
    <3>2. pass' = [pass EXCEPT ![r] = p]
      BY <1>4 DEF StartPass
    <3> HIDE DEF p
    <3>3. QED
      BY <1>4, <3>1, <3>2, NothingAssumption DEF StartPass, CoreInv, TypeOK
  <2>2. HeldBy[r] = {} /\ HeldBy' = [HeldBy EXCEPT ![r] = {u}]
    BY <2>1 DEF HeldBy, CoreInv, TypeOK
  <2>3. ~ \E t \in Threads : args[t] # NoArgs /\ args[t].uri = u /\ InPlaceDone
    <3> SUFFICES ASSUME NEW t \in Threads, args[t] # NoArgs, args[t].uri = u, InPlaceDone
                 PROVE  FALSE
      OBVIOUS
    <3>1. PICK s \in Threads : phase[s] \in {"add_defs", "add_refs"} /\ args[s].op # "upsert"
      BY DEF InPlaceDone
    <3>2. s = t
      BY <3>1 DEF CoreInv, LockDiscipline, IdleArgs
    <3>3. args[t].op \in {"apply", "reparse"}
      BY <3>1, <3>2 DEF CoreInv, LockDiscipline, Requests, Args, Operations
    <3>4. QED
      BY <2>1, <3>1, <3>2, <3>3 DEF WriteGuarded
  <2>4. Atomic!Hold(r, u)
    BY <1>3, <2>1, <2>2, <2>3 DEF Atomic!Hold, Stored
  <2>5. QED
    BY <2>4 DEF Atomic!Next
<1>a. ASSUME NEW r \in Readers, pass[r] # NoPass, NEW p \in Pass, p.uri = pass[r].uri,
             pass' = [pass EXCEPT ![r] = p], UNCHANGED mutatorVars
      PROVE  UNCHANGED Atomic!storeVars
  <2>1. HeldBy' = HeldBy
    BY <1>a, NothingAssumption DEF HeldBy, CoreInv, TypeOK
  <2>2. QED
    BY <1>3, <1>a, <2>1 DEF Atomic!storeVars
<1>5. ASSUME NEW r \in Readers, NEW n \in Names,
             ResolveReference(r, n) \/ CheckDeclaration(r, n)
      PROVE  UNCHANGED Atomic!storeVars
  <2> DEFINE q == pass[r]
             defined == n \in DeclaredIn(q.uri) \/ Found(definitions_by_name, n)
             resolved == [q EXCEPT !.refs = @ \ {n},
                                   !.undefined = IF defined THEN @ ELSE @ \cup {n}]
             checked == [q EXCEPT !.decls = @ \ {n},
                                  !.unused = IF Found(references_by_name, n)
                                               THEN @ ELSE @ \cup {n}]
  <2>1. q \in Pass /\ q # NoPass /\ UNCHANGED mutatorVars
    BY <1>5 DEF ResolveReference, CheckDeclaration, CoreInv, TypeOK
  <2>2. /\ resolved \in Pass /\ resolved.uri = q.uri
        /\ checked \in Pass /\ checked.uri = q.uri
    BY <2>1 DEF Pass
  <2>3. pass' = [pass EXCEPT ![r] = resolved] \/ pass' = [pass EXCEPT ![r] = checked]
    BY <1>5 DEF ResolveReference, CheckDeclaration, CoreInv, TypeOK
  <2> HIDE DEF resolved, checked
  <2>4. QED
    BY <1>a, <2>1, <2>2, <2>3
<1>6. ASSUME NEW r \in Readers, EndPass(r)
      PROVE  Atomic!Next
  <2>1. UNCHANGED mutatorVars /\ pass' = [pass EXCEPT ![r] = NoPass]
    BY <1>6 DEF EndPass
  <2>2. HeldBy' = [HeldBy EXCEPT ![r] = {}]
    BY <2>1 DEF HeldBy, CoreInv, TypeOK
  <2>3. Atomic!LetGo(r)
    BY <1>3, <2>1, <2>2 DEF Atomic!LetGo
  <2>4. QED
    BY <2>3 DEF Atomic!Next
<1>7. CASE UNCHANGED vars
  BY <1>7 DEF vars, indexVars, Atomic!storeVars, Atomic!indexVars, InPlaceDone, HeldBy
<1>8. QED
  BY <1>1, <1>2, <1>4, <1>5, <1>6, <1>7 DEF Next

(* Whatever the mutators and readers do at the same time, the store        *)
(* behaves as one that serves its calls one at a time, each with one       *)
(* instant at which its document changes, while nobody reads it.           *)
THEOREM StoreServesAtomically == Spec => ServesAtomically
<1> DEFINE Inv == CoreInv /\ IndexState /\ PassState /\ IdleArgs
<1>1. Init => Inv /\ Atomic!Init
  BY InitCore, InitIndex, InitAtomic DEF Init, IdleArgs
<1>2. Inv /\ [Next]_vars => Inv'
  BY StepCore, StepIndex, StepPass, StepIdle
<1>3. Inv /\ Inv' /\ [Next]_vars => [Atomic!Next]_(Atomic!storeVars)
  BY StepAtomic
<1> HIDE DEF Inv
<1>4. QED
  BY <1>1, <1>2, <1>3, PTL DEF Spec, ServesAtomically, Atomic!Spec
=============================================================================
