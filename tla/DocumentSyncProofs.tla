-------------------------- MODULE DocumentSyncProofs --------------------------
(***************************************************************************)
(* Proofs about DocumentSync, for any number of sessions, edits, writes    *)
(* and messages under way, and for any of the disk-driven paths; and about *)
(* the positions and edits of TextEdits, for texts of any length.          *)
(***************************************************************************)
EXTENDS DocumentSync, TextEdits, QueueLemmas, FiniteSetTheorems

-----------------------------------------------------------------------------
(* Types.                                                                  *)

(* What a load holds once it has read is a text.                           *)
LoaderState == \A l \in Loaders : loader[l].step \in {"read", "checked"} => loader[l].text \in Texts

(* A handler in the middle of its first steps has its message at the head. *)
ServingState ==
  /\ serving # "none" => inbox # <<>> /\ Head(inbox).kind = serving
  /\ serving = "open" => open_docs

TypeInv == TypeOK /\ LoaderState /\ ServingState

LEMMA Numbers ==
  /\ MaxSessions \in Nat /\ MaxVersion \in Nat \ {0} /\ MaxWrites \in Nat
  /\ Versions \subseteq Nat /\ 0 \in Versions /\ 1 \in Versions /\ <<0, 0>> \in Texts
  /\ Unspoiled \in [by : {"nothing", "disk", "session"}, over : Versions]
<1>1. MaxSessions \in Nat /\ MaxVersion \in Nat \ {0} /\ MaxWrites \in Nat
  BY SyncAssumption
<1> QED BY <1>1 DEF Versions, Texts, Unspoiled

LEMMA InitTypes == Init => TypeInv
<1> SUFFICES ASSUME Init PROVE TypeInv
  OBVIOUS
<1>1. editor \in [open : BOOLEAN, session : 0 .. MaxSessions, version : Versions, text : Texts]
  BY Numbers DEF Init
<1>2. inbox \in Seq(Message) /\ lock_queue \in Seq(Message) /\ watch \in Seq({"changed", "removed"})
  BY DEF Init
<1>3. loader \in [Loaders -> [step : {"idle", "begun", "read", "checked"},
                              text : Texts \cup {NoFile}]]
  BY DEF Init, NoLoad
<1>4. writes \in 0 .. MaxWrites
  BY Numbers DEF Init
<1> QED BY <1>1, <1>2, <1>3, <1>4, Numbers 
    DEF Init, TypeInv, TypeOK, LoaderState, ServingState, NoLoad

(* What an editor's action sends is a message about its new state.         *)
Editors == [open : BOOLEAN, session : 0 .. MaxSessions, version : Versions, text : Texts]
Kinds == {"open", "change", "format", "close"}
Letter(kind, e) == [kind |-> kind, session |-> e.session, text |-> e.text, version |-> e.version]

LEMMA LetterType == \A kind \in Kinds, e \in Editors : Letter(kind, e) \in Message
  BY DEF Letter, Editors, Kinds, Message

Loads == [step : {"idle", "begun", "read", "checked"}, text : Texts \cup {NoFile}]
Harm == [by : {"nothing", "disk", "session"}, over : Versions]

LEMMA LostType == TypeOK => \A version \in Versions : Lost(version) \in Harm
  BY Numbers DEF TypeOK, Lost, Harm

LEMMA SendTypes ==
  ASSUME TypeOK, NEW kind \in Kinds, editor' \in Editors, Send(kind)
  PROVE  /\ inbox' \in Seq(Message) /\ inbox' = Append(inbox, Letter(kind, editor'))
         /\ inbox # <<>> => inbox' # <<>> /\ Head(inbox') = Head(inbox)
<1>1. inbox' = Append(inbox, Letter(kind, editor')) /\ Letter(kind, editor') \in Message
  BY LetterType DEF Send, Letter
<1>2. inbox \in Seq(Message)
  BY DEF TypeOK
<1>3. inbox # <<>> => Append(inbox, Letter(kind, editor')) # <<>>
                      /\ Head(Append(inbox, Letter(kind, editor'))) = Head(inbox)
  BY <1>1, <1>2
<1> QED BY <1>1, <1>2, <1>3, AppendElements

LEMMA EditorTypes ==
  ASSUME TypeOK
  PROVE  /\ editor \in Editors
         /\ EditorOpens => editor' \in Editors
         /\ EditorChanges => editor' \in Editors
         /\ EditorCloses => editor' \in Editors
<1> USE Numbers DEF TypeOK, Editors
<1>1. ASSUME EditorOpens PROVE editor' \in Editors
  <2>1. editor.session + 1 \in 0 .. MaxSessions /\ disk \in Texts
    BY <1>1 DEF EditorOpens
  <2> QED BY <1>1, <2>1 DEF EditorOpens
<1>2. ASSUME EditorChanges PROVE editor' \in Editors
  <2>1. editor.version + 1 \in Versions
    BY <1>2 DEF EditorChanges, Versions
  <2>2. <<editor.session, editor.version + 1>> \in Texts
    BY <1>2 DEF EditorChanges, Versions, Texts
  <2> QED BY <1>2, <2>1, <2>2 DEF EditorChanges
<1>3. ASSUME EditorCloses PROVE editor' \in Editors
  BY <1>3 DEF EditorCloses
<1> QED BY <1>1, <1>2, <1>3

LEMMA EnvironmentTypes ==
  ASSUME TypeInv, Environment PROVE TypeInv'
<1> USE DEF TypeInv, TypeOK, LoaderState, ServingState, serverVars
<1>1. CASE EditorOpens
  <2>1. /\ editor' \in Editors /\ inbox' \in Seq(Message)
        /\ inbox # <<>> => inbox' # <<>> /\ Head(inbox') = Head(inbox)
    BY <1>1, EditorTypes, SendTypes DEF EditorOpens, Kinds
  <2> QED BY <1>1, <2>1 DEF EditorOpens, Editors
<1>2. CASE EditorChanges
  <2>1. /\ editor' \in Editors /\ inbox' \in Seq(Message)
        /\ inbox # <<>> => inbox' # <<>> /\ Head(inbox') = Head(inbox)
    BY <1>2, EditorTypes, SendTypes DEF EditorChanges, Kinds
  <2> QED BY <1>2, <2>1 DEF EditorChanges, Editors
<1>3. CASE EditorFormats
  <2>1. /\ editor' \in Editors /\ inbox' \in Seq(Message)
        /\ inbox # <<>> => inbox' # <<>> /\ Head(inbox') = Head(inbox)
    BY <1>3, EditorTypes, SendTypes DEF EditorFormats, Kinds
  <2> QED BY <1>3, <2>1 DEF EditorFormats, Editors
<1>4. CASE EditorCloses
  <2>1. /\ editor' \in Editors /\ inbox' \in Seq(Message)
        /\ inbox # <<>> => inbox' # <<>> /\ Head(inbox') = Head(inbox)
    BY <1>4, EditorTypes, SendTypes DEF EditorCloses, Kinds
  <2> QED BY <1>4, <2>1 DEF EditorCloses, Editors
<1>5. ASSUME NEW content \in Texts \cup {NoFile}, NEW event \in {"changed", "removed"},
             OnDisk(content, event)
      PROVE  TypeInv'
  <2>1. writes' \in 0 .. MaxWrites
    BY <1>5, Numbers DEF OnDisk
  <2>2. watch' \in Seq({"changed", "removed"})
    BY <1>5, AppendElements DEF OnDisk
  <2> QED BY <1>5, <2>1, <2>2 DEF OnDisk
<1>6. CASE EditorSaves
  BY <1>5, <1>6 DEF EditorSaves
<1>7. CASE ExternalWrite
  <2>1. <<0, writes + 1>> \in Texts
    BY <1>7, Numbers DEF ExternalWrite, OnDisk, Texts
  <2> QED BY <1>5, <1>7, <2>1 DEF ExternalWrite
<1>8. CASE ExternalDelete
  BY <1>5, <1>8 DEF ExternalDelete
<1> QED BY <1>1, <1>2, <1>3, <1>4, <1>6, <1>7, <1>8 DEF Environment

LEMMA HandlerTypes == ASSUME TypeInv, Handlers PROVE TypeInv'
<1> USE DEF TypeInv, TypeOK, LoaderState, ServingState, clientVars, diskVars, stored
<1>1. CASE DidOpenMark \/ DidCloseMark
  BY <1>1 DEF DidOpenMark, DidCloseMark
<1>2. CASE DidOpenUpsert
  <2>1. Head(inbox) \in Message /\ Tail(inbox) \in Seq(Message)
    BY <1>2, TailElements DEF DidOpenUpsert
  <2>2. [text |-> Head(inbox).text, version |-> Head(inbox).version] \in Document
    BY <2>1 DEF Message, Document
  <2> QED BY <1>2, <2>1, <2>2, Numbers DEF DidOpenUpsert
<1>3. CASE DidCloseRemove
  <2>1. Tail(inbox) \in Seq(Message)
    BY <1>3, TailElements DEF DidCloseRemove
  <2> QED BY <1>3, <2>1, Numbers DEF DidCloseRemove
<1>4. ASSUME NEW i \in Deliverable, AwaitDocLock(i) PROVE TypeInv'
  <2>1. i \in DOMAIN inbox /\ inbox[i] \in Message
    BY DEF Deliverable
  <2>2. inbox' \in Seq(Message) /\ lock_queue' \in Seq(Message)
    BY <1>4, <2>1, RemoveAtElements, AppendElements DEF AwaitDocLock, Wait
  <2> QED BY <1>4, <2>2 DEF AwaitDocLock
<1>5. CASE ApplyChange
  <2> DEFINE m == Head(lock_queue)
  <2>1. m \in Message /\ Tail(lock_queue) \in Seq(Message)
    BY <1>5, TailElements DEF ApplyChange
  <2>2. Applied(m) \in Document /\ m.version \in Versions
    BY <2>1 DEF Applied, Message, Document
  <2>3. Lost(m.version) \in Harm /\ [by |-> "session", over |-> 0] \in Harm /\ Unspoiled \in Harm
    BY <2>2, LostType, Numbers DEF Harm
  <2>4. document' \in {document, Applied(m)} /\ spoiled' \in {spoiled, Lost(m.version), Overwritten(m)}
    BY <1>5 DEF ApplyChange
  <2>5. Overwritten(m) \in {[by |-> "session", over |-> 0], spoiled, Unspoiled}
    BY DEF Overwritten
  <2> QED BY <1>5, <2>1, <2>2, <2>3, <2>4, <2>5 DEF ApplyChange, Harm
<1>6. CASE FormatDocument
  <2>1. Tail(lock_queue) \in Seq(Message)
    BY <1>6, TailElements DEF FormatDocument
  <2> QED BY <1>6, <2>1 DEF FormatDocument
<1> QED BY <1>1, <1>2, <1>3, <1>4, <1>5, <1>6 DEF Handlers

LEMMA DiskTypes == ASSUME TypeInv, DiskPaths PROVE TypeInv'
<1> USE DEF TypeInv, TypeOK, LoaderState, ServingState, clientVars, handlerVars, stored
<1>1. FromDisk \in Harm
  <2>1. (IF document = NoDocument THEN 0 ELSE document.version) \in Versions
    BY Numbers DEF Document
  <2> QED BY <2>1, LostType DEF FromDisk
<1>2. CASE WatchChanged \/ WatchRemoved
  <2>1. watch # <<>> => Tail(watch) \in Seq({"changed", "removed"})
    BY TailElements
  <2> QED BY <1>2, <2>1 DEF WatchChanged, WatchRemoved
<1>3. CASE RemoveFromDisk
  BY <1>1, <1>3 DEF RemoveFromDisk, Harm
<1>4. ASSUME NEW l \in Loaders, LoadBegins(l) PROVE TypeInv'
  BY <1>4 DEF LoadBegins
<1>5. ASSUME NEW l \in Loaders, LoadReads(l) PROVE TypeInv'
  BY <1>5 DEF LoadReads, NoLoad
<1>6. ASSUME NEW l \in Loaders, LoadChecksOpen(l) PROVE TypeInv'
  BY <1>6 DEF LoadChecksOpen, NoLoad
<1>7. ASSUME NEW l \in Loaders, LoadUpserts(l) PROVE TypeInv'
  <2>1. Loaded(loader[l].text) \in Document
    BY <1>7, Numbers DEF LoadUpserts, Loaded, Document
  <2> QED BY <1>1, <1>7, <2>1 DEF LoadUpserts, NoLoad, Harm
<1> QED BY <1>2, <1>3, <1>4, <1>5, <1>6, <1>7 DEF DiskPaths

LEMMA StepTypes == TypeInv /\ [Next]_vars => TypeInv'
<1>1. TypeInv /\ UNCHANGED vars => TypeInv'
  BY DEF vars, TypeInv, TypeOK, LoaderState, ServingState
<1> QED BY <1>1, EnvironmentTypes, HandlerTypes, DiskTypes DEF Next

(* Buffers, messages, documents and the history are well-formed; what a    *)
(* load upserts is a text.                                                 *)
THEOREM TypeCorrect == Spec => []TypeOK
<1>1. TypeInv => TypeOK
  BY DEF TypeInv
<1> QED BY InitTypes, StepTypes, <1>1, PTL DEF Spec

-----------------------------------------------------------------------------
(* Sessions.                                                               *)

Current(m) == m.session = editor.session

(* What a message under way says, and of which buffer.                     *)
MessageOf(m) ==
  /\ 1 <= m.session /\ m.session <= editor.session
  /\ m.kind = "open" => m.version = 1
  /\ m.kind = "change" => m.version >= 2
  /\ Current(m) => /\ 1 <= m.version /\ m.version <= editor.version
                   /\ m.version = editor.version => m.text = editor.text

Messages ==
  /\ \A i \in DOMAIN inbox : MessageOf(inbox[i])
  /\ \A i \in DOMAIN lock_queue : MessageOf(lock_queue[i]) /\ lock_queue[i].kind \in {"change", "format"}
  /\ editor.open => editor.version >= 1 /\ editor.session >= 1

(* The didOpen of the editor's session is still in the inbox, behind       *)
(* everything earlier sessions sent and before everything this one did.    *)
OpenAt(k) ==
  /\ Current(inbox[k]) /\ inbox[k].kind = "open"
  /\ \A i \in DOMAIN inbox :
       /\ i < k => ~Current(inbox[i])
       /\ i > k => Current(inbox[i]) /\ inbox[i].kind \in {"change", "format"}
  /\ \A i \in DOMAIN lock_queue : ~Current(lock_queue[i])

Arriving == \E k \in DOMAIN inbox : OpenAt(k)

(* It has been served.  What earlier sessions left waits for doc_lock      *)
(* before anything of this one.                                            *)
Arrived ==
  /\ open_docs /\ serving = "none"
  /\ \A i \in DOMAIN inbox : Current(inbox[i]) /\ inbox[i].kind \in {"change", "format"}
  /\ \A i, j \in DOMAIN lock_queue :
       i < j /\ ~Current(lock_queue[j]) => ~Current(lock_queue[i])

LatesWait == \E i \in DOMAIN lock_queue : ~Current(lock_queue[i])

(* Version v of the buffer is still under way ...                          *)
IsEdit(m, v) == m.kind = "change" /\ Current(m) /\ m.version = v

Waits(v) ==
  \/ \E i \in DOMAIN inbox : IsEdit(inbox[i], v)
  \/ \E i \in DOMAIN lock_queue : IsEdit(lock_queue[i], v)

AllWait == \A v \in 2 .. editor.version : Waits(v)

(* ... or the store has it, or a newer one, or has lost it to the disk.    *)
Accounted(v) ==
  \/ Waits(v)
  \/ document # NoDocument /\ document.version >= v
  \/ spoiled.by = "disk" /\ spoiled.over >= v

Faithful ==
  spoiled = Unspoiled /\ document # NoDocument =>
    /\ document.version <= editor.version
    /\ document.version = editor.version => document.text = editor.text

Served ==
  /\ Arrived
  /\ LatesWait => AllWait
  /\ \A v \in 1 .. editor.version : Accounted(v)
  /\ Faithful

SessionState == editor.open => (Arriving /\ AllWait) \/ Served

(* An edit behind a format request is newer than the buffer it is about.   *)
Later(h, m) ==
  h.kind = "format" /\ m.kind = "change" /\ Current(h) /\ Current(m) => m.version > h.version

FormatOrder ==
  editor.open =>
    /\ \A i, j \in DOMAIN inbox : i < j => Later(inbox[i], inbox[j])
    /\ \A i, j \in DOMAIN lock_queue : i < j => Later(lock_queue[i], lock_queue[j])
    /\ \A i \in DOMAIN lock_queue, j \in DOMAIN inbox : Later(lock_queue[i], inbox[j])

IInv == TypeInv /\ Messages /\ SessionState /\ FormatOrder

LEMMA InitIInv == Init => IInv
  BY InitTypes DEF Init, IInv, Messages, SessionState, FormatOrder

(* What the steps that send and serve nothing leave alone.                 *)
LEMMA Unserved ==
  ASSUME IInv, UNCHANGED <<editor, inbox, lock_queue, serving, open_docs, document, spoiled>>
  PROVE  Messages' /\ SessionState' /\ FormatOrder'
  BY DEF IInv, Messages, MessageOf, Current, SessionState, Arriving, OpenAt, AllWait, Waits, IsEdit,
     Served, Arrived, LatesWait, Accounted, Faithful, FormatOrder, Later

-----------------------------------------------------------------------------
(* The editor.                                                             *)

(* The numbers of a session.                                               *)
LEMMA EditorNumbers ==
  ASSUME IInv
  PROVE  /\ editor.session \in Nat /\ editor.version \in Nat
         /\ \A m \in Message : m.session \in Nat /\ m.version \in Nat
         /\ \A i \in DOMAIN inbox : i \in Nat /\ inbox[i] \in Message
         /\ \A i \in DOMAIN lock_queue : i \in Nat /\ lock_queue[i] \in Message
<1>1. inbox \in Seq(Message) /\ lock_queue \in Seq(Message) /\ editor \in Editors
  BY DEF IInv, TypeInv, TypeOK, Editors
<1> DEFINE Sessions == 0 .. MaxSessions
<1>n. Sessions \subseteq Nat /\ Versions \subseteq Nat
  BY Numbers
<1>2. ASSUME NEW m \in Message PROVE m.session \in Nat /\ m.version \in Nat
  <2> HIDE DEF Sessions
  <2>1. m.session \in Sessions /\ m.version \in Versions
    BY DEF Message, Sessions
  <2> QED BY <1>n, <2>1
<1>3. editor.session \in Nat /\ editor.version \in Nat
  <2> HIDE DEF Sessions
  <2>1. editor.session \in Sessions /\ editor.version \in Versions
    BY <1>1 DEF Editors, Sessions
  <2> QED BY <1>n, <2>1
<1>4. /\ \A i \in DOMAIN inbox : i \in Nat /\ inbox[i] \in Message
      /\ \A i \in DOMAIN lock_queue : i \in Nat /\ lock_queue[i] \in Message
  BY <1>1
<1> QED BY <1>2, <1>3, <1>4

(* A sent message comes behind all others.                                 *)
LEMMA Sent ==
  ASSUME IInv, NEW kind \in Kinds, editor' \in Editors, Send(kind), UNCHANGED lock_queue
  PROVE  \E n \in Nat \ {0} :
           /\ n \notin DOMAIN inbox /\ DOMAIN inbox' = DOMAIN inbox \cup {n}
           /\ inbox'[n] = Letter(kind, editor')
           /\ \A i \in DOMAIN inbox : inbox'[i] = inbox[i] /\ i < n
<1>1. inbox \in Seq(Message) /\ Letter(kind, editor') \in Message
  BY LetterType DEF IInv, TypeInv, TypeOK
<1>2. inbox' = Append(inbox, Letter(kind, editor'))
  BY SendTypes DEF IInv, TypeInv
<1> WITNESS Len(inbox) + 1 \in Nat \ {0}
<1> QED BY <1>1, <1>2, AppendElements

LEMMA OpensState ==
  ASSUME IInv, EditorOpens PROVE Messages' /\ SessionState' /\ FormatOrder'
<1> USE EditorNumbers
<1>1. editor' \in Editors /\ UNCHANGED lock_queue /\ ~editor.open
  BY EditorTypes DEF EditorOpens, serverVars, IInv, TypeInv
<1>2. PICK n \in Nat \ {0} :
        /\ n \notin DOMAIN inbox /\ DOMAIN inbox' = DOMAIN inbox \cup {n}
        /\ inbox'[n] = Letter("open", editor')
        /\ \A i \in DOMAIN inbox : inbox'[i] = inbox[i] /\ i < n
  BY <1>1, Sent DEF EditorOpens, Kinds
<1>3. editor'.session = editor.session + 1 /\ editor'.version = 1 /\ editor'.open
  BY DEF EditorOpens
<1>4. /\ inbox'[n].session = editor'.session /\ inbox'[n].kind = "open"
      /\ inbox'[n].version = 1 /\ inbox'[n].text = editor'.text
  BY <1>2, <1>3 DEF Letter
<1>5. /\ \A i \in DOMAIN inbox : inbox'[i].session < editor'.session
      /\ \A i \in DOMAIN lock_queue' : lock_queue'[i].session < editor'.session
  BY <1>1, <1>2, <1>3 DEF IInv, Messages, MessageOf
<1>6. Messages'
  BY <1>1, <1>2, <1>3, <1>4, <1>5 DEF IInv, Messages, MessageOf, Current
<1>7. OpenAt(n)'
  BY <1>1, <1>2, <1>3, <1>4, <1>5 DEF OpenAt, Current
<1>8. AllWait'
  BY <1>3 DEF AllWait
<1>9. FormatOrder'
  BY <1>1, <1>2, <1>3, <1>4, <1>5 DEF FormatOrder, Later, Current
<1> QED BY <1>2, <1>6, <1>7, <1>8, <1>9 DEF SessionState, Arriving

(* What an edit or a request of the present session adds, behind all that  *)
(* is under way already.                                                   *)
LEMMA SentState ==
  ASSUME IInv, editor.open, editor'.open, editor'.session = editor.session,
         NEW kind \in {"change", "format"}, NEW n \in Nat \ {0},
         n \notin DOMAIN inbox, DOMAIN inbox' = DOMAIN inbox \cup {n},
         inbox'[n] = Letter(kind, editor'),
         \A i \in DOMAIN inbox : inbox'[i] = inbox[i] /\ i < n,
         UNCHANGED <<lock_queue, serving, open_docs>>
  PROVE  /\ \A i \in DOMAIN inbox : Current(inbox[i])' <=> Current(inbox[i])
         /\ \A i \in DOMAIN lock_queue : Current(lock_queue[i])' <=> Current(lock_queue[i])
         /\ \A v : Waits(v) => Waits(v)'
         /\ Arriving => Arriving'
         /\ Arrived => Arrived'
         /\ LatesWait' => LatesWait
<1> USE EditorNumbers
<1>1. inbox'[n].kind = kind /\ inbox'[n].session = editor'.session
  BY DEF Letter
<1>2. /\ \A i \in DOMAIN inbox : Current(inbox[i])' <=> Current(inbox[i])
      /\ \A i \in DOMAIN lock_queue : Current(lock_queue[i])' <=> Current(lock_queue[i])
  BY DEF Current
<1>3. ASSUME NEW v, Waits(v) PROVE Waits(v)'
  BY <1>2, <1>3 DEF Waits, IsEdit
<1>4. ASSUME NEW k \in DOMAIN inbox, OpenAt(k) PROVE OpenAt(k)'
  BY <1>1, <1>2, <1>4 DEF OpenAt, Current
<1>5. Arriving => Arriving'
  BY <1>4 DEF Arriving
<1>6. Arrived => Arrived'
  BY <1>1, <1>2 DEF Arrived, Current
<1>7. LatesWait' => LatesWait
  BY <1>2 DEF LatesWait
<1> QED BY <1>2, <1>3, <1>5, <1>6, <1>7

LEMMA ChangesState ==
  ASSUME IInv, EditorChanges PROVE Messages' /\ SessionState' /\ FormatOrder'
<1> USE EditorNumbers
<1>1. /\ editor' \in Editors /\ editor.open /\ editor'.open /\ editor'.session = editor.session
      /\ editor'.version = editor.version + 1
      /\ UNCHANGED <<lock_queue, serving, open_docs, document, spoiled>>
  BY EditorTypes DEF EditorChanges, serverVars, IInv, TypeInv, TypeOK
<1>2. PICK n \in Nat \ {0} :
        /\ n \notin DOMAIN inbox /\ DOMAIN inbox' = DOMAIN inbox \cup {n}
        /\ inbox'[n] = Letter("change", editor')
        /\ \A i \in DOMAIN inbox : inbox'[i] = inbox[i] /\ i < n
  BY <1>1, Sent DEF EditorChanges, Kinds
<1>3. /\ inbox'[n].session = editor'.session /\ inbox'[n].kind = "change"
      /\ inbox'[n].version = editor'.version /\ inbox'[n].text = editor'.text
  BY <1>2 DEF Letter
<1>4. /\ \A i \in DOMAIN inbox : Current(inbox[i])' <=> Current(inbox[i])
      /\ \A i \in DOMAIN lock_queue : Current(lock_queue[i])' <=> Current(lock_queue[i])
      /\ \A v : Waits(v) => Waits(v)'
      /\ Arriving => Arriving'
      /\ Arrived => Arrived'
      /\ LatesWait' => LatesWait
  BY <1>1, <1>2, SentState
<1>5. Waits(editor.version)'
  BY <1>1, <1>2, <1>3 DEF Waits, IsEdit, Current
<1>6. Messages'
  BY <1>1, <1>2, <1>3 DEF IInv, Messages, MessageOf, Current
<1>7. AllWait => AllWait'
  BY <1>1, <1>4, <1>5 DEF AllWait
<1>8. ASSUME Served PROVE Served'
  <2>1. \A v \in 1 .. editor'.version : Accounted(v)'
    BY <1>1, <1>4, <1>5, <1>8 DEF Served, Accounted
  <2>2. Faithful'
    <3>1. document # NoDocument => document.version \in Nat
      BY Numbers DEF IInv, TypeInv, TypeOK, Document
    <3> QED BY <1>1, <1>8, <3>1 DEF Served, Faithful
  <2> QED BY <1>4, <1>7, <1>8, <2>1, <2>2 DEF Served
<1>9. SessionState'
  BY <1>1, <1>4, <1>7, <1>8 DEF IInv, SessionState
<1>10. FormatOrder'
  <2>1. /\ \A i \in DOMAIN inbox : Later(inbox[i], inbox[n])'
        /\ \A i \in DOMAIN lock_queue : Later(lock_queue[i], inbox[n])'
    BY <1>1, <1>2, <1>3 DEF IInv, Messages, MessageOf, Later, Current
  <2>2. \A h, m : Later(h, m) => Later(h, m)'
    BY <1>1 DEF Later, Current
  <2>3. ASSUME NEW i \in DOMAIN inbox', NEW j \in DOMAIN inbox', i < j
        PROVE  Later(inbox[i], inbox[j])'
    <3>1. i \in DOMAIN inbox /\ inbox'[i] = inbox[i]
      BY <1>2, <2>3
    <3>2. CASE j = n
      BY <1>2, <1>3, <2>1, <3>1, <3>2 DEF Later
    <3>3. CASE j # n
      BY <1>1, <1>2, <2>2, <2>3, <3>1, <3>3 DEF IInv, FormatOrder
    <3> QED BY <3>2, <3>3
  <2>4. ASSUME NEW i \in DOMAIN lock_queue', NEW j \in DOMAIN inbox'
        PROVE  Later(lock_queue[i], inbox[j])'
    <3>1. CASE j = n
      BY <1>1, <1>2, <2>1, <3>1 DEF Later
    <3>2. CASE j # n
      BY <1>1, <1>2, <2>2, <3>2 DEF IInv, FormatOrder
    <3> QED BY <3>1, <3>2
  <2>5. \A i, j \in DOMAIN lock_queue' : i < j => Later(lock_queue[i], lock_queue[j])'
    BY <1>1, <2>2 DEF IInv, FormatOrder
  <2> QED BY <2>3, <2>4, <2>5 DEF FormatOrder
<1> QED BY <1>6, <1>9, <1>10

LEMMA FormatsState ==
  ASSUME IInv, EditorFormats PROVE Messages' /\ SessionState' /\ FormatOrder'
<1> USE EditorNumbers
<1>1. /\ editor \in Editors /\ editor' = editor /\ editor.open
      /\ UNCHANGED <<lock_queue, serving, open_docs, document, spoiled>>
  BY EditorTypes DEF EditorFormats, serverVars, IInv, TypeInv
<1>2. PICK n \in Nat \ {0} :
        /\ n \notin DOMAIN inbox /\ DOMAIN inbox' = DOMAIN inbox \cup {n}
        /\ inbox'[n] = Letter("format", editor')
        /\ \A i \in DOMAIN inbox : inbox'[i] = inbox[i] /\ i < n
  BY <1>1, Sent DEF EditorFormats, Kinds
<1>3. /\ inbox'[n].session = editor'.session /\ inbox'[n].kind = "format"
      /\ inbox'[n].version = editor'.version /\ inbox'[n].text = editor'.text
  BY <1>2 DEF Letter
<1>4. /\ \A v : Waits(v) => Waits(v)'
      /\ Arriving => Arriving'
      /\ Arrived => Arrived'
      /\ LatesWait' => LatesWait
  BY <1>1, <1>2, SentState
<1>5. Messages'
  BY <1>1, <1>2, <1>3 DEF IInv, Messages, MessageOf, Current
<1>6. AllWait => AllWait'
  BY <1>1, <1>4 DEF AllWait
<1>7. Served => Served'
  BY <1>1, <1>4, <1>6 DEF Served, Accounted, Faithful
<1>8. SessionState'
  BY <1>1, <1>4, <1>6, <1>7 DEF IInv, SessionState
<1>9. FormatOrder'
  BY <1>1, <1>2, <1>3 DEF IInv, FormatOrder, Later, Current
<1> QED BY <1>5, <1>8, <1>9

LEMMA ClosesState ==
  ASSUME IInv, EditorCloses PROVE Messages' /\ SessionState' /\ FormatOrder'
<1> USE EditorNumbers
<1>1. /\ editor' \in Editors /\ editor.open /\ ~editor'.open /\ editor'.session = editor.session
      /\ editor'.version = editor.version /\ editor'.text = editor.text
      /\ UNCHANGED <<lock_queue, serving, open_docs, document, spoiled>>
  BY EditorTypes DEF EditorCloses, serverVars, IInv, TypeInv, TypeOK
<1>2. PICK n \in Nat \ {0} :
        /\ n \notin DOMAIN inbox /\ DOMAIN inbox' = DOMAIN inbox \cup {n}
        /\ inbox'[n] = Letter("close", editor')
        /\ \A i \in DOMAIN inbox : inbox'[i] = inbox[i] /\ i < n
  BY <1>1, Sent DEF EditorCloses, Kinds
<1>3. /\ inbox'[n].session = editor'.session /\ inbox'[n].kind = "close"
      /\ inbox'[n].version = editor'.version /\ inbox'[n].text = editor'.text
  BY <1>2 DEF Letter
<1>4. Messages'
  BY <1>1, <1>2, <1>3 DEF IInv, Messages, MessageOf, Current
<1> QED BY <1>1, <1>4 DEF SessionState, FormatOrder

-----------------------------------------------------------------------------
(* The life cycle handlers.                                                *)

(* didOpen or didClose at the head: the editor's session, if it is open,   *)
(* has not arrived.                                                        *)
LEMMA NotArrived ==
  ASSUME IInv, editor.open, inbox # <<>>, Head(inbox).kind \in {"open", "close"}
  PROVE  Arriving /\ AllWait
<1>1. Head(inbox) = inbox[1] /\ 1 \in DOMAIN inbox
  BY TailElements DEF IInv, TypeInv, TypeOK
<1>2. ~Arrived
  BY <1>1 DEF Arrived
<1> QED BY <1>2 DEF IInv, SessionState, Served

LEMMA MarksState ==
  ASSUME IInv, DidOpenMark \/ DidCloseMark PROVE Messages' /\ SessionState' /\ FormatOrder'
<1>1. UNCHANGED <<editor, inbox, lock_queue>>
  BY DEF DidOpenMark, DidCloseMark, clientVars
<1>2. editor.open => Arriving /\ AllWait
  BY NotArrived DEF DidOpenMark, DidCloseMark
<1>3. Messages' /\ FormatOrder'
  BY <1>1 DEF IInv, Messages, MessageOf, Current, FormatOrder, Later
<1>4. (Arriving => Arriving') /\ (AllWait => AllWait')
  BY <1>1 DEF Arriving, OpenAt, AllWait, Waits, IsEdit, Current
<1> QED BY <1>1, <1>2, <1>3, <1>4 DEF SessionState

(* The inbox without its head.                                             *)
LEMMA InboxTail ==
  ASSUME IInv, inbox # <<>>, inbox' = Tail(inbox)
  PROVE  /\ Head(inbox) = inbox[1] /\ 1 \in DOMAIN inbox
         /\ \A j \in DOMAIN inbox' : j \in Nat \ {0} /\ j + 1 \in DOMAIN inbox /\ inbox'[j] = inbox[j + 1]
         /\ \A j \in DOMAIN inbox : j # 1 => j - 1 \in DOMAIN inbox' /\ inbox'[j - 1] = inbox[j]
         /\ \A j \in DOMAIN inbox : j \in Nat \ {0}
<1>1. inbox \in Seq(Message)
  BY DEF IInv, TypeInv, TypeOK
<1> QED BY <1>1, TailElements

LEMMA HeadServed ==
  ASSUME IInv, inbox # <<>>, inbox' = Tail(inbox), UNCHANGED <<editor, lock_queue>>
  PROVE  Messages' /\ FormatOrder'
<1> USE EditorNumbers
<1>1. \A j \in DOMAIN inbox' : j \in Nat \ {0} /\ j + 1 \in DOMAIN inbox /\ inbox'[j] = inbox[j + 1]
  BY InboxTail
<1>2. Messages'
  BY <1>1 DEF IInv, Messages, MessageOf, Current
<1>3. \A i, j \in DOMAIN inbox' : i < j => i + 1 < j + 1
  BY <1>1
<1>4. \A h, m : Later(h, m) => Later(h, m)'
  BY DEF Later, Current
<1>5. ASSUME editor.open, NEW i \in DOMAIN inbox', NEW j \in DOMAIN inbox', i < j
      PROVE  Later(inbox[i], inbox[j])'
  BY <1>1, <1>3, <1>4, <1>5 DEF IInv, FormatOrder
<1>6. ASSUME editor.open, NEW i \in DOMAIN lock_queue', NEW j \in DOMAIN inbox'
      PROVE  Later(lock_queue[i], inbox[j])'
  BY <1>1, <1>4, <1>6 DEF IInv, FormatOrder
<1>7. editor.open =>
        \A i, j \in DOMAIN lock_queue' : i < j => Later(lock_queue[i], lock_queue[j])'
  BY <1>4 DEF IInv, FormatOrder
<1> QED BY <1>2, <1>5, <1>6, <1>7 DEF FormatOrder

(* The head served, a didOpen or a didClose, is the editor's own didOpen,  *)
(* which is now behind everything earlier, or one of earlier sessions.     *)
LEMMA ServesState ==
  ASSUME IInv, DidOpenUpsert \/ DidCloseRemove PROVE Messages' /\ SessionState' /\ FormatOrder'
<1> USE EditorNumbers
<1>1. /\ inbox # <<>> /\ inbox' = Tail(inbox) /\ UNCHANGED <<editor, lock_queue, open_docs>>
      /\ Head(inbox).kind = serving /\ serving \in {"open", "close"} /\ serving' = "none"
      /\ serving = "open" => /\ open_docs /\ spoiled' = Unspoiled
           /\ document' = [text |-> Head(inbox).text, version |-> Head(inbox).version]
  BY DEF DidOpenUpsert, DidCloseRemove, clientVars, IInv, TypeInv, ServingState
<1>2. /\ Head(inbox) = inbox[1] /\ 1 \in DOMAIN inbox
      /\ \A j \in DOMAIN inbox' : j \in Nat \ {0} /\ j + 1 \in DOMAIN inbox /\ inbox'[j] = inbox[j + 1]
      /\ \A j \in DOMAIN inbox : j # 1 => j - 1 \in DOMAIN inbox' /\ inbox'[j - 1] = inbox[j]
      /\ \A j \in DOMAIN inbox : j \in Nat \ {0}
  BY <1>1, InboxTail
<1>3. SUFFICES ASSUME editor.open PROVE (Arriving /\ AllWait)' \/ Served'
  BY <1>1, HeadServed DEF SessionState
<1>4. Arriving /\ AllWait
  BY <1>1, <1>3, NotArrived
<1>5. \A m : Current(m)' <=> Current(m)
  BY <1>1 DEF Current
<1>6. AllWait'
  <2>1. ASSUME NEW v, Waits(v) PROVE Waits(v)'
    <3>1. ASSUME NEW i \in DOMAIN inbox, IsEdit(inbox[i], v) PROVE Waits(v)'
      <4>1. i # 1
        BY <1>1, <1>2, <3>1 DEF IsEdit
      <4>2. i - 1 \in DOMAIN inbox' /\ inbox'[i - 1] = inbox[i]
        BY <1>2, <4>1
      <4> QED BY <1>5, <3>1, <4>2 DEF Waits, IsEdit
    <3>2. ASSUME NEW i \in DOMAIN lock_queue, IsEdit(lock_queue[i], v) PROVE Waits(v)'
      BY <1>1, <1>5, <3>2 DEF Waits, IsEdit
    <3> QED BY <2>1, <3>1, <3>2 DEF Waits
  <2> QED BY <1>1, <1>4, <2>1 DEF AllWait
<1>7. PICK k \in DOMAIN inbox : OpenAt(k)
  BY <1>4 DEF Arriving
<1>8. CASE k = 1
  <2>1. serving = "open" /\ Current(inbox[1]) /\ inbox[1].version = 1
    BY <1>1, <1>2, <1>7, <1>8 DEF OpenAt, IInv, Messages, MessageOf
  <2>2. document'.version = 1 /\ document'.text = inbox[1].text /\ document' # NoDocument
    <3>1. Head(inbox) \in Message
      BY <1>2
    <3>2. document' = [text |-> Head(inbox).text, version |-> Head(inbox).version]
      BY <1>1, <2>1
    <3>3. document' \in Document
      BY <3>1, <3>2 DEF Message, Document
    <3>4. document' # NoDocument
      BY <3>3, NothingAssumption
    <3> QED BY <1>2, <2>1, <3>2, <3>4
  <2>3. Arrived'
    <3>1. \A j \in DOMAIN inbox' : j + 1 > 1
      BY <1>2
    <3>2. \A j \in DOMAIN inbox' : Current(inbox[j])' /\ inbox'[j].kind \in {"change", "format"}
      BY <1>2, <1>5, <1>7, <1>8, <3>1 DEF OpenAt
    <3> QED BY <1>1, <1>5, <1>7, <2>1, <3>2 DEF Arrived, OpenAt
  <2>4. \A v \in 1 .. editor.version : Accounted(v)'
    <3>1. Accounted(1)'
      BY <2>2 DEF Accounted
    <3>2. \A v \in 1 .. editor.version : v = 1 \/ v \in 2 .. editor.version
      OBVIOUS
    <3>3. \A v \in 2 .. editor.version : Accounted(v)'
      BY <1>1, <1>6 DEF AllWait, Accounted
    <3> QED BY <3>1, <3>2, <3>3
  <2>5. Faithful'
    BY <1>1, <1>2, <2>1, <2>2 DEF Faithful, IInv, Messages, MessageOf
  <2> QED BY <1>1, <1>6, <2>3, <2>4, <2>5 DEF Served
<1>9. CASE k # 1
  <2>1. k - 1 \in DOMAIN inbox' /\ inbox'[k - 1] = inbox[k]
    BY <1>2, <1>9
  <2>2. \A j \in DOMAIN inbox' : (j < k - 1 => j + 1 < k) /\ (j > k - 1 => j + 1 > k)
    BY <1>2
  <2>3. OpenAt(k - 1)'
    BY <1>1, <1>2, <1>5, <1>7, <2>1, <2>2 DEF OpenAt
  <2> QED BY <1>6, <2>1, <2>3 DEF Arriving
<1> QED BY <1>8, <1>9

-----------------------------------------------------------------------------
(* Waiting for doc_lock.                                                   *)

LEMMA Moved ==
  ASSUME IInv, NEW p \in Deliverable, AwaitDocLock(p)
  PROVE  /\ p \in DOMAIN inbox /\ \A j \in DOMAIN inbox' : j \in Nat
         /\ \A j \in DOMAIN inbox' :
              IF j < p THEN j \in DOMAIN inbox /\ inbox'[j] = inbox[j]
                       ELSE j + 1 \in DOMAIN inbox /\ inbox'[j] = inbox[j + 1]
         /\ \A i \in DOMAIN inbox :
              /\ i < p => i \in DOMAIN inbox' /\ inbox'[i] = inbox[i]
              /\ i > p => i - 1 \in DOMAIN inbox' /\ inbox'[i - 1] = inbox[i]
         /\ \E n \in Nat : /\ DOMAIN lock_queue' = DOMAIN lock_queue \cup {n}
                           /\ lock_queue'[n] = inbox[p]
                           /\ \A i \in DOMAIN lock_queue :
                                lock_queue'[i] = lock_queue[i] /\ i < n
<1>1. p \in DOMAIN inbox /\ inbox \in Seq(Message) /\ lock_queue \in Seq(Message)
  BY DEF Deliverable, IInv, TypeInv, TypeOK
<1>2. inbox' = RemoveAt(inbox, p) /\ lock_queue' = Append(lock_queue, inbox[p])
  BY DEF AwaitDocLock, Wait
<1>3. Len(inbox) \in Nat /\ DOMAIN inbox = 1 .. Len(inbox) /\ inbox[p] \in Message
  BY <1>1
<1>4. /\ DOMAIN inbox' = 1 .. Len(inbox) - 1
      /\ \A j \in 1 .. Len(inbox) - 1 : inbox'[j] = IF j < p THEN inbox[j] ELSE inbox[j + 1]
  BY <1>1, <1>2, RemoveAtElements
<1>5. \A j \in DOMAIN inbox' :
        IF j < p THEN j \in DOMAIN inbox /\ inbox'[j] = inbox[j]
                 ELSE j + 1 \in DOMAIN inbox /\ inbox'[j] = inbox[j + 1]
  BY <1>1, <1>3, <1>4
<1>6. ASSUME NEW i \in DOMAIN inbox
      PROVE  /\ i < p => i \in DOMAIN inbox' /\ inbox'[i] = inbox[i]
             /\ i > p => i - 1 \in DOMAIN inbox' /\ inbox'[i - 1] = inbox[i]
  <2>1. CASE i < p
    BY <1>1, <1>3, <1>4, <2>1
  <2>2. CASE i > p
    <3>1. i - 1 \in 1 .. Len(inbox) - 1 /\ ~(i - 1 < p) /\ (i - 1) + 1 = i
      BY <1>1, <1>3, <2>2
    <3> QED BY <1>1, <1>3, <1>4, <2>2, <3>1
  <2>3. CASE i = p
    BY <1>1, <1>3, <2>3
  <2> QED BY <1>1, <1>3, <2>1, <2>2, <2>3
<1>7. \A j \in DOMAIN inbox' : j \in Nat
  BY <1>3, <1>4
<1>8. \E n \in Nat : /\ DOMAIN lock_queue' = DOMAIN lock_queue \cup {n}
                     /\ lock_queue'[n] = inbox[p]
                     /\ \A i \in DOMAIN lock_queue : lock_queue'[i] = lock_queue[i] /\ i < n
  <2> WITNESS Len(lock_queue) + 1 \in Nat
  <2> QED BY <1>1, <1>2, <1>3, AppendElements
<1> QED BY <1>1, <1>5, <1>6, <1>7, <1>8

LEMMA WaitState ==
  ASSUME IInv, NEW p \in Deliverable, AwaitDocLock(p)
  PROVE  Messages' /\ SessionState' /\ FormatOrder'
<1> USE EditorNumbers
<1>1. /\ UNCHANGED <<editor, serving, open_docs, document, spoiled>> /\ serving = "none"
      /\ inbox[p].kind \in {"change", "format"}
      /\ p = 1 \/ \A j \in 1 .. p : inbox[j].kind = "change"
  BY DEF AwaitDocLock, clientVars, diskVars, stored, Deliverable
<1>2. /\ p \in DOMAIN inbox /\ \A j \in DOMAIN inbox' : j \in Nat
      /\ \A j \in DOMAIN inbox' :
           IF j < p THEN j \in DOMAIN inbox /\ inbox'[j] = inbox[j]
                    ELSE j + 1 \in DOMAIN inbox /\ inbox'[j] = inbox[j + 1]
      /\ \A i \in DOMAIN inbox :
           /\ i < p => i \in DOMAIN inbox' /\ inbox'[i] = inbox[i]
           /\ i > p => i - 1 \in DOMAIN inbox' /\ inbox'[i - 1] = inbox[i]
  BY Moved
<1>3. PICK n \in Nat : /\ DOMAIN lock_queue' = DOMAIN lock_queue \cup {n}
                       /\ lock_queue'[n] = inbox[p]
                       /\ \A i \in DOMAIN lock_queue : lock_queue'[i] = lock_queue[i] /\ i < n
  BY Moved
<1>4. \A m : (Current(m)' <=> Current(m)) /\ (MessageOf(m)' <=> MessageOf(m))
  BY <1>1 DEF Current, MessageOf
<1>5. \A j \in DOMAIN inbox' : \E i \in DOMAIN inbox : inbox'[j] = inbox[i]
  BY <1>2
<1>6. Messages'
  BY <1>1, <1>2, <1>3, <1>4, <1>5 DEF IInv, Messages
<1>7. ASSUME NEW v, Waits(v) PROVE Waits(v)'
  <2>1. ASSUME NEW i \in DOMAIN inbox, IsEdit(inbox[i], v) PROVE Waits(v)'
    <3>1. CASE i = p
      BY <1>3, <1>4, <2>1, <3>1 DEF Waits, IsEdit
    <3>2. CASE i # p
      <4>1. \E j \in DOMAIN inbox' : inbox'[j] = inbox[i]
        BY <1>2, <3>2
      <4> QED BY <1>4, <2>1, <4>1 DEF Waits, IsEdit
    <3> QED BY <3>1, <3>2
  <2>2. ASSUME NEW i \in DOMAIN lock_queue, IsEdit(lock_queue[i], v) PROVE Waits(v)'
    BY <1>3, <1>4, <2>2 DEF Waits, IsEdit
  <2> QED BY <1>7, <2>1, <2>2 DEF Waits
<1>8. AllWait => AllWait'
  BY <1>1, <1>7 DEF AllWait
<1>9. ASSUME NEW k \in DOMAIN inbox, OpenAt(k) PROVE Arriving'
  <2>1. p # k /\ inbox[k].kind = "open" /\ p >= 1 /\ k >= 1
    <3>1. inbox \in Seq(Message)
      BY DEF IInv, TypeInv, TypeOK
    <3> QED BY <1>1, <1>2, <1>9, <3>1 DEF OpenAt
  <2>2. p < k
    BY <1>1, <1>2, <2>1
  <2>3. ~Current(inbox[p])
    BY <1>2, <1>9, <2>2 DEF OpenAt
  <2>4. k - 1 \in DOMAIN inbox' /\ inbox'[k - 1] = inbox[k]
    BY <1>2, <2>2
  <2>5. ASSUME NEW j \in DOMAIN inbox'
        PROVE  /\ j < k - 1 => ~Current(inbox'[j])
               /\ j > k - 1 => Current(inbox'[j]) /\ inbox'[j].kind \in {"change", "format"}
    <3>1. CASE j < p
      BY <1>2, <1>9, <2>2, <3>1 DEF OpenAt
    <3>2. CASE ~(j < p)
      <4>1. j + 1 \in DOMAIN inbox /\ inbox'[j] = inbox[j + 1] /\ j \in Nat
        BY <1>2, <3>2
      <4>2. (j < k - 1 => j + 1 < k) /\ (j > k - 1 => j + 1 > k)
        BY <4>1
      <4> QED BY <1>9, <4>1, <4>2 DEF OpenAt
    <3> QED BY <3>1, <3>2
  <2>6. \A i \in DOMAIN lock_queue' : ~Current(lock_queue'[i])
    BY <1>3, <1>9, <2>3 DEF OpenAt
  <2>7. OpenAt(k - 1)'
    BY <1>4, <1>9, <2>4, <2>5, <2>6 DEF OpenAt
  <2> QED BY <2>4, <2>7 DEF Arriving
<1>10. ASSUME Served PROVE Served'
  <2>1. Current(inbox[p])
    BY <1>2, <1>10 DEF Served, Arrived
  <2>2. \A j \in DOMAIN inbox' : Current(inbox'[j]) /\ inbox'[j].kind \in {"change", "format"}
    BY <1>5, <1>10 DEF Served, Arrived
  <2>3. \A i, j \in DOMAIN lock_queue' :
          i < j /\ ~Current(lock_queue'[j]) => ~Current(lock_queue'[i])
    BY <1>3, <1>10, <2>1 DEF Served, Arrived
  <2>4. Arrived'
    BY <1>1, <1>4, <1>10, <2>2, <2>3 DEF Served, Arrived
  <2>5. LatesWait' => LatesWait
    BY <1>3, <1>4, <2>1 DEF LatesWait
  <2>6. \A v \in 1 .. editor.version : Accounted(v)'
    BY <1>1, <1>7, <1>10 DEF Served, Accounted
  <2>7. Faithful'
    BY <1>1, <1>10 DEF Served, Faithful
  <2> QED BY <1>1, <1>8, <1>10, <2>4, <2>5, <2>6, <2>7 DEF Served
<1>11. SessionState'
  BY <1>1, <1>8, <1>9, <1>10 DEF IInv, SessionState, Arriving
<1>12. ASSUME editor.open PROVE FormatOrder'
  <2>1. \A h, m : Later(h, m)' <=> Later(h, m)
    BY <1>1 DEF Later, Current
  <2>2. ASSUME NEW i \in DOMAIN inbox', NEW j \in DOMAIN inbox', i < j
        PROVE  Later(inbox'[i], inbox'[j])
    <3>1. CASE j < p
      BY <1>2, <1>12, <2>2, <3>1 DEF IInv, FormatOrder
    <3>2. CASE ~(j < p) /\ i < p
      <4>1. /\ i \in DOMAIN inbox /\ inbox'[i] = inbox[i]
            /\ j + 1 \in DOMAIN inbox /\ inbox'[j] = inbox[j + 1] /\ i < j + 1
        BY <1>2, <2>2, <3>2
      <4> QED BY <1>12, <4>1 DEF IInv, FormatOrder
    <3>3. CASE ~(j < p) /\ ~(i < p)
      <4>1. /\ i + 1 \in DOMAIN inbox /\ inbox'[i] = inbox[i + 1]
            /\ j + 1 \in DOMAIN inbox /\ inbox'[j] = inbox[j + 1] /\ i + 1 < j + 1
        BY <1>2, <2>2, <3>3
      <4> QED BY <1>12, <4>1 DEF IInv, FormatOrder
    <3> QED BY <3>1, <3>2, <3>3
  <2>3. ASSUME NEW j \in DOMAIN inbox' PROVE Later(inbox[p], inbox'[j])
    <3>1. CASE j < p
      <4>1. inbox \in Seq(Message)
        BY DEF IInv, TypeInv, TypeOK
      <4>2. 1 <= j /\ p # 1 /\ p \in 1 .. p
        BY <1>2, <3>1, <4>1
      <4>3. inbox[p].kind = "change"
        BY <1>1, <4>2
      <4> QED BY <4>3 DEF Later
    <3>2. CASE ~(j < p)
      <4>1. j + 1 \in DOMAIN inbox /\ inbox'[j] = inbox[j + 1] /\ p < j + 1
        BY <1>2, <3>2
      <4> QED BY <1>2, <1>12, <4>1 DEF IInv, FormatOrder
    <3> QED BY <3>1, <3>2
  <2>4. ASSUME NEW i \in DOMAIN lock_queue', NEW j \in DOMAIN inbox'
        PROVE  Later(lock_queue'[i], inbox'[j])
    BY <1>3, <1>5, <1>12, <2>3 DEF IInv, FormatOrder
  <2>5. ASSUME NEW i \in DOMAIN lock_queue', NEW j \in DOMAIN lock_queue', i < j
        PROVE  Later(lock_queue'[i], lock_queue'[j])
    <3>1. i \in DOMAIN lock_queue /\ lock_queue'[i] = lock_queue[i]
      BY <1>3, <2>5
    <3> QED BY <1>2, <1>3, <1>12, <2>5, <3>1 DEF IInv, FormatOrder
  <2> QED BY <2>1, <2>2, <2>4, <2>5 DEF FormatOrder
<1>13. ~editor.open => FormatOrder'
  BY <1>1 DEF FormatOrder
<1> QED BY <1>6, <1>11, <1>12, <1>13

-----------------------------------------------------------------------------
(* Holding doc_lock.                                                       *)

(* What the first waiter leaves behind.                                    *)
LEMMA LockTail ==
  ASSUME IInv, lock_queue # <<>>, lock_queue' = Tail(lock_queue)
  PROVE  /\ Head(lock_queue) = lock_queue[1] /\ 1 \in DOMAIN lock_queue
         /\ \A j \in DOMAIN lock_queue' :
              j \in Nat \ {0} /\ j + 1 \in DOMAIN lock_queue /\ lock_queue'[j] = lock_queue[j + 1]
         /\ \A j \in DOMAIN lock_queue :
              j # 1 => j - 1 \in DOMAIN lock_queue' /\ lock_queue'[j - 1] = lock_queue[j]
         /\ \A j \in DOMAIN lock_queue : j \in Nat \ {0}
<1>1. lock_queue \in Seq(Message)
  BY DEF IInv, TypeInv, TypeOK
<1> QED BY <1>1, TailElements

LEMMA LockServed ==
  ASSUME IInv, lock_queue # <<>>, lock_queue' = Tail(lock_queue),
         UNCHANGED <<editor, inbox, serving, open_docs>>
  PROVE  /\ Messages' /\ FormatOrder'
         /\ \A v : Waits(v) => IsEdit(Head(lock_queue), v) \/ Waits(v)'
         /\ Arriving => Arriving' /\ ~Current(Head(lock_queue))
         /\ Arrived => Arrived'
         /\ Arrived /\ LatesWait' => LatesWait /\ ~Current(Head(lock_queue))
<1> USE EditorNumbers
<1>1. /\ Head(lock_queue) = lock_queue[1] /\ 1 \in DOMAIN lock_queue
      /\ \A j \in DOMAIN lock_queue' :
           j \in Nat \ {0} /\ j + 1 \in DOMAIN lock_queue /\ lock_queue'[j] = lock_queue[j + 1]
      /\ \A j \in DOMAIN lock_queue :
           j # 1 => j - 1 \in DOMAIN lock_queue' /\ lock_queue'[j - 1] = lock_queue[j]
  BY LockTail
<1>2. \A m : (Current(m)' <=> Current(m)) /\ (MessageOf(m)' <=> MessageOf(m))
  BY DEF Current, MessageOf
<1>3. Messages'
  BY <1>1, <1>2 DEF IInv, Messages
<1>4. \A i, j \in DOMAIN lock_queue' : (i < j => i + 1 < j + 1) /\ 1 < j + 1
  BY <1>1
<1>5. FormatOrder'
  <2>1. \A h, m : Later(h, m)' <=> Later(h, m)
    BY DEF Later, Current
  <2>2. CASE ~editor.open
    BY <2>2 DEF FormatOrder
  <2>3. CASE editor.open
    <3>1. ASSUME NEW i \in DOMAIN lock_queue', NEW j \in DOMAIN lock_queue', i < j
          PROVE  Later(lock_queue'[i], lock_queue'[j])
      BY <1>1, <1>4, <2>3, <3>1 DEF IInv, FormatOrder
    <3>2. ASSUME NEW i \in DOMAIN lock_queue', NEW j \in DOMAIN inbox
          PROVE  Later(lock_queue'[i], inbox[j])
      BY <1>1, <2>3, <3>2 DEF IInv, FormatOrder
    <3> QED BY <2>1, <2>3, <3>1, <3>2 DEF IInv, FormatOrder
  <2> QED BY <2>2, <2>3
<1>6. ASSUME NEW v, Waits(v), ~IsEdit(Head(lock_queue), v) PROVE Waits(v)'
  <2>1. ASSUME NEW i \in DOMAIN lock_queue, IsEdit(lock_queue[i], v) PROVE Waits(v)'
    <3>1. i - 1 \in DOMAIN lock_queue' /\ lock_queue'[i - 1] = lock_queue[i]
      BY <1>1, <1>6, <2>1
    <3> QED BY <1>2, <2>1, <3>1 DEF Waits, IsEdit
  <2> QED BY <1>2, <1>6, <2>1 DEF Waits, IsEdit
<1>7. Arriving => Arriving' /\ ~Current(Head(lock_queue))
  BY <1>1, <1>2 DEF Arriving, OpenAt
<1>8. Arrived => Arrived'
  BY <1>1, <1>2, <1>4 DEF Arrived
<1>9. Arrived /\ LatesWait' => LatesWait /\ ~Current(Head(lock_queue))
  BY <1>1, <1>2, <1>4 DEF Arrived, LatesWait
<1> QED BY <1>3, <1>5, <1>6, <1>7, <1>8, <1>9

(* A format request only reads.                                            *)
LEMMA FormatState ==
  ASSUME IInv, FormatDocument PROVE Messages' /\ SessionState' /\ FormatOrder'
<1>1. /\ lock_queue # <<>> /\ lock_queue' = Tail(lock_queue) /\ Head(lock_queue).kind = "format"
      /\ UNCHANGED <<editor, inbox, serving, open_docs, document, spoiled>>
  BY DEF FormatDocument, clientVars, stored
<1>2. \A v : Waits(v) => Waits(v)'
  BY <1>1, LockServed DEF IsEdit
<1>3. AllWait => AllWait'
  BY <1>1, <1>2 DEF AllWait
<1>4. Served => Served'
  BY <1>1, <1>2, <1>3, LockServed DEF Served, Accounted, Faithful
<1> QED BY <1>1, <1>3, <1>4, LockServed DEF IInv, SessionState

(* What is lost of an open document covers what was lost before.           *)
LEMMA LostOver ==
  ASSUME IInv, open_docs, NEW version \in Versions
  PROVE  /\ Lost(version).by = "disk" /\ Lost(version) # Unspoiled
         /\ Lost(version).over >= version /\ Lost(version).over >= spoiled.over
<1>1. version \in Nat /\ spoiled.over \in Nat
  <2>1. spoiled.over \in Versions
    BY DEF IInv, TypeInv, TypeOK
  <2> QED BY <2>1, Numbers
<1> QED BY <1>1 DEF Lost, Unspoiled

LEMMA ApplyState ==
  ASSUME IInv, ApplyChange PROVE Messages' /\ SessionState' /\ FormatOrder'
<1> USE EditorNumbers
<1> DEFINE m == Head(lock_queue)
<1>1. /\ lock_queue # <<>> /\ lock_queue' = Tail(lock_queue)
      /\ UNCHANGED <<editor, inbox, serving, open_docs>>
      /\ document = NoDocument => document' = NoDocument /\ spoiled' = Lost(m.version)
      /\ document # NoDocument /\ ~Supersedes(m) => document' = document /\ spoiled' = spoiled
      /\ document # NoDocument /\ Supersedes(m) =>
           document' = Applied(m) /\ spoiled' = Overwritten(m)
  BY DEF ApplyChange, clientVars, stored
<1>2. /\ m = lock_queue[1] /\ 1 \in DOMAIN lock_queue /\ m \in Message /\ m.kind = "change"
      /\ MessageOf(m) /\ m.version \in Versions
  BY <1>1, LockTail DEF IInv, Messages, Message, ApplyChange
<1>3. /\ \A v : Waits(v) => IsEdit(m, v) \/ Waits(v)'
      /\ Arriving => Arriving' /\ ~Current(m)
      /\ Arrived => Arrived'
      /\ Arrived /\ LatesWait' => LatesWait /\ ~Current(m)
      /\ Messages' /\ FormatOrder'
  BY <1>1, LockServed
<1>4. ~Current(m) => (AllWait => AllWait') /\ \A v : Waits(v) => Waits(v)'
  BY <1>1, <1>3 DEF AllWait, IsEdit
<1>5. SUFFICES ASSUME editor.open, Served PROVE Served'
  BY <1>1, <1>3, <1>4 DEF IInv, SessionState
<1>6. LatesWait' => AllWait'
  BY <1>3, <1>4, <1>5 DEF Served
<1>7. document # NoDocument => document \in Document /\ document.version \in Nat
  <2>1. document # NoDocument => document \in Document
    BY DEF IInv, TypeInv, TypeOK
  <2>2. document \in Document => document.version \in Versions
    BY DEF Document
  <2> QED BY <2>1, <2>2, Numbers
<1>8. spoiled.over \in Nat /\ open_docs /\ m.version \in Nat /\ m.version >= 2
  <2>1. spoiled.over \in Versions
    BY DEF IInv, TypeInv, TypeOK
  <2> QED BY <1>2, <1>5, <2>1, Numbers DEF Served, Arrived, MessageOf
<1>9. SUFFICES (\A v \in 1 .. editor.version : Accounted(v)') /\ Faithful'
  BY <1>1, <1>3, <1>5, <1>6 DEF Served
<1>10. \A v \in 1 .. editor.version : Accounted(v)
  BY <1>5 DEF Served
<1>11. CASE document = NoDocument
  <2>1. document' = NoDocument /\ spoiled' = Lost(m.version)
    BY <1>1, <1>11
  <2>2. /\ spoiled'.by = "disk" /\ spoiled' # Unspoiled
        /\ spoiled'.over >= m.version /\ spoiled'.over >= spoiled.over /\ spoiled'.over \in Nat
    <3>1. Lost(m.version).over \in Nat
      BY <1>8 DEF Lost, Unspoiled
    <3> QED BY <1>2, <1>8, <2>1, <3>1, LostOver
  <2>3. ASSUME NEW v \in 1 .. editor.version PROVE Accounted(v)'
    <3>1. CASE Waits(v) /\ ~IsEdit(m, v)
      BY <1>3, <3>1 DEF Accounted
    <3>2. CASE IsEdit(m, v)
      BY <2>2, <3>2 DEF Accounted, IsEdit
    <3>3. CASE spoiled.by = "disk" /\ spoiled.over >= v
      BY <1>8, <2>2, <3>3 DEF Accounted
    <3> QED BY <1>10, <1>11, <3>1, <3>2, <3>3 DEF Accounted
  <2> QED BY <2>2, <2>3 DEF Faithful
<1>12. CASE document # NoDocument /\ ~Supersedes(m)
  <2>1. document' = document /\ spoiled' = spoiled /\ document.version >= m.version
    BY <1>1, <1>7, <1>8, <1>12 DEF Supersedes
  <2>2. ASSUME NEW v \in 1 .. editor.version PROVE Accounted(v)'
    BY <1>3, <1>10, <1>12, <2>1 DEF Accounted, IsEdit
  <2> QED BY <1>1, <1>5, <2>1, <2>2 DEF Served, Faithful
<1>13. CASE document # NoDocument /\ Supersedes(m)
  <2>1. /\ document'.version = m.version /\ document'.text = m.text
        /\ m.version > document.version
        /\ document' # NoDocument
    <3>1. document' = Applied(m)
      BY <1>1, <1>13
    <3>2. Applied(m) \in Document
      BY <1>2 DEF Applied, Message, Document
    <3>3. Applied(m).version = m.version /\ Applied(m).text = m.text
      BY DEF Applied
    <3>4. m.version > document.version
      BY <1>13 DEF Supersedes
    <3> QED BY <1>7, <1>8, <1>13, <3>1, <3>2, <3>3, <3>4, NothingAssumption
  <2>2. CASE ~Current(m)
    <3>1. Late(m)
      <4>1. m.session < editor.session
        BY <1>2, <2>2 DEF MessageOf, Current
      <4> QED BY <1>5, <4>1 DEF Late, Served, Arrived
    <3>2. spoiled' = [by |-> "session", over |-> 0]
      BY <1>1, <1>13, <3>1 DEF Overwritten
    <3>3. AllWait'
      BY <1>2, <1>4, <1>5, <2>2 DEF Served, LatesWait
    <3>4. ASSUME NEW v \in 1 .. editor.version PROVE Accounted(v)'
      <4>1. CASE v = 1
        BY <1>8, <2>1, <4>1 DEF Accounted
      <4>2. CASE v \in 2 .. editor.version
        BY <1>1, <3>3, <4>2 DEF Accounted, AllWait
      <4> QED BY <4>1, <4>2
    <3> QED BY <3>2, <3>4 DEF Faithful, Unspoiled
  <2>3. CASE Current(m)
    <3>1. ~Late(m)
      BY <1>2, <2>3 DEF Late, Current
    <3>2. spoiled' = IF m.version < spoiled.over THEN spoiled ELSE Unspoiled
      BY <1>1, <1>13, <3>1 DEF Overwritten
    <3>3. ASSUME NEW v \in 1 .. editor.version PROVE Accounted(v)'
      <4>1. CASE Waits(v) /\ ~IsEdit(m, v)
        BY <1>3, <4>1 DEF Accounted
      <4>2. CASE IsEdit(m, v) \/ document.version >= v
        BY <1>7, <1>8, <1>13, <2>1, <4>2 DEF Accounted, IsEdit
      <4>3. CASE spoiled.by = "disk" /\ spoiled.over >= v
        <5>1. CASE m.version < spoiled.over
          BY <3>2, <4>3, <5>1 DEF Accounted
        <5>2. CASE ~(m.version < spoiled.over)
          BY <1>8, <2>1, <4>3, <5>2 DEF Accounted
        <5> QED BY <5>1, <5>2
      <4> QED BY <1>10, <4>1, <4>2, <4>3 DEF Accounted
    <3>4. Faithful'
      <4>1. m.version <= editor.version /\ (m.version = editor.version => m.text = editor.text)
        BY <1>2, <2>3 DEF MessageOf
      <4> QED BY <1>1, <2>1, <4>1 DEF Faithful
    <3> QED BY <3>3, <3>4
  <2> QED BY <2>2, <2>3
<1> QED BY <1>11, <1>12, <1>13

-----------------------------------------------------------------------------
(* The paths that follow the disk.                                         *)

(* A load or a removal that slips past the open check loses the buffer,    *)
(* and says so.                                                            *)
LEMMA DiskState ==
  ASSUME IInv, spoiled' = FromDisk,
         UNCHANGED <<editor, inbox, lock_queue, serving, open_docs>>
  PROVE  Messages' /\ SessionState' /\ FormatOrder'
<1> USE EditorNumbers
<1>1. Messages' /\ FormatOrder'
  BY DEF IInv, Messages, MessageOf, Current, FormatOrder, Later
<1>2. /\ Arriving => Arriving'
      /\ AllWait => AllWait'
      /\ Arrived => Arrived'
      /\ LatesWait' => LatesWait
      /\ \A v : Waits(v) => Waits(v)'
  BY DEF Arriving, OpenAt, AllWait, Waits, IsEdit, Current, Arrived, LatesWait
<1>3. SUFFICES ASSUME editor.open, Served PROVE Served'
  BY <1>1, <1>2 DEF IInv, SessionState
<1> DEFINE held == IF document = NoDocument THEN 0 ELSE document.version
<1>4. held \in Versions /\ held \in Nat /\ spoiled.over \in Nat
  <2>1. document \in Document \cup {NoDocument} /\ spoiled \in Harm
    BY DEF IInv, TypeInv, TypeOK, Harm
  <2>2. held \in Versions
    BY <2>1, Numbers DEF Document
  <2>3. spoiled.over \in Versions
    BY <2>1 DEF Harm
  <2> QED BY <2>2, <2>3, Numbers
<1>5. /\ spoiled'.by = "disk" /\ spoiled' # Unspoiled
      /\ spoiled'.over >= held /\ spoiled'.over >= spoiled.over /\ spoiled'.over \in Nat
  <2>1. spoiled' = Lost(held) /\ open_docs
    BY <1>3 DEF FromDisk, Served, Arrived
  <2>2. Lost(held).over \in Nat
    BY <1>4 DEF Lost, Unspoiled
  <2> QED BY <1>4, <2>1, <2>2, LostOver
<1>6. ASSUME NEW v \in 1 .. editor.version PROVE Accounted(v)'
  <2>1. Waits(v) \/ held >= v \/ spoiled.over >= v
    BY <1>3 DEF Served, Accounted
  <2>2. spoiled'.over >= v \/ Waits(v)
    BY <1>4, <1>5, <2>1
  <2> QED BY <1>2, <1>5, <2>2 DEF Accounted
<1> QED BY <1>2, <1>3, <1>5, <1>6 DEF Served, Faithful

-----------------------------------------------------------------------------
(* All steps.                                                              *)

LEMMA EnvironmentState ==
  ASSUME IInv, Environment PROVE Messages' /\ SessionState' /\ FormatOrder'
<1>1. CASE EditorSaves \/ ExternalWrite \/ ExternalDelete
  BY <1>1, Unserved DEF EditorSaves, ExternalWrite, ExternalDelete, OnDisk, serverVars
<1> QED BY <1>1, OpensState, ChangesState, FormatsState, ClosesState DEF Environment

LEMMA HandlerState ==
  ASSUME IInv, Handlers PROVE Messages' /\ SessionState' /\ FormatOrder'
  BY MarksState, ServesState, WaitState, ApplyState, FormatState DEF Handlers

LEMMA DiskPathState ==
  ASSUME IInv, DiskPaths PROVE Messages' /\ SessionState' /\ FormatOrder'
<1> USE DEF clientVars, handlerVars, stored
<1>1. CASE WatchChanged \/ WatchRemoved
  BY <1>1, Unserved DEF WatchChanged, WatchRemoved
<1>2. CASE RemoveFromDisk
  BY <1>2, DiskState DEF RemoveFromDisk
<1>3. ASSUME NEW l \in Loaders, LoadBegins(l) \/ LoadReads(l) \/ LoadChecksOpen(l)
      PROVE  Messages' /\ SessionState' /\ FormatOrder'
  BY <1>3, Unserved DEF LoadBegins, LoadReads, LoadChecksOpen
<1>4. ASSUME NEW l \in Loaders, LoadUpserts(l) PROVE Messages' /\ SessionState' /\ FormatOrder'
  BY <1>4, DiskState DEF LoadUpserts
<1> QED BY <1>1, <1>2, <1>3, <1>4 DEF DiskPaths

LEMMA StepIInv == IInv /\ [Next]_vars => IInv'
<1> SUFFICES ASSUME IInv, [Next]_vars PROVE IInv'
  OBVIOUS
<1>1. TypeInv'
  BY StepTypes DEF IInv
<1>2. CASE UNCHANGED vars
  BY <1>1, <1>2, Unserved DEF vars, IInv
<1> QED BY <1>1, <1>2, EnvironmentState, HandlerState, DiskPathState DEF Next, IInv

LEMMA Inductive == Spec => []IInv
  BY InitIInv, StepIInv, PTL DEF Spec

-----------------------------------------------------------------------------
(* What the editor may rely on.                                            *)

(* When everything is served, nothing is under way: the newest version is  *)
(* in the store, and the store's text of it is the editor's.               *)
LEMMA QuietInSync == IInv => InSync
<1> SUFFICES ASSUME IInv, Quiescent, editor.open, spoiled = Unspoiled PROVE Synced
  BY DEF InSync
<1> USE EditorNumbers
<1>1. inbox = <<>> /\ lock_queue = <<>>
  BY DEF Quiescent
<1>2. DOMAIN inbox = {} /\ DOMAIN lock_queue = {}
  BY <1>1
<1>3. Served
  BY <1>2 DEF IInv, SessionState, Arriving
<1>4. ~Waits(editor.version)
  BY <1>2 DEF Waits
<1>5. editor.version \in 1 .. editor.version
  BY DEF IInv, Messages
<1>6. document # NoDocument /\ document.version >= editor.version
  BY <1>3, <1>4, <1>5 DEF Served, Accounted, Unspoiled
<1>7. document \in Document /\ document.version \in Nat
  <2>1. document \in Document
    BY <1>6 DEF IInv, TypeInv, TypeOK
  <2>2. document.version \in Versions
    BY <2>1 DEF Document
  <2> QED BY <2>1, <2>2, Numbers
<1>8. document.version = editor.version /\ document.text = editor.text
  BY <1>3, <1>6, <1>7 DEF Served, Faithful
<1> QED BY <1>7, <1>8 DEF Synced, Document

(* InSync, for any number of edits, sessions and disk events: in whatever  *)
(* order they came, the stored document of an open buffer is the buffer    *)
(* once all is served, unless the disk or an earlier session spoiled it.   *)
THEOREM ServedInSync == Spec => []InSync
  BY Inductive, QuietInSync, PTL

(* The edits a format request finds behind it are newer than it, those     *)
(* before it were applied.                                                 *)
LEMMA FormatReads ==
  ASSUME IInv, FormatDocument, document # NoDocument, spoiled = Unspoiled,
         editor.open, Head(lock_queue).session = editor.session
  PROVE  document.version >= Head(lock_queue).version
<1> USE EditorNumbers
<1> DEFINE h == Head(lock_queue)
<1>1. /\ lock_queue # <<>> /\ h.kind = "format" /\ Current(h)
      /\ lock_queue \in Seq(Message)
  BY DEF FormatDocument, Current, IInv, TypeInv, TypeOK
<1>2. h = lock_queue[1] /\ 1 \in DOMAIN lock_queue /\ DOMAIN lock_queue \subseteq Nat \ {0}
  BY <1>1, TailElements
<1>3. Served
  BY <1>1, <1>2 DEF IInv, SessionState, Arriving, OpenAt
<1>4. h.version \in 1 .. editor.version
  BY <1>1, <1>2 DEF IInv, Messages, MessageOf
<1>5. ~Waits(h.version)
  <2>1. ASSUME NEW i \in DOMAIN inbox PROVE ~IsEdit(inbox[i], h.version)
    <3>1. Later(h, inbox[i])
      BY <1>2 DEF IInv, FormatOrder
    <3>2. h.version \in Nat
      BY <1>4
    <3> QED BY <1>1, <3>1, <3>2 DEF Later, IsEdit
  <2>2. ASSUME NEW i \in DOMAIN lock_queue PROVE ~IsEdit(lock_queue[i], h.version)
    <3>1. CASE i = 1
      BY <1>1, <1>2, <3>1 DEF IsEdit
    <3>2. CASE i # 1
      <4>1. Later(h, lock_queue[i])
        BY <1>2, <3>2 DEF IInv, FormatOrder
      <4>2. h.version \in Nat
        BY <1>4
      <4> QED BY <1>1, <4>1, <4>2 DEF Later, IsEdit
    <3> QED BY <3>1, <3>2
  <2> QED BY <2>1, <2>2 DEF Waits
<1> QED BY <1>3, <1>4, <1>5 DEF Served, Accounted, Unspoiled

(* FormatNotStale: whatever was reordered, formatting answers from a text  *)
(* at least as new as the buffer it was asked about.                       *)
THEOREM FormatsFresh == Spec => FormatNotStale
<1>1. IInv /\ [Next]_vars =>
        [(/\ FormatDocument
          /\ document # NoDocument /\ spoiled = Unspoiled
          /\ editor.open /\ Head(lock_queue).session = editor.session)
           => document.version >= Head(lock_queue).version]_vars
  BY FormatReads
<1> QED BY Inductive, <1>1, PTL DEF Spec, FormatNotStale

-----------------------------------------------------------------------------
(* TextEdits.                                                              *)

(* Where a line begins and ends, for any set of breaks.                    *)

LEMMA GreatestOf ==
  ASSUME NEW n \in Nat, NEW T, \A y \in T : y \in 0 .. n, T # {}
  PROVE  \E x \in T : \A y \in T : y <= x
<1> DEFINE mirrored == {k \in 0 .. n : n - k \in T}
<1>1. (\A l \in mirrored : l \in Nat) /\ mirrored # {}
  <2>1. PICK y \in T : TRUE
    OBVIOUS
  <2>2. n - y \in mirrored
    BY <2>1
  <2> QED BY <2>2
<1>2. PICK k \in mirrored : \A l \in mirrored : k <= l
  BY <1>1, LeastOf
<1>3. ASSUME NEW y \in T PROVE y <= n - k
  <2>1. n - y \in mirrored
    OBVIOUS
  <2> QED BY <1>2, <2>1
<1> QED BY <1>2, <1>3

Breaks(b, n) == n \in Nat /\ \A z \in b : z \in 1 .. n

LEMMA BreaksFinite ==
  ASSUME NEW b, NEW n, Breaks(b, n)
  PROVE  IsFiniteSet(b) /\ Cardinality(b) \in Nat
<1>1. IsFiniteSet(1 .. n) /\ b \in SUBSET (1 .. n)
  BY FS_Interval DEF Breaks
<1> QED BY <1>1, FS_Subset, FS_CardinalityType

(* How many breaks lie before an offset says which are the last of them.   *)
LEMMA CountUpTo ==
  ASSUME NEW b, NEW n, Breaks(b, n), NEW x \in 0 .. n, NEW y \in 0 .. n
  PROVE  /\ LineAt(b, x) \in 0 .. Cardinality(b) /\ Cardinality(b) \in Nat
         /\ x <= y => LineAt(b, x) <= LineAt(b, y)
         /\ x < y /\ y \in b => LineAt(b, x) < LineAt(b, y)
         /\ LineAt(b, x) = Cardinality(b) <=> \A z \in b : z <= x
<1> DEFINE upTo(o) == {z \in b : z <= o}
<1>1. IsFiniteSet(b) /\ Cardinality(b) \in Nat
  BY BreaksFinite
<1>2. ASSUME NEW o PROVE /\ IsFiniteSet(upTo(o)) /\ Cardinality(upTo(o)) \in 0 .. Cardinality(b)
                         /\ Cardinality(b) = Cardinality(upTo(o)) => b = upTo(o)
  BY <1>1, FS_Subset, FS_CardinalityType
<1>3. ASSUME x <= y PROVE /\ Cardinality(upTo(x)) <= Cardinality(upTo(y))
                          /\ Cardinality(upTo(y)) = Cardinality(upTo(x)) => upTo(y) = upTo(x)
  <2>1. upTo(x) \in SUBSET upTo(y)
    BY <1>3 DEF Breaks
  <2> HIDE DEF upTo
  <2> QED BY <1>2, <2>1, FS_Subset
<1>4. ASSUME x < y, y \in b PROVE Cardinality(upTo(x)) < Cardinality(upTo(y))
  <2>1. y \in upTo(y) /\ y \notin upTo(x)
    BY <1>4
  <2> HIDE DEF upTo
  <2> QED BY <1>2, <1>3, <1>4, <2>1
<1>5. Cardinality(upTo(x)) = Cardinality(b) <=> \A z \in b : z <= x
  <2>1. b = upTo(x) <=> \A z \in b : z <= x
    OBVIOUS
  <2> HIDE DEF upTo
  <2> QED BY <1>2, <2>1
<1>6. LineAt(b, x) = Cardinality(upTo(x)) /\ LineAt(b, y) = Cardinality(upTo(y))
  BY DEF LineAt
<1> HIDE DEF upTo
<1> QED BY <1>1, <1>2, <1>3, <1>4, <1>5, <1>6

(* An offset's line begins at the last break up to it.                     *)
LEMMA LineBegins ==
  ASSUME NEW b, NEW n, Breaks(b, n), NEW o \in 0 .. n
  PROVE  /\ StartOf(b, LineAt(b, o)) \in (b \cup {0}) \cap (0 .. o)
         /\ \A z \in b : z <= o => z <= StartOf(b, LineAt(b, o))
<1> DEFINE k == LineAt(b, o)
           before == {z \in b \cup {0} : z <= o}
<1>1. (\A z \in before : z \in 0 .. n) /\ 0 \in before
  BY DEF Breaks
<1>2. PICK f \in before : \A z \in before : z <= f
  BY <1>1, GreatestOf DEF Breaks
<1>3. f \in b \cup {0} /\ f \in 0 .. o /\ \A z \in b : z <= o => z <= f
  BY <1>1, <1>2
<1>4. LineAt(b, f) = k
  <2>1. \A z \in b : z <= f <=> z <= o
    BY <1>3 DEF Breaks
  <2>2. {z \in b : z <= f} = {z \in b : z <= o}
    BY <2>1
  <2> QED BY <2>2 DEF LineAt
<1>5. ASSUME NEW g \in b \cup {0}, LineAt(b, g) = k PROVE g = f
  <2>1. g \in 0 .. n /\ f \in 0 .. n
    BY <1>3 DEF Breaks
  <2>2. CASE f < g
    BY <1>4, <1>5, <2>1, <2>2, CountUpTo
  <2>3. CASE g < f
    BY <1>4, <1>5, <1>3, <2>1, <2>3, CountUpTo
  <2> QED BY <2>1, <2>2, <2>3
<1>6. StartOf(b, k) = CHOOSE g \in b \cup {0} : LineAt(b, g) = k
  BY DEF StartOf, LineAt
<1> HIDE DEF k
<1>7. StartOf(b, k) = f
  BY <1>3, <1>4, <1>5, <1>6
<1> QED BY <1>3, <1>7 DEF k

(* It ends at the next break, or with the text.                            *)
LEMMA LineEnds ==
  ASSUME NEW s, NEW b, NEW n, Breaks(b, n), n = Len(s), NEW o \in 0 .. n
  PROVE  \/ /\ EndOf(s, b, LineAt(b, o)) \in b
            /\ o < EndOf(s, b, LineAt(b, o))
            /\ \A z \in b : z > o => z >= EndOf(s, b, LineAt(b, o))
         \/ /\ EndOf(s, b, LineAt(b, o)) = n
            /\ \A z \in b : z <= o
<1> DEFINE k == LineAt(b, o)
           after == {z \in b : z > o}
<1>1. k \in 0 .. Cardinality(b) /\ Cardinality(b) \in Nat
  BY CountUpTo
<1>2. CASE after = {}
  <2>1. k = Cardinality(b)
    BY <1>2, CountUpTo DEF Breaks
  <2> QED BY <1>1, <1>2, <2>1 DEF EndOf, LineCount, Breaks
<1>3. CASE after # {}
  <2>1. \A z \in after : z \in Nat
    BY DEF Breaks
  <2>2. PICK t \in after : \A z \in after : t <= z
    BY <1>3, <2>1, LeastOf
  <2>3. t \in b /\ t \in 1 .. n /\ o < t /\ \A z \in b : z > o => z >= t
    BY <2>2 DEF Breaks
  <2>4. LineAt(b, t) = k + 1
    <3> DEFINE upTo == {z \in b : z <= o}
    <3>1. t \notin upTo /\ upTo \in SUBSET b
      BY <2>3
    <3>2. \A z \in b : z <= t <=> z <= o \/ z = t
      BY <2>3 DEF Breaks
    <3>3. {z \in b : z <= t} = upTo \cup {t}
      BY <2>3, <3>2
    <3> HIDE DEF upTo
    <3>4. IsFiniteSet(upTo)
      BY <3>1, BreaksFinite, FS_Subset
    <3>5. Cardinality(upTo \cup {t}) = Cardinality(upTo) + 1
      BY <3>1, <3>4, FS_AddElement
    <3>6. LineAt(b, t) = Cardinality(upTo \cup {t}) /\ k = Cardinality(upTo)
      BY <3>3 DEF LineAt, upTo
    <3> QED BY <3>5, <3>6
  <2>5. k + 1 < LineCount(b)
    <3>1. ~ \A z \in b : z <= o
      BY <2>3
    <3>2. k # Cardinality(b)
      BY <3>1, CountUpTo
    <3> QED BY <1>1, <3>2 DEF LineCount
  <2>6. StartOf(b, k + 1) = t
    <3>1. StartOf(b, LineAt(b, t)) \in 0 .. t /\ t <= StartOf(b, LineAt(b, t))
      BY <2>3, LineBegins
    <3> QED BY <2>3, <2>4, <3>1
  <2>7. EndOf(s, b, k) = t
    BY <2>5, <2>6 DEF EndOf
  <2> QED BY <2>3, <2>7
<1> QED BY <1>2, <1>3

-----------------------------------------------------------------------------
(* Columns.                                                                *)

LEMMA BetweenElements ==
  ASSUME NEW S, NEW s \in Seq(S), NEW f \in 0 .. Len(s), NEW x \in f .. Len(s)
  PROVE  /\ Between(s, f, x) \in Seq(S) /\ Len(Between(s, f, x)) = x - f
         /\ DOMAIN Between(s, f, x) = 1 .. x - f
         /\ \A i \in 1 .. x - f : Between(s, f, x)[i] = s[f + i]
<1>1. Len(s) \in Nat /\ f + 1 \in 1 .. Len(s) + 1 /\ x \in 0 .. Len(s) /\ x - f \in Nat
  OBVIOUS
<1>2. /\ Between(s, f, x) \in Seq(S)
      /\ Len(Between(s, f, x)) = IF f + 1 <= x THEN x - (f + 1) + 1 ELSE 0
  BY <1>1 DEF Between
<1>3. Len(Between(s, f, x)) = x - f
  BY <1>1, <1>2
<1>4. \A i \in 1 .. x - f : Between(s, f, x)[i] = s[f + i]
  BY <1>1 DEF Between
<1> QED BY <1>1, <1>2, <1>3, <1>4

(* Counting units or adding the second ones to the characters is the same. *)
LEMMA WidthIsUnits ==
  ASSUME NEW S, NEW s \in Seq(S)
  PROVE  Width(s) = UnitsOf(s) /\ Width(s) \in Nat
<1> DEFINE n == Len(s)
           astral == {i \in DOMAIN s : s[i] = "astral"}
           first == (1 .. n) \X {1}
           second == astral \X {2}
           units == {unit \in (DOMAIN s) \X {1, 2} : unit[2] = 1 \/ s[unit[1]] = "astral"}
<1>1. n \in Nat /\ DOMAIN s = 1 .. n /\ astral \in SUBSET (1 .. n)
  OBVIOUS
<1>2. /\ IsFiniteSet(1 .. n) /\ Cardinality(1 .. n) = n
      /\ IsFiniteSet({1}) /\ Cardinality({1}) = 1
      /\ IsFiniteSet({2}) /\ Cardinality({2}) = 1
  <2>1. IsFiniteSet(1 .. n) /\ Cardinality(1 .. n) = IF 1 > n THEN 0 ELSE n - 1 + 1
    BY <1>1, FS_Interval
  <2>2. \A x : IsFiniteSet({x}) /\ Cardinality({x}) = 1
    BY FS_Singleton, Zenon
  <2>3. IsFiniteSet({1}) /\ Cardinality({1}) = 1
    BY <2>2, Zenon
  <2>4. IsFiniteSet({2}) /\ Cardinality({2}) = 1
    BY <2>2, Zenon
  <2>5. Cardinality(1 .. n) = n
    BY <1>1, <2>1
  <2> QED BY <2>1, <2>3, <2>4, <2>5
<1>3. IsFiniteSet(astral) /\ Cardinality(astral) \in Nat
  BY <1>1, <1>2, FS_Subset, FS_CardinalityType
<1>4. units = first \cup second /\ first \cap second = {}
  BY <1>1
<1> HIDE DEF astral, units
<1>5. IsFiniteSet(first) /\ Cardinality(first) = n
  <2>1. IsFiniteSet(first) /\ Cardinality(first) = Cardinality(1 .. n) * Cardinality({1})
    BY <1>2, FS_Product
  <2>2. \A m \in Nat : m * 1 = m
    OBVIOUS
  <2> QED BY <1>1, <1>2, <2>1, <2>2, Zenon
<1>6. IsFiniteSet(second) /\ Cardinality(second) = Cardinality(astral)
  <2>1. IsFiniteSet(second) /\ Cardinality(second) = Cardinality(astral) * Cardinality({2})
    BY <1>2, <1>3, FS_Product
  <2>2. Cardinality(astral) * 1 = Cardinality(astral)
    BY <1>3
  <2> QED BY <1>2, <2>1, <2>2, Zenon
<1> HIDE DEF first, second
<1>7. Cardinality(first \cup second) = n + Cardinality(astral)
  <2>1. Cardinality(first \cap second) = 0
    BY <1>4, FS_EmptySet, Zenon
  <2>2. Cardinality(first \cup second)
          = Cardinality(first) + Cardinality(second) - Cardinality(first \cap second)
    BY <1>5, <1>6, FS_Union
  <2> HIDE DEF n
  <2> QED BY <1>1, <1>3, <1>5, <1>6, <2>1, <2>2
<1>8. Width(s) = n + Cardinality(astral)
  BY DEF Width, astral
<1>9. UnitsOf(s) = Cardinality(units)
  BY DEF UnitsOf, units
<1> QED BY <1>1, <1>3, <1>4, <1>7, <1>8, <1>9

(* A longer stretch of a line has more units.                              *)
LEMMA WidthGrows ==
  ASSUME NEW S, NEW s \in Seq(S), NEW f \in 0 .. Len(s),
         NEW x \in f .. Len(s), NEW y \in f .. Len(s), x < y
  PROVE  Width(Between(s, f, x)) < Width(Between(s, f, y))
<1> DEFINE a == Between(s, f, x)
           b == Between(s, f, y)
           astralA == {i \in DOMAIN a : a[i] = "astral"}
           astralB == {i \in DOMAIN b : b[i] = "astral"}
<1>1. /\ Len(a) = x - f /\ DOMAIN a = 1 .. x - f /\ \A i \in 1 .. x - f : a[i] = s[f + i]
      /\ Len(b) = y - f /\ DOMAIN b = 1 .. y - f /\ \A i \in 1 .. y - f : b[i] = s[f + i]
  BY BetweenElements
<1> HIDE DEF a, b
<1>2. astralA \in SUBSET astralB /\ astralB \in SUBSET (1 .. y - f)
  <2>1. \A i \in 1 .. x - f : i \in 1 .. y - f /\ a[i] = b[i]
    BY <1>1
  <2> QED BY <1>1, <2>1
<1> HIDE DEF astralA, astralB
<1>3. IsFiniteSet(astralB) /\ Cardinality(astralB) \in Nat
  <2>1. IsFiniteSet(1 .. y - f)
    BY FS_Interval
  <2> QED BY <1>2, <2>1, FS_Subset, FS_CardinalityType
<1>4. Cardinality(astralA) <= Cardinality(astralB) /\ Cardinality(astralA) \in Nat
  BY <1>2, <1>3, FS_Subset, FS_CardinalityType
<1>5. /\ Width(a) = Len(a) + Cardinality(astralA)
      /\ Width(b) = Len(b) + Cardinality(astralB)
  BY DEF Width, astralA, astralB
<1>6. Width(a) < Width(b)
  BY <1>1, <1>3, <1>4, <1>5
<1> QED BY <1>6 DEF a, b

-----------------------------------------------------------------------------
(* A line as server and editor see it, in a text whose every carriage      *)
(* return stands before a line feed.                                       *)

\* Line k of s, from offset f to the last place v a cursor can have on it.
Line(s, k, f, v) ==
  /\ k \in Nat /\ k < LineCount(ServerBreaks(s))
  /\ f = StartOf(ServerBreaks(s), k) /\ v = VisibleEnd(s, k)
  /\ f \in 0 .. Len(s) /\ v \in f .. Len(s)
  /\ {o \in CursorOffsets(s) : LineAt(ServerBreaks(s), o) = k} = f .. v

\* What a text is made of, formatted and typed in or not.
Alphabet == Characters \cup {"f", "u"}

LEMMA TextBreaks ==
  ASSUME NEW s \in Seq(Alphabet), LoneReturns(s) = {}
  PROVE  /\ EditorBreaks(s) = ServerBreaks(s) /\ Breaks(ServerBreaks(s), Len(s))
         /\ \A i : i \in ServerBreaks(s) <=> i \in 1 .. Len(s) /\ s[i] = "lf"
  BY DEF EditorBreaks, ServerBreaks, LineFeeds, Breaks

LEMMA VisiblePart ==
  ASSUME NEW s \in Seq(Alphabet), LoneReturns(s) = {}, NEW o \in CursorOffsets(s),
         NEW k, k = LineAt(ServerBreaks(s), o),
         NEW f, f = StartOf(ServerBreaks(s), k),
         NEW t, t = EndOf(s, ServerBreaks(s), k)
  PROVE  /\ f \in 0 .. o /\ t \in o .. Len(s) /\ VisibleEnd(s, k) \in o .. t
         /\ \A x \in f .. VisibleEnd(s, k) :
              x \in CursorOffsets(s) /\ LineAt(ServerBreaks(s), x) = k
<1> DEFINE b == ServerBreaks(s)
           n == Len(s)
           v == VisibleEnd(s, k)
<1>1. /\ n \in Nat /\ Breaks(b, n) /\ \A i : i \in b <=> i \in 1 .. n /\ s[i] = "lf"
      /\ o \in 0 .. n /\ ~(o > 0 /\ o < n /\ s[o] = "cr" /\ s[o + 1] = "lf")
  BY TextBreaks DEF CursorOffsets
<1>2. /\ f \in b \cup {0} /\ f \in 0 .. o /\ \A z \in b : z <= o => z <= f
  BY <1>1, LineBegins
<1>3. \/ t \in b /\ o < t /\ \A z \in b : z > o => z >= t
      \/ t = n /\ \A z \in b : z <= o
  BY <1>1, LineEnds
<1>4. v = IF ~(t > f /\ s[t] = "lf") THEN t
          ELSE IF t - 1 > f /\ s[t - 1] = "cr" THEN t - 2 ELSE t - 1
  BY DEF VisibleEnd
<1> HIDE DEF b, n, v
<1>5. t \in o .. n
  BY <1>1, <1>2, <1>3
<1>6. /\ v \in o .. t
      /\ \A x \in f .. v : x \in 0 .. n /\ ~(x > 0 /\ x < n /\ s[x] = "cr" /\ s[x + 1] = "lf")
      /\ \A x \in f .. v : \A z \in b : z <= x <=> z <= o
  <2>1. CASE t \in b /\ o < t /\ \A z \in b : z > o => z >= t
    <3>1. /\ s[t] = "lf" /\ t > f /\ t \in 1 .. n
          /\ v = IF t - 1 > f /\ s[t - 1] = "cr" THEN t - 2 ELSE t - 1
      BY <1>1, <1>2, <1>4, <2>1
    <3>2. v \in o .. t /\ v < t
      BY <1>1, <1>2, <2>1, <3>1
    <3>3. ASSUME NEW x \in f .. v, x > 0, x < n, s[x] = "cr", s[x + 1] = "lf" PROVE FALSE
      <4>1. x + 1 \in b /\ x + 1 > f
        BY <1>1, <1>2, <3>3
      <4>2. x + 1 = t
        BY <1>1, <1>2, <2>1, <3>2, <3>3, <4>1
      <4>3. x # f
        BY <1>1, <1>2, <3>3
      <4> QED BY <1>2, <3>1, <3>3, <4>2, <4>3
    <3>4. ASSUME NEW x \in f .. v, NEW z \in b PROVE z <= x <=> z <= o
      BY <1>1, <1>2, <2>1, <3>1, <3>2
    <3> QED BY <1>1, <1>2, <3>1, <3>2, <3>3, <3>4
  <2>2. CASE t = n /\ \A z \in b : z <= o
    <3>1. v = n
      BY <1>1, <1>2, <1>4, <2>2
    <3>2. ASSUME NEW x \in f .. v, x > 0, x < n, s[x] = "cr", s[x + 1] = "lf" PROVE FALSE
      <4>1. x + 1 \in b /\ x + 1 > f
        BY <1>1, <1>2, <3>2
      <4> QED BY <1>1, <1>2, <2>2, <4>1
    <3>3. ASSUME NEW x \in f .. v, NEW z \in b PROVE z <= x <=> z <= o
      BY <1>1, <1>2, <2>2
    <3> QED BY <1>1, <1>2, <2>2, <3>1, <3>2, <3>3
  <2> QED BY <1>3, <2>1, <2>2
<1>7. ASSUME NEW x \in f .. v PROVE x \in CursorOffsets(s) /\ LineAt(b, x) = k
  <2>1. {z \in b : z <= x} = {z \in b : z <= o}
    BY <1>6
  <2>2. LineAt(b, x) = LineAt(b, o)
    BY <2>1 DEF LineAt
  <2>3. x \in CursorOffsets(s)
    BY <1>6 DEF CursorOffsets, n
  <2> QED BY <2>2, <2>3 DEF b
<1>8. /\ f \in 0 .. o /\ t \in o .. n /\ v \in o .. t
      /\ \A x \in f .. v : x \in CursorOffsets(s) /\ LineAt(b, x) = k
  BY <1>2, <1>5, <1>6, <1>7
<1> QED BY <1>8 DEF b, n, v

LEMMA LineAsSeen ==
  ASSUME NEW s \in Seq(Alphabet), LoneReturns(s) = {}, NEW o \in CursorOffsets(s),
         NEW k, k = LineAt(ServerBreaks(s), o)
  PROVE  /\ o \in StartOf(ServerBreaks(s), k) .. VisibleEnd(s, k)
         /\ Line(s, k, StartOf(ServerBreaks(s), k), VisibleEnd(s, k))
<1> DEFINE f == StartOf(ServerBreaks(s), k)
           v == VisibleEnd(s, k)
           t == EndOf(s, ServerBreaks(s), k)
<1>1. /\ f \in 0 .. o /\ t \in o .. Len(s) /\ v \in o .. t
      /\ \A x \in f .. v : x \in CursorOffsets(s) /\ LineAt(ServerBreaks(s), x) = k
  BY VisiblePart
<1>2. ASSUME NEW x \in CursorOffsets(s), LineAt(ServerBreaks(s), x) = k
      PROVE  x \in f .. v
  <2>1. f \in 0 .. x /\ v \in x .. t
    BY <1>2, VisiblePart
  <2>2. x \in Nat
    BY DEF CursorOffsets
  <2> QED BY <2>1, <2>2
<1>3. o \in 0 .. Len(s) /\ Len(s) \in Nat /\ Breaks(ServerBreaks(s), Len(s))
  BY TextBreaks DEF CursorOffsets
<1>4. k \in Nat /\ k < LineCount(ServerBreaks(s))
  <2>1. /\ k \in 0 .. Cardinality(ServerBreaks(s))
        /\ Cardinality(ServerBreaks(s)) \in Nat
    BY <1>3, CountUpTo
  <2> QED BY <2>1 DEF LineCount
<1> HIDE DEF f, v, t
<1>5. {x \in CursorOffsets(s) : LineAt(ServerBreaks(s), x) = k} = f .. v
  BY <1>1, <1>2
<1>6. o \in f .. v /\ f \in 0 .. Len(s) /\ v \in f .. Len(s)
  BY <1>1, <1>3
<1> QED BY <1>4, <1>5, <1>6 DEF Line, f, v

(* What the conversions do on a line: each takes the last place whose      *)
(* column is not past the one asked for.                                   *)
Column(s, f, x) == Width(Between(s, f, x))

LEMMA ServerOffset ==
  ASSUME NEW s, NEW k, NEW f, NEW v, Line(s, k, f, v), NEW c
  PROVE  OffsetOf(s, [line |-> k, character |-> c]) =
           CHOOSE o \in f .. v : /\ Column(s, f, o) <= c
                                 /\ \A p \in o + 1 .. v : Column(s, f, p) > c
  BY DEF OffsetOf, Line, Column

LEMMA EditorsOffset ==
  ASSUME NEW s \in Seq(Alphabet), LoneReturns(s) = {},
         NEW k, NEW f, NEW v, Line(s, k, f, v), NEW c
  PROVE  /\ \A x \in f .. v : EditorPosition(s, x) = [line |-> k, character |-> Column(s, f, x)]
         /\ EditorOffset(s, [line |-> k, character |-> c]) =
              CHOOSE o \in {x \in f .. v : Column(s, f, x) <= c} :
                 \A p \in {x \in f .. v : Column(s, f, x) <= c} : p <= o
<1>1. EditorBreaks(s) = ServerBreaks(s)
  BY TextBreaks
<1>2. ASSUME NEW x \in f .. v
      PROVE  EditorPosition(s, x) = [line |-> k, character |-> Column(s, f, x)]
  <2>1. LineAt(ServerBreaks(s), x) = k
    BY DEF Line
  <2>2. Between(s, f, x) \in Seq(Alphabet)
    <3>1. f \in 0 .. Len(s) /\ x \in f .. Len(s)
      BY DEF Line
    <3> QED BY <3>1, BetweenElements
  <2>3. UnitsOf(Between(s, f, x)) = Column(s, f, x)
    BY <2>2, WidthIsUnits DEF Column
  <2>4. f = StartOf(ServerBreaks(s), k)
    BY DEF Line
  <2> QED BY <1>1, <2>1, <2>3, <2>4 DEF EditorPosition
<1> DEFINE onLine == {o \in CursorOffsets(s) : LineAt(EditorBreaks(s), o) = k}
           reached == {o \in onLine : EditorPosition(s, o).character <= c}
           early == {x \in f .. v : Column(s, f, x) <= c}
<1>3. onLine = f .. v /\ ~(k >= LineCount(EditorBreaks(s)))
  <2>1. k \in Nat /\ k < LineCount(ServerBreaks(s)) /\ LineCount(ServerBreaks(s)) \in Nat
    BY TextBreaks, BreaksFinite DEF Line, LineCount
  <2> QED BY <1>1, <2>1 DEF Line
<1>4. reached = early
  BY <1>2, <1>3
<1>5. EditorOffset(s, [line |-> k, character |-> c]) = CHOOSE o \in reached : \A p \in reached : p <= o
  BY <1>3 DEF EditorOffset
<1> QED BY <1>2, <1>4, <1>5

(* Both choose the same place.                                             *)
LEMMA SamePlace ==
  ASSUME NEW s \in Seq(Alphabet), LoneReturns(s) = {},
         NEW k, NEW f, NEW v, Line(s, k, f, v), NEW c \in Nat
  PROVE  OffsetOf(s, [line |-> k, character |-> c]) = EditorOffset(s, [line |-> k, character |-> c])
<1> DEFINE early == {x \in f .. v : Column(s, f, x) <= c}
<1>1. f \in Nat /\ v \in Nat
  BY DEF Line
<1>2. \A x \in f .. v : Column(s, f, x) \in Nat
  <2> SUFFICES ASSUME NEW x \in f .. v PROVE Column(s, f, x) \in Nat
    OBVIOUS
  <2>1. Between(s, f, x) \in Seq(Alphabet)
    <3>1. f \in 0 .. Len(s) /\ x \in f .. Len(s)
      BY DEF Line
    <3> QED BY <3>1, BetweenElements
  <2> QED BY <2>1, WidthIsUnits DEF Column
<1>3. \A o : /\ o \in f .. v /\ Column(s, f, o) <= c
             /\ \A p \in o + 1 .. v : Column(s, f, p) > c
             <=> o \in early /\ \A p \in early : p <= o
  <2>1. ASSUME NEW o, o \in early
        PROVE  (\A p \in o + 1 .. v : Column(s, f, p) > c) <=> (\A p \in early : p <= o)
    <3>1. ASSUME \A p \in o + 1 .. v : Column(s, f, p) > c, NEW p \in early PROVE p <= o
      BY <1>1, <1>2, <2>1, <3>1
    <3>2. ASSUME \A p \in early : p <= o, NEW p \in o + 1 .. v PROVE Column(s, f, p) > c
      <4>1. p \in f .. v /\ ~(p <= o)
        BY <1>1, <2>1
      <4> QED BY <1>2, <3>2, <4>1
    <3> QED BY <3>1, <3>2
  <2> QED BY <2>1
<1> HIDE DEF early
<1>4. (CHOOSE o \in f .. v : /\ Column(s, f, o) <= c
                             /\ \A p \in o + 1 .. v : Column(s, f, p) > c)
        = CHOOSE o \in early : \A p \in early : p <= o
  BY <1>3
<1>5. EditorOffset(s, [line |-> k, character |-> c])
        = CHOOSE o \in early : \A p \in early : p <= o
  BY EditorsOffset DEF early
<1>6. OffsetOf(s, [line |-> k, character |-> c])
        = CHOOSE o \in f .. v : /\ Column(s, f, o) <= c
                                /\ \A p \in o + 1 .. v : Column(s, f, p) > c
  BY ServerOffset
<1> QED BY <1>4, <1>5, <1>6, Zenon

(* The column of a place leads back to it.                                 *)
LEMMA ColumnsLead ==
  ASSUME NEW s \in Seq(Alphabet), NEW k, NEW f, NEW v, Line(s, k, f, v), NEW o \in f .. v
  PROVE  OffsetOf(s, [line |-> k, character |-> Column(s, f, o)]) = o
<1>1. f \in 0 .. Len(s) /\ v \in f .. Len(s) /\ Len(s) \in Nat
  BY DEF Line
<1>2. ASSUME NEW x \in f .. v, NEW y \in f .. v, x < y
      PROVE  /\ Column(s, f, x) < Column(s, f, y)
             /\ Column(s, f, x) \in Nat /\ Column(s, f, y) \in Nat
  <2>1. x \in f .. Len(s) /\ y \in f .. Len(s)
    BY <1>1
  <2>2. Between(s, f, x) \in Seq(Alphabet) /\ Between(s, f, y) \in Seq(Alphabet)
    BY <1>1, <2>1, BetweenElements
  <2> QED BY <1>1, <1>2, <2>1, <2>2, WidthGrows, WidthIsUnits DEF Column
<1>3. Column(s, f, o) \in Nat
  <2>1. o \in f .. Len(s)
    BY <1>1
  <2>2. Between(s, f, o) \in Seq(Alphabet)
    BY <1>1, <2>1, BetweenElements
  <2> QED BY <2>2, WidthIsUnits DEF Column
<1>4. \A p \in o + 1 .. v : Column(s, f, p) > Column(s, f, o)
  <2> SUFFICES ASSUME NEW p \in o + 1 .. v PROVE Column(s, f, p) > Column(s, f, o)
    OBVIOUS
  <2>1. p \in f .. v /\ o < p
    BY <1>1
  <2> QED BY <1>2, <2>1
<1>5. ASSUME NEW x \in f .. v, Column(s, f, x) <= Column(s, f, o),
             \A p \in x + 1 .. v : Column(s, f, p) > Column(s, f, o)
      PROVE  x = o
  <2>1. CASE x < o
    <3>1. o \in x + 1 .. v
      BY <1>1, <2>1
    <3> QED BY <1>3, <1>5, <3>1
  <2>2. CASE o < x
    BY <1>2, <1>5, <2>2
  <2> QED BY <1>1, <2>1, <2>2
<1>6. (CHOOSE x \in f .. v : /\ Column(s, f, x) <= Column(s, f, o)
                             /\ \A p \in x + 1 .. v : Column(s, f, p) > Column(s, f, o)) = o
  BY <1>3, <1>4, <1>5
<1> QED BY <1>6, ServerOffset

(* For any text without a lone return, of any length.                      *)
LEMMA PlacesAgree ==
  ASSUME NEW s \in Seq(Alphabet), LoneReturns(s) = {}, NEW o \in CursorOffsets(s)
  PROVE  /\ EditorPosition(s, o) = PositionOf(s, o)
         /\ EditorOffset(s, PositionOf(s, o)) = o
         /\ OffsetOf(s, EditorPosition(s, o)) = o
         /\ \A past \in Nat :
              LET beyond == [EditorPosition(s, o) EXCEPT !.character = @ + past]
              IN  OffsetOf(s, beyond) = EditorOffset(s, beyond)
<1>1. PICK k : k = LineAt(ServerBreaks(s), o)
  OBVIOUS
<1>2. PICK f : f = StartOf(ServerBreaks(s), k)
  OBVIOUS
<1>3. PICK v : v = VisibleEnd(s, k)
  OBVIOUS
<1>4. Line(s, k, f, v) /\ o \in f .. v
  BY <1>1, <1>2, <1>3, LineAsSeen
<1> DEFINE c == Column(s, f, o)
<1>5. PositionOf(s, o) = [line |-> k, character |-> c]
  BY <1>1, <1>2 DEF PositionOf, Column
<1>6. EditorPosition(s, o) = [line |-> k, character |-> c]
  BY <1>4, EditorsOffset
<1>7. c \in Nat
  <2>1. f \in 0 .. Len(s) /\ o \in f .. Len(s)
    BY <1>4 DEF Line
  <2>2. Between(s, f, o) \in Seq(Alphabet)
    BY <2>1, BetweenElements
  <2> QED BY <2>2, WidthIsUnits DEF Column
<1>8. OffsetOf(s, [line |-> k, character |-> c]) = o
  BY <1>4, ColumnsLead
<1> HIDE DEF c
<1>9. EditorOffset(s, [line |-> k, character |-> c]) = o
  BY <1>4, <1>7, <1>8, SamePlace
<1>10. ASSUME NEW past \in Nat
       PROVE  LET beyond == [EditorPosition(s, o) EXCEPT !.character = @ + past]
              IN  OffsetOf(s, beyond) = EditorOffset(s, beyond)
  <2>1. [EditorPosition(s, o) EXCEPT !.character = @ + past] = [line |-> k, character |-> c + past]
    BY <1>6
  <2>2. c + past \in Nat
    BY <1>7
  <2>3. OffsetOf(s, [line |-> k, character |-> c + past])
          = EditorOffset(s, [line |-> k, character |-> c + past])
    BY <1>4, <2>2, SamePlace
  <2> QED BY <2>1, <2>3
<1> QED BY <1>5, <1>6, <1>8, <1>9, <1>10

AskedIsText == asked \in Seq(Alphabet)

(* Every place means the same to the server and to the editor, in every    *)
(* text it is asked to format, of any length, that has no carriage return  *)
(* apart from a line feed; a column past the end of its line by any number *)
(* of units included.                                                      *)
THEOREM PlacesAlwaysAgree == EditsSpec => []PositionsAgree
<1>1. EditsInit => AskedIsText
  <2> SUFFICES ASSUME EditsInit PROVE AskedIsText
    OBVIOUS
  <2>1. PICK k \in 0 .. MaxText : asked \in [1 .. k -> Characters]
    BY DEF EditsInit, Strings
  <2> QED BY <2>1 DEF AskedIsText, Alphabet
<1>2. AskedIsText /\ [EditsNext]_editVars => AskedIsText'
  BY DEF EditsNext, FormatWhole, FormatRange, UserEdits, EditorApplies, editVars, AskedIsText
<1>3. ASSUME AskedIsText PROVE PositionsAgree
  <2> SUFFICES ASSUME LoneReturns(asked) = {}, NEW o \in CursorOffsets(asked)
               PROVE  /\ EditorOffset(asked, PositionOf(asked, o)) = o
                      /\ OffsetOf(asked, EditorPosition(asked, o)) = o
                      /\ \A past \in 0 .. 2 :
                           LET beyond == [EditorPosition(asked, o) EXCEPT !.character = @ + past]
                           IN  OffsetOf(asked, beyond) = EditorOffset(asked, beyond)
    BY DEF PositionsAgree
  <2>1. \A past \in 0 .. 2 : past \in Nat
    OBVIOUS
  <2> QED BY <1>3, <2>1, PlacesAgree, Zenon DEF AskedIsText
<1> QED BY <1>1, <1>2, <1>3, PTL DEF EditsSpec
-----------------------------------------------------------------------------
(* Pieces of a text, put together.                                         *)

LEMMA SameElements ==
  ASSUME NEW s \in Seq(Alphabet), NEW t \in Seq(Alphabet), Len(s) = Len(t),
         \A i \in 1 .. Len(s) : s[i] = t[i]
  PROVE  s = t
  OBVIOUS

LEMMA BetweenJoins ==
  ASSUME NEW s \in Seq(Alphabet), NEW x \in 0 .. Len(s), NEW y \in x .. Len(s), NEW z \in y .. Len(s)
  PROVE  Between(s, x, y) \o Between(s, y, z) = Between(s, x, z)
<1> DEFINE a == Between(s, x, y)
           b == Between(s, y, z)
           c == Between(s, x, z)
<1>1. x \in Nat /\ y \in Nat /\ z \in Nat /\ x <= y /\ y <= z /\ y \in 0 .. Len(s) /\ z \in x .. Len(s)
  OBVIOUS
<1>2. /\ a \in Seq(Alphabet) /\ Len(a) = y - x /\ \A i \in 1 .. y - x : a[i] = s[x + i]
      /\ b \in Seq(Alphabet) /\ Len(b) = z - y /\ \A i \in 1 .. z - y : b[i] = s[y + i]
      /\ c \in Seq(Alphabet) /\ Len(c) = z - x /\ \A i \in 1 .. z - x : c[i] = s[x + i]
  BY <1>1, BetweenElements
<1> HIDE DEF a, b, c
<1>3. /\ a \o b \in Seq(Alphabet) /\ Len(a \o b) = z - x
      /\ \A i \in 1 .. z - x : (a \o b)[i] = IF i <= y - x THEN a[i] ELSE b[i - (y - x)]
  <2>1. (y - x) + (z - y) = z - x
    BY <1>1
  <2>2. /\ a \o b \in Seq(Alphabet) /\ Len(a \o b) = Len(a) + Len(b)
        /\ \A i \in 1 .. Len(a) + Len(b) : (a \o b)[i] = IF i <= Len(a) THEN a[i] ELSE b[i - Len(a)]
    BY <1>2, ConcatElements
  <2> QED BY <1>2, <2>1, <2>2
<1>4. ASSUME NEW i \in 1 .. z - x PROVE (a \o b)[i] = c[i]
  <2>1. CASE i <= y - x
    <3>1. i \in 1 .. y - x
      BY <1>1, <2>1
    <3>2. (a \o b)[i] = a[i] /\ c[i] = s[x + i]
      BY <1>2, <1>3, <2>1
    <3> QED BY <1>2, <3>1, <3>2
  <2>2. CASE ~(i <= y - x)
    <3>1. i - (y - x) \in 1 .. z - y /\ y + (i - (y - x)) = x + i
      BY <1>1, <2>2
    <3> QED BY <1>2, <1>3, <2>2, <3>1
  <2> QED BY <2>1, <2>2
<1>5. a \o b = c
  BY <1>2, <1>3, <1>4, SameElements
<1> QED BY <1>5 DEF a, b, c

(* Consecutive pieces of a text are what lies between the first and the    *)
(* last cut.                                                               *)
LEMMA FlattenPieces ==
  ASSUME NEW s \in Seq(Alphabet), NEW m \in Nat, NEW cut \in [0 .. m -> 0 .. Len(s)],
         \A i \in 1 .. m : cut[i - 1] <= cut[i],
         NEW q, q \in Seq(Seq(Alphabet)), Len(q) = m,
         \A i \in 1 .. m : q[i] = Between(s, cut[i - 1], cut[i])
  PROVE  FlattenSeq(q) = Between(s, cut[0], cut[m]) /\ cut[0] <= cut[m]
<1>1. \A i \in 0 .. m : cut[i] \in 0 .. Len(s)
  OBVIOUS
<1>2. \A i \in 0 .. m : cut[0] <= cut[i]
  <2> DEFINE low == {i \in 0 .. m : ~(cut[0] <= cut[i])}
  <2> SUFFICES ASSUME low # {} PROVE FALSE
    OBVIOUS
  <2>1. PICK i \in low : \A j \in low : i <= j
    <3>1. \A j \in low : j \in Nat
      OBVIOUS
    <3> HIDE DEF low
    <3> QED BY <3>1, LeastOf
  <2>2. i # 0 /\ i \in 1 .. m /\ i - 1 \in 0 .. m /\ ~(i <= i - 1)
    BY <1>1, <2>1
  <2>3. i - 1 \notin low
    BY <2>1, <2>2
  <2>4. cut[i - 1] <= cut[i] /\ cut[0] <= cut[i - 1]
    BY <1>1, <2>2, <2>3
  <2> QED BY <1>1, <2>1, <2>2, <2>4
<1>3. CASE m = 0
  <2>1. q = <<>> /\ Between(s, cut[0], cut[0]) = <<>>
    <3>1. Between(s, cut[0], cut[0]) \in Seq(Alphabet) /\ Len(Between(s, cut[0], cut[0])) = 0
      <4>1. cut[0] \in cut[0] .. Len(s) /\ cut[0] - cut[0] = 0
        BY <1>1
      <4> QED BY <1>1, <4>1, BetweenElements
    <3> QED BY <1>3, <3>1
  <2>2. FlattenSeq(q) = q
    BY <1>3 DEF FlattenSeq
  <2> QED BY <1>1, <1>3, <2>1, <2>2
<1>4. CASE m # 0
  <2> DEFINE Sum(f) == [i \in 1 .. Len(q) |-> IF i = 1 THEN q[i] ELSE f[i - 1] \o q[i]]
             g == [i \in 1 .. Len(q) |-> Between(s, cut[0], cut[i])]
             h == CHOOSE f : f = Sum(f)
  <2>1. FlattenSeq(q) = h[m]
    BY <1>4, Zenon DEF FlattenSeq
  <2>2. \A i \in 2 .. m : g[i] = g[i - 1] \o q[i]
    <3> SUFFICES ASSUME NEW i \in 2 .. m PROVE g[i] = g[i - 1] \o q[i]
      OBVIOUS
    <3>1. /\ i \in 1 .. m /\ i - 1 \in 1 .. m /\ i - 1 \in 0 .. m /\ i \in 0 .. m /\ 0 \in 0 .. m
          /\ cut[0] \in 0 .. Len(s) /\ cut[i - 1] \in cut[0] .. Len(s) /\ cut[i] \in cut[i - 1] .. Len(s)
      BY <1>1, <1>2
    <3>2. Between(s, cut[0], cut[i - 1]) \o Between(s, cut[i - 1], cut[i]) = Between(s, cut[0], cut[i])
      BY <3>1, BetweenJoins
    <3> QED BY <3>1, <3>2
  <2>3. g[1] = q[1]
    BY <1>4
  <2>4. g = Sum(g)
    <3>1. g = [i \in 1 .. m |-> g[i]]
      OBVIOUS
    <3> HIDE DEF g
    <3>2. \A i \in 1 .. m : i = 1 \/ i \in 2 .. m
      OBVIOUS
    <3>3. \A i \in 1 .. m : g[i] = IF i = 1 THEN q[i] ELSE g[i - 1] \o q[i]
      BY <2>2, <2>3, <3>2
    <3> QED BY <3>1, <3>3
  <2>5. h = Sum(h)
    <3> HIDE DEF g
    <3> QED BY <2>4, Zenon
  <2> HIDE DEF h, g
  <2>6. \A i \in 1 .. m : h[i] = IF i = 1 THEN q[i] ELSE h[i - 1] \o q[i]
    <3>1. \A i \in 1 .. m : Sum(h)[i] = IF i = 1 THEN q[i] ELSE h[i - 1] \o q[i]
      OBVIOUS
    <3> HIDE DEF Sum
    <3> QED BY <2>5, <3>1
  <2>7. \A i \in 1 .. m : h[i] = g[i]
    <3> DEFINE odd == {i \in 1 .. m : h[i] # g[i]}
    <3> SUFFICES ASSUME odd # {} PROVE FALSE
      OBVIOUS
    <3>1. PICK i \in odd : \A j \in odd : i <= j
      <4>1. \A j \in odd : j \in Nat
        OBVIOUS
      <4> HIDE DEF odd
      <4> QED BY <4>1, LeastOf
    <3>2. i # 1
      BY <2>3, <2>6, <3>1
    <3>3. i \in 1 .. m /\ i # 1 /\ i \in 2 .. m /\ i - 1 \in 1 .. m /\ ~(i <= i - 1)
      BY <3>1, <3>2
    <3>4. h[i - 1] = g[i - 1]
      BY <3>1, <3>3
    <3>5. h[i] = h[i - 1] \o q[i]
      BY <2>6, <3>3
    <3>6. h[i] = g[i]
      BY <2>2, <3>3, <3>4, <3>5
    <3> QED BY <3>1, <3>6
  <2>8. h[m] = Between(s, cut[0], cut[m])
    <3>1. m \in 1 .. m
      BY <1>4
    <3>2. g[m] = Between(s, cut[0], cut[m])
      BY <3>1 DEF g
    <3> QED BY <2>7, <3>1, <3>2
  <2> QED BY <1>2, <2>1, <2>8
<1> QED BY <1>3, <1>4

(* Numbered by the keys up to theirs, the elements of a finite set have    *)
(* the numbers 1 to its size.                                              *)
Rank(T, key, x) == Cardinality({y \in T : key[y] <= key[x]})

LEMMA Ranked ==
  ASSUME NEW T, IsFiniteSet(T), NEW key \in [T -> Nat],
         \A x, y \in T : key[x] = key[y] => x = y
  PROVE  /\ Cardinality(T) \in Nat
         /\ \A x \in T : Rank(T, key, x) \in 1 .. Cardinality(T)
         /\ \A x, y \in T : key[x] < key[y] => Rank(T, key, x) < Rank(T, key, y)
         /\ \A i \in 1 .. Cardinality(T) : \E x \in T : Rank(T, key, x) = i
<1> DEFINE n == Cardinality(T)
           upTo(x) == {y \in T : key[y] <= key[x]}
           rank == [x \in T |-> Rank(T, key, x)]
<1>1. n \in Nat
  BY FS_CardinalityType
<1>2. ASSUME NEW x \in T
      PROVE  /\ IsFiniteSet(upTo(x)) /\ Rank(T, key, x) = Cardinality(upTo(x))
             /\ Cardinality(upTo(x)) \in 1 .. n
  <2>1. upTo(x) \in SUBSET T /\ upTo(x) # {}
    OBVIOUS
  <2>2. Rank(T, key, x) = Cardinality(upTo(x))
    BY DEF Rank
  <2> HIDE DEF upTo
  <2>3. IsFiniteSet(upTo(x)) /\ Cardinality(upTo(x)) <= n /\ Cardinality(upTo(x)) \in Nat
    BY <2>1, FS_Subset, FS_CardinalityType
  <2>4. Cardinality(upTo(x)) # 0
    BY <2>1, <2>3, FS_EmptySet
  <2> QED BY <1>1, <2>2, <2>3, <2>4
<1>3. ASSUME NEW x \in T, NEW y \in T, key[x] < key[y]
      PROVE  Rank(T, key, x) < Rank(T, key, y)
  <2>1. upTo(x) \in SUBSET upTo(y) /\ y \in upTo(y) /\ y \notin upTo(x)
    BY <1>3
  <2> HIDE DEF n, upTo
  <2>2. IsFiniteSet(upTo(y)) /\ Cardinality(upTo(x)) \in Nat /\ Cardinality(upTo(y)) \in Nat
    BY <1>1, <1>2
  <2>3. Cardinality(upTo(x)) <= Cardinality(upTo(y)) /\ Cardinality(upTo(x)) # Cardinality(upTo(y))
    BY <2>1, <2>2, FS_Subset
  <2> QED BY <1>2, <2>2, <2>3
<1> HIDE DEF n, upTo
<1>4. \A x \in T : rank[x] = Rank(T, key, x) /\ rank[x] \in 1 .. n
  BY <1>2
<1>5. \A x, y \in T : rank[x] = rank[y] => x = y
  <2> SUFFICES ASSUME NEW x \in T, NEW y \in T, rank[x] = rank[y] PROVE x = y
    OBVIOUS
  <2>1. key[x] \in Nat /\ key[y] \in Nat
    OBVIOUS
  <2>2. ~(key[x] < key[y]) /\ ~(key[y] < key[x])
    BY <1>1, <1>3, <1>4
  <2>3. key[x] = key[y]
    BY <2>1, <2>2
  <2> QED BY <2>3
<1>6. rank \in [T -> 1 .. n]
  BY <1>4
<1> HIDE DEF rank
<1>7. rank \in Injection(T, 1 .. n)
  BY <1>5, <1>6 DEF Injection, IsInjective
<1>8. IsFiniteSet(1 .. n) /\ Cardinality(1 .. n) = n
  <2>1. IsFiniteSet(1 .. n) /\ Cardinality(1 .. n) = IF 1 > n THEN 0 ELSE n - 1 + 1
    BY <1>1, FS_Interval
  <2> QED BY <1>1, <2>1
<1>9. rank \in Surjection(T, 1 .. n)
  BY <1>7, <1>8, FS_Injection DEF n
<1>10. \A i \in 1 .. n : \E x \in T : rank[x] = i
  BY <1>9 DEF Surjection
<1> QED BY <1>1, <1>2, <1>3, <1>4, <1>10 DEF n

LEMMA WholeText ==
  ASSUME NEW s \in Seq(Alphabet)
  PROVE  Between(s, 0, Len(s)) = s
<1>1. 0 \in 0 .. Len(s) /\ Len(s) \in 0 .. Len(s) /\ Len(s) - 0 = Len(s)
  OBVIOUS
<1>2. /\ Between(s, 0, Len(s)) \in Seq(Alphabet) /\ Len(Between(s, 0, Len(s))) = Len(s)
      /\ \A i \in 1 .. Len(s) : Between(s, 0, Len(s))[i] = s[0 + i]
  BY <1>1, BetweenElements
<1>3. \A i \in 1 .. Len(s) : Between(s, 0, Len(s))[i] = s[i]
  BY <1>2
<1> QED BY <1>2, <1>3, SameElements

LEMMA NothingBetween ==
  ASSUME NEW s \in Seq(Alphabet), NEW x \in 0 .. Len(s)
  PROVE  Between(s, x, x) = <<>>
<1>1. x \in x .. Len(s) /\ x - x = 0
  OBVIOUS
<1>2. Between(s, x, x) \in Seq(Alphabet) /\ Len(Between(s, x, x)) = 0
  BY <1>1, BetweenElements
<1> QED BY <1>2

LEMMA BetweenConcat ==
  ASSUME NEW s \in Seq(Alphabet), NEW t \in Seq(Alphabet)
  PROVE  /\ \A x \in 0 .. Len(s) : \A y \in x .. Len(s) : Between(s \o t, x, y) = Between(s, x, y)
         /\ Between(s \o t, Len(s), Len(s) + Len(t)) = t
<1>1. /\ s \o t \in Seq(Alphabet) /\ Len(s \o t) = Len(s) + Len(t)
      /\ \A i \in 1 .. Len(s) + Len(t) : (s \o t)[i] = IF i <= Len(s) THEN s[i] ELSE t[i - Len(s)]
  BY ConcatElements
<1> DEFINE u == s \o t
<1> HIDE DEF u
<1>2. Len(s) \in Nat /\ Len(t) \in Nat /\ u \in Seq(Alphabet) /\ Len(u) = Len(s) + Len(t)
  BY <1>1 DEF u
<1>3. \A i \in 1 .. Len(u) : u[i] = IF i <= Len(s) THEN s[i] ELSE t[i - Len(s)]
  BY <1>1 DEF u
<1>4. ASSUME NEW x \in 0 .. Len(s), NEW y \in x .. Len(s) PROVE Between(u, x, y) = Between(s, x, y)
  <2>1. x \in 0 .. Len(u) /\ y \in x .. Len(u) /\ x \in Nat /\ y \in Nat
    BY <1>2
  <2>2. /\ Between(u, x, y) \in Seq(Alphabet) /\ Len(Between(u, x, y)) = y - x
        /\ \A i \in 1 .. y - x : Between(u, x, y)[i] = u[x + i]
    BY <1>2, <2>1, BetweenElements
  <2>3. /\ Between(s, x, y) \in Seq(Alphabet) /\ Len(Between(s, x, y)) = y - x
        /\ \A i \in 1 .. y - x : Between(s, x, y)[i] = s[x + i]
    BY BetweenElements
  <2>4. \A i \in 1 .. y - x : x + i \in 1 .. Len(u) /\ x + i <= Len(s)
    BY <1>2, <2>1
  <2>5. \A i \in 1 .. y - x : u[x + i] = s[x + i]
    BY <1>3, <2>4
  <2> QED BY <2>2, <2>3, <2>5, SameElements
<1>5. Between(u, Len(s), Len(s) + Len(t)) = t
  <2> DEFINE x == Len(s)
             y == Len(s) + Len(t)
  <2>1. x \in 0 .. Len(u) /\ y \in x .. Len(u) /\ y - x = Len(t)
    BY <1>2
  <2>2. \A i \in 1 .. Len(t) : x + i \in 1 .. Len(u) /\ ~(x + i <= Len(s)) /\ x + i - Len(s) = i
    BY <1>2
  <2> HIDE DEF x, y
  <2>3. /\ Between(u, x, y) \in Seq(Alphabet) /\ Len(Between(u, x, y)) = Len(t)
        /\ \A i \in 1 .. Len(t) : Between(u, x, y)[i] = u[x + i]
    BY <1>2, <2>1, BetweenElements
  <2>4. \A i \in 1 .. Len(t) : u[x + i] = t[i]
    BY <1>3, <2>2 DEF x
  <2>5. Between(u, x, y) = t
    BY <2>3, <2>4, SameElements
  <2> QED BY <2>5 DEF x, y
<1> QED BY <1>4, <1>5 DEF u

(* Any pieces, put together, are the pieces of a text.                     *)
Cuts(q, s, cut) ==
  /\ cut \in [0 .. Len(q) -> 0 .. Len(s)] /\ cut[0] = 0 /\ cut[Len(q)] = Len(s)
  /\ \A i \in 1 .. Len(q) : cut[i - 1] <= cut[i] /\ Between(s, cut[i - 1], cut[i]) = q[i]

LEMMA CutsFlatten ==
  ASSUME NEW q \in Seq(Seq(Alphabet)), NEW s \in Seq(Alphabet), NEW cut, Cuts(q, s, cut)
  PROVE  FlattenSeq(q) = s
<1>1. Len(q) \in Nat
  OBVIOUS
<1>2. FlattenSeq(q) = Between(s, cut[0], cut[Len(q)])
  BY <1>1, FlattenPieces DEF Cuts
<1> QED BY <1>2, WholeText DEF Cuts

LEMMA PiecesCut ==
  ASSUME NEW q \in Seq(Seq(Alphabet))
  PROVE  FlattenSeq(q) \in Seq(Alphabet) /\ \E cut : Cuts(q, FlattenSeq(q), cut)
<1> DEFINE First(k, s, cut) ==
             /\ cut \in [0 .. k -> 0 .. Len(s)] /\ cut[0] = 0 /\ cut[k] = Len(s)
             /\ \A i \in 1 .. k : cut[i - 1] <= cut[i] /\ Between(s, cut[i - 1], cut[i]) = q[i]
           odd == {k \in 0 .. Len(q) : ~ \E s \in Seq(Alphabet) : \E cut : First(k, s, cut)}
<1>1. odd = {}
  <2> SUFFICES ASSUME odd # {} PROVE FALSE
    OBVIOUS
  <2>1. PICK k \in odd : \A j \in odd : k <= j
    <3>1. \A j \in odd : j \in Nat
      OBVIOUS
    <3> HIDE DEF odd
    <3> QED BY <3>1, LeastOf
  <2>2. k \in 0 .. Len(q) /\ k \in Nat
    OBVIOUS
  <2>3. ~ \E s \in Seq(Alphabet) : \E cut : First(k, s, cut)
    OBVIOUS
  <2>4. k # 0
    <3> SUFFICES ASSUME k = 0 PROVE FALSE
      OBVIOUS
    <3> DEFINE none == [i \in 0 .. 0 |-> 0]
    <3>1. <<>> \in Seq(Alphabet) /\ Len(<<>>) = 0
      OBVIOUS
    <3>2. none \in [0 .. 0 -> 0 .. 0] /\ none[0] = 0
      OBVIOUS
    <3> HIDE DEF none
    <3>3. First(0, <<>>, none)
      BY <3>1, <3>2
    <3> HIDE DEF First
    <3> QED BY <2>3, <3>1, <3>3
  <2>5. k - 1 \in 0 .. Len(q) /\ k - 1 \notin odd
    <3>1. k - 1 \in 0 .. Len(q) /\ ~(k <= k - 1)
      BY <2>2, <2>4
    <3> HIDE DEF odd
    <3> QED BY <2>1, <3>1
  <2>6. PICK s \in Seq(Alphabet) : \E cut : First(k - 1, s, cut)
    <3> HIDE DEF First
    <3> QED BY <2>5
  <2>7. PICK cut : First(k - 1, s, cut)
    BY <2>6
  <2> DEFINE t == q[k]
             u == s \o t
             more == [i \in 0 .. k |-> IF i = k THEN Len(u) ELSE cut[i]]
  <2>8. t \in Seq(Alphabet) /\ k \in 1 .. Len(q)
    BY <2>2, <2>4
  <2> HIDE DEF t
  <2>9. u \in Seq(Alphabet) /\ Len(u) = Len(s) + Len(t) /\ Len(s) \in Nat /\ Len(t) \in Nat
    BY <2>8, ConcatElements
  <2>10. /\ \A x \in 0 .. Len(s) : \A y \in x .. Len(s) : Between(u, x, y) = Between(s, x, y)
         /\ Between(u, Len(s), Len(u)) = t
    BY <2>8, <2>9, BetweenConcat
  <2> HIDE DEF u
  <2>11. \A i \in 0 .. k - 1 : cut[i] \in 0 .. Len(s) /\ cut[i] \in 0 .. Len(u) /\ i # k /\ i \in 0 .. k
    BY <2>2, <2>7, <2>9
  <2>12. more \in [0 .. k -> 0 .. Len(u)] /\ more[0] = 0 /\ more[k] = Len(u)
    <3>1. \A i \in 0 .. k : i = k \/ i \in 0 .. k - 1
      BY <2>2
    <3>2. 0 \in 0 .. k /\ 0 # k /\ k \in 0 .. k /\ cut[0] = 0
      BY <2>2, <2>4, <2>7
    <3> QED BY <2>9, <2>11, <3>1, <3>2
  <2>13. ASSUME NEW i \in 1 .. k
         PROVE  more[i - 1] <= more[i] /\ Between(u, more[i - 1], more[i]) = q[i]
    <3>1. CASE i = k
      <4>1. i - 1 \in 0 .. k - 1 /\ i - 1 \in 0 .. k /\ i \in 0 .. k /\ i - 1 = k - 1 /\ cut[k - 1] = Len(s)
        BY <2>2, <2>7, <3>1
      <4>2. more[i - 1] = Len(s) /\ more[i] = Len(u)
        BY <2>11, <3>1, <4>1
      <4> QED BY <2>9, <2>10, <3>1, <4>2 DEF t
    <3>2. CASE i # k
      <4>1. i \in 1 .. k - 1 /\ i \in 0 .. k - 1 /\ i - 1 \in 0 .. k - 1
        BY <2>2, <3>2
      <4>2. more[i - 1] = cut[i - 1] /\ more[i] = cut[i]
        BY <2>11, <4>1
      <4>3. cut[i - 1] <= cut[i] /\ Between(s, cut[i - 1], cut[i]) = q[i]
        BY <2>7, <4>1
      <4>4. cut[i - 1] \in 0 .. Len(s) /\ cut[i] \in cut[i - 1] .. Len(s)
        BY <2>9, <2>11, <4>1, <4>3
      <4> QED BY <2>10, <4>2, <4>3, <4>4
    <3> QED BY <3>1, <3>2
  <2>14. First(k, u, more)
    <3> HIDE DEF more
    <3> QED BY <2>12, <2>13
  <2> HIDE DEF First
  <2> QED BY <2>3, <2>9, <2>14
<1>2. PICK s \in Seq(Alphabet) : \E cut : First(Len(q), s, cut)
  <2>1. Len(q) \in 0 .. Len(q)
    OBVIOUS
  <2> HIDE DEF First
  <2> QED BY <1>1, <2>1
<1>3. PICK cut : First(Len(q), s, cut)
  BY <1>2
<1>4. Cuts(q, s, cut)
  BY <1>3 DEF Cuts
<1>5. FlattenSeq(q) = s
  BY <1>4, CutsFlatten
<1> QED BY <1>4, <1>5

-----------------------------------------------------------------------------
(* Where the lines of a text begin and end.                                *)

LEMMA FunctionIsSequence ==
  ASSUME NEW S, NEW m \in Nat, NEW q \in [1 .. m -> S]
  PROVE  q \in Seq(S) /\ Len(q) = m
  OBVIOUS

(* Line k begins at the k-th break.                                        *)
LEMMA BreakNumbers ==
  ASSUME NEW b, NEW n, Breaks(b, n), NEW k \in 0 .. Cardinality(b)
  PROVE  /\ StartOf(b, k) \in b \cup {0} /\ StartOf(b, k) \in 0 .. n
         /\ LineAt(b, StartOf(b, k)) = k
         /\ k = 0 => StartOf(b, k) = 0
<1>1. n \in Nat /\ IsFiniteSet(b) /\ Cardinality(b) \in Nat /\ k \in Nat /\ \A z \in b : z \in 1 .. n
  BY BreaksFinite DEF Breaks
<1>2. CASE k = 0
  <2>1. {z \in b : z <= 0} = {}
    BY <1>1
  <2>2. LineAt(b, 0) = 0
    BY <2>1, FS_EmptySet DEF LineAt
  <2>3. 0 \in 0 .. n
    BY <1>1
  <2>4. StartOf(b, 0) \in 0 .. 0
    BY <2>2, <2>3, LineBegins
  <2>5. StartOf(b, 0) = 0
    BY <2>4
  <2> QED BY <1>2, <2>2, <2>3, <2>5
<1>3. CASE k # 0
  <2> DEFINE key == [z \in b |-> z]
  <2>1. key \in [b -> Nat] /\ \A x, y \in b : key[x] = key[y] => x = y
    BY <1>1
  <2>2. \A x \in b : {y \in b : key[y] <= key[x]} = {y \in b : y <= x}
    OBVIOUS
  <2> HIDE DEF key
  <2>3. \A x \in b : Rank(b, key, x) = LineAt(b, x)
    BY <2>2 DEF Rank, LineAt
  <2>4. k \in 1 .. Cardinality(b)
    BY <1>1, <1>3
  <2>5. PICK x \in b : Rank(b, key, x) = k
    BY <1>1, <2>1, <2>4, Ranked
  <2>6. LineAt(b, x) = k /\ x \in 0 .. n
    BY <1>1, <2>3, <2>5
  <2>7. StartOf(b, k) \in 0 .. x /\ x <= StartOf(b, k)
    BY <1>1, <2>6, LineBegins
  <2>8. StartOf(b, k) = x
    BY <1>1, <2>7
  <2> QED BY <1>3, <2>6, <2>8
<1> QED BY <1>2, <1>3

LEMMA StartsAscend ==
  ASSUME NEW b, NEW n, Breaks(b, n), NEW k \in 1 .. Cardinality(b)
  PROVE  StartOf(b, k - 1) < StartOf(b, k)
<1>1. k \in Nat /\ k - 1 \in 0 .. Cardinality(b) /\ k \in 0 .. Cardinality(b) /\ Cardinality(b) \in Nat
  BY BreaksFinite
<1>2. /\ StartOf(b, k) \in 0 .. n /\ StartOf(b, k - 1) \in 0 .. n /\ n \in Nat
      /\ LineAt(b, StartOf(b, k)) = k /\ LineAt(b, StartOf(b, k - 1)) = k - 1
  BY <1>1, BreakNumbers DEF Breaks
<1>3. ~(StartOf(b, k) <= StartOf(b, k - 1))
  <2> SUFFICES ASSUME StartOf(b, k) <= StartOf(b, k - 1) PROVE FALSE
    OBVIOUS
  <2>1. LineAt(b, StartOf(b, k)) <= LineAt(b, StartOf(b, k - 1))
    BY <1>2, CountUpTo
  <2> QED BY <1>1, <1>2, <2>1
<1> QED BY <1>2, <1>3

(* The end of line k, or of the text.                                      *)
Cut(s) ==
  [k \in 0 .. Len(LinesOf(s)) |->
     IF k < LineCount(EditorBreaks(s)) THEN StartOf(EditorBreaks(s), k) ELSE Len(s)]

LEMMA EditorsBreaks ==
  ASSUME NEW s \in Seq(Alphabet)
  PROVE  /\ Breaks(EditorBreaks(s), Len(s)) /\ Len(s) \in Nat
         /\ \A i \in EditorBreaks(s) : s[i] \in {"lf", "cr"}
  BY DEF EditorBreaks, LineFeeds, LoneReturns, Breaks

LEMMA LinesCounted ==
  ASSUME NEW s \in Seq(Alphabet), NEW b, b = EditorBreaks(s)
  PROVE  /\ Cardinality(b) \in Nat /\ Len(LinesOf(s)) \in Nat
         /\ Len(LinesOf(s)) = IF Len(s) = 0 \/ Len(s) \in b THEN Cardinality(b) ELSE Cardinality(b) + 1
         /\ Len(s) = 0 => Cardinality(b) = 0
         /\ LinesOf(s) = [k \in 1 .. Len(LinesOf(s)) |->
                            Between(s, StartOf(b, k - 1), EndOf(s, b, k - 1))]
<1>1. Breaks(b, Len(s)) /\ Len(s) \in Nat /\ IsFiniteSet(b) /\ Cardinality(b) \in Nat
  BY EditorsBreaks, BreaksFinite
<1>2. \A z \in b : z \in 1 .. Len(s)
  BY <1>1 DEF Breaks
<1>3. CASE Len(s) = 0
  <2>1. b = {}
    BY <1>2, <1>3
  <2>2. Cardinality(b) = 0
    BY <2>1, FS_EmptySet
  <2>3. s = <<>>
    BY <1>3
  <2>4. LinesOf(s) = <<>> /\ Len(LinesOf(s)) = 0
    BY <2>3 DEF LinesOf
  <2>5. LinesOf(s) = [k \in 1 .. 0 |-> Between(s, StartOf(b, k - 1), EndOf(s, b, k - 1))]
    BY <2>4
  <2> QED BY <1>3, <2>2, <2>4, <2>5
<1>4. CASE Len(s) # 0
  <2> DEFINE rest == b \ {Len(s)}
             count == Cardinality({0} \cup rest)
  <2>1. s # <<>>
    BY <1>4
  <2>2. /\ IsFiniteSet(rest)
        /\ Cardinality(rest) = IF Len(s) \in b THEN Cardinality(b) - 1 ELSE Cardinality(b)
    BY <1>1, FS_RemoveElement
  <2>3. 0 \notin rest
    BY <1>2
  <2>4. rest \cup {0} = {0} \cup rest
    OBVIOUS
  <2>5. LinesOf(s) = [k \in 1 .. count |-> Between(s, StartOf(b, k - 1), EndOf(s, b, k - 1))]
    BY <2>1 DEF LinesOf
  <2> HIDE DEF rest
  <2>6. Cardinality(rest \cup {0}) = Cardinality(rest) + 1
    BY <2>2, <2>3, FS_AddElement
  <2>7. count = (IF Len(s) \in b THEN Cardinality(b) ELSE Cardinality(b) + 1) /\ count \in Nat
    <3>1. count = Cardinality(rest) + 1
      BY <2>4, <2>6
    <3> HIDE DEF count
    <3>2. CASE Len(s) \in b
      BY <1>1, <2>2, <3>1, <3>2
    <3>3. CASE Len(s) \notin b
      BY <1>1, <2>2, <3>1, <3>3
    <3> QED BY <3>2, <3>3
  <2> HIDE DEF count
  <2>8. Len(LinesOf(s)) = count
    BY <2>5, <2>7
  <2> QED BY <1>1, <1>4, <2>5, <2>7, <2>8
<1> QED BY <1>3, <1>4

LEMMA LinesCut ==
  ASSUME NEW s \in Seq(Alphabet), NEW b, b = EditorBreaks(s)
  PROVE  /\ LinesOf(s) \in Seq(Seq(Alphabet)) /\ Cuts(LinesOf(s), s, Cut(s))
         /\ \A k \in 1 .. Len(LinesOf(s)) : Cut(s)[k - 1] < Cut(s)[k]
         /\ \A k \in 0 .. Cardinality(b) :
              k \in 0 .. Len(LinesOf(s)) /\ Cut(s)[k] = StartOf(b, k) /\ LineAt(b, Cut(s)[k]) = k
         /\ \A k \in 0 .. Len(LinesOf(s)) : k \in 0 .. Cardinality(b) \/ Cut(s)[k] = Len(s)
<1> DEFINE m == Len(LinesOf(s))
           c == Cardinality(b)
           cut == Cut(s)
<1>1. /\ c \in Nat /\ m \in Nat /\ m = IF Len(s) = 0 \/ Len(s) \in b THEN c ELSE c + 1
      /\ Len(s) = 0 => c = 0
      /\ LinesOf(s) = [k \in 1 .. m |-> Between(s, StartOf(b, k - 1), EndOf(s, b, k - 1))]
  BY LinesCounted
<1>2. Breaks(b, Len(s)) /\ Len(s) \in Nat /\ IsFiniteSet(b) /\ \A z \in b : z \in 1 .. Len(s)
  BY EditorsBreaks, BreaksFinite DEF Breaks
<1>3. LineCount(b) = c + 1
  BY <1>1 DEF LineCount
<1>4. cut = [k \in 0 .. m |-> IF k < c + 1 THEN StartOf(b, k) ELSE Len(s)]
  BY <1>3 DEF Cut
<1>5. \A k \in 0 .. c : k \in 0 .. m /\ k < c + 1
  BY <1>1
<1>6. \A k \in 0 .. c : StartOf(b, k) \in 0 .. Len(s) /\ StartOf(b, k) \in b \cup {0} /\ LineAt(b, StartOf(b, k)) = k
  BY <1>2, BreakNumbers
<1>7. \A k \in 0 .. m : k \in 0 .. c \/ k = c + 1
  BY <1>1
<1>8. \A k \in 0 .. c : cut[k] = StartOf(b, k)
  BY <1>4, <1>5
<1>9. m = c + 1 => cut[m] = Len(s)
  BY <1>1, <1>4
<1>10. cut \in [0 .. m -> 0 .. Len(s)]
  BY <1>2, <1>4, <1>5, <1>6, <1>7
<1>11. cut[0] = 0
  <2>1. 0 \in 0 .. c
    BY <1>1
  <2> QED BY <1>2, <1>8, <2>1, BreakNumbers
<1>12. cut[m] = Len(s)
  <2>1. CASE m = c + 1
    BY <1>9, <2>1
  <2>2. CASE Len(s) = 0
    <3>1. m = 0
      BY <1>1, <2>2
    <3> QED BY <1>11, <2>2, <3>1
  <2>3. CASE Len(s) \in b /\ m = c
    <3>1. Len(s) \in 0 .. Len(s) /\ \A z \in b : z <= Len(s)
      BY <1>2
    <3>2. LineAt(b, Len(s)) = c
      BY <1>2, <3>1, CountUpTo
    <3>3. Len(s) <= StartOf(b, c) /\ StartOf(b, c) \in 0 .. Len(s)
      BY <1>2, <2>3, <3>1, <3>2, LineBegins
    <3>4. c \in 0 .. c /\ StartOf(b, c) = Len(s)
      BY <1>1, <1>2, <3>3
    <3> QED BY <1>8, <2>3, <3>4
  <2> QED BY <1>1, <2>1, <2>2, <2>3
<1>13. ASSUME NEW k \in 1 .. m PROVE cut[k - 1] < cut[k]
  <2>1. CASE k \in 1 .. c
    <3>1. StartOf(b, k - 1) < StartOf(b, k) /\ k \in 0 .. c /\ k - 1 \in 0 .. c
      BY <1>1, <1>2, <2>1, StartsAscend
    <3> QED BY <1>8, <3>1
  <2>2. CASE k = c + 1
    <3>1. m = c + 1 /\ Len(s) # 0 /\ Len(s) \notin b /\ k - 1 = c /\ k = m /\ c \in 0 .. c
      BY <1>1, <2>2
    <3>2. cut[c] \in 0 .. Len(s) /\ cut[c] \in b \cup {0}
      BY <1>6, <1>8, <3>1
    <3> QED BY <1>2, <1>12, <3>1, <3>2
  <2> QED BY <1>1, <1>7, <2>1, <2>2
<1>14. ASSUME NEW k \in 1 .. m PROVE LinesOf(s)[k] = Between(s, cut[k - 1], cut[k])
  <2>1. k - 1 \in 0 .. c /\ k \in 0 .. m /\ k - 1 + 1 = k
    BY <1>1
  <2>2. StartOf(b, k - 1) = cut[k - 1]
    BY <1>8, <2>1
  <2>3. EndOf(s, b, k - 1) = cut[k]
    BY <1>3, <1>4, <2>1 DEF EndOf
  <2> QED BY <1>1, <2>2, <2>3
<1>15. \A k \in 0 .. m : k \in 0 .. c \/ cut[k] = Len(s)
  BY <1>1, <1>7, <1>12
<1>16. \A k \in 0 .. m : cut[k] \in 0 .. Len(s)
  BY <1>10
<1> HIDE DEF m, cut
<1>17. \A k \in 1 .. m : Between(s, cut[k - 1], cut[k]) \in Seq(Alphabet)
  <2> SUFFICES ASSUME NEW k \in 1 .. m PROVE Between(s, cut[k - 1], cut[k]) \in Seq(Alphabet)
    OBVIOUS
  <2>1. cut[k - 1] < cut[k] /\ k \in 0 .. m /\ k - 1 \in 0 .. m
    BY <1>1, <1>13
  <2>2. cut[k - 1] \in 0 .. Len(s) /\ cut[k] \in cut[k - 1] .. Len(s)
    BY <1>16, <2>1
  <2> QED BY <2>2, BetweenElements
<1>18. LinesOf(s) \in Seq(Seq(Alphabet))
  <2>1. LinesOf(s) = [k \in 1 .. m |-> LinesOf(s)[k]]
    BY <1>1
  <2>2. \A k \in 1 .. m : LinesOf(s)[k] \in Seq(Alphabet)
    BY <1>14, <1>17
  <2> DEFINE q == LinesOf(s)
  <2> HIDE DEF q
  <2>3. q \in [1 .. m -> Seq(Alphabet)]
    BY <2>1, <2>2 DEF q
  <2>4. q \in Seq(Seq(Alphabet))
    BY <1>1, <2>3, FunctionIsSequence
  <2> QED BY <2>4 DEF q
<1>19. Cuts(LinesOf(s), s, cut)
  <2>1. \A k \in 1 .. m : cut[k - 1] <= cut[k]
    <3> SUFFICES ASSUME NEW k \in 1 .. m PROVE cut[k - 1] <= cut[k]
      OBVIOUS
    <3>1. cut[k - 1] < cut[k] /\ k \in 0 .. m /\ k - 1 \in 0 .. m
      BY <1>1, <1>13
    <3> QED BY <1>16, <3>1
  <2> QED BY <1>10, <1>11, <1>12, <1>14, <2>1 DEF Cuts, m
<1> QED BY <1>5, <1>6, <1>8, <1>13, <1>15, <1>18, <1>19 DEF m, cut

LEMMA LineEndsAtCut ==
  ASSUME NEW s \in Seq(Alphabet), NEW b, b = EditorBreaks(s), NEW k \in 1 .. Len(LinesOf(s))
  PROVE  /\ StartOf(b, k - 1) = Cut(s)[k - 1] /\ EndOf(s, b, k - 1) = Cut(s)[k]
         /\ k - 1 \in 0 .. Cardinality(b)
<1>1. /\ Cardinality(b) \in Nat /\ Len(LinesOf(s)) \in Nat
      /\ Len(LinesOf(s)) <= Cardinality(b) + 1
  BY LinesCounted
<1>2. /\ k - 1 \in 0 .. Cardinality(b) /\ k \in 0 .. Len(LinesOf(s)) /\ k - 1 + 1 = k
      /\ k - 1 \in 0 .. Len(LinesOf(s))
  BY <1>1
<1>3. StartOf(b, k - 1) = Cut(s)[k - 1]
  BY <1>2, LinesCut
<1>4. EndOf(s, b, k - 1) = Cut(s)[k]
  BY <1>2 DEF EndOf, Cut
<1> QED BY <1>2, <1>3, <1>4

(* Where the server's, the editor's and ropey's lines are the same.        *)
LEMMA CountedText ==
  ASSUME NEW s \in Seq(Alphabet), Counted(s)
  PROVE  /\ LoneReturns(s) = {} /\ EditorBreaks(s) = ServerBreaks(s)
         /\ RopeyBreaks(s) = EditorBreaks(s)
  BY DEF Counted, RopeyBreaks, ServerBreaks, EditorBreaks, LineFeeds, LoneReturns

(* The editor finds the end of a line where the diff had it.               *)
LEMMA LinePlaces ==
  ASSUME NEW s \in Seq(Alphabet), Counted(s), NEW k \in 0 .. Len(LinesOf(s))
  PROVE  /\ Cut(s)[k] \in CursorOffsets(s) /\ LinePosition(s, k) = PositionOf(s, Cut(s)[k])
         /\ EditorOffset(s, LinePosition(s, k)) = Cut(s)[k]
<1> DEFINE b == EditorBreaks(s)
           o == Cut(s)[k]
<1>1. LoneReturns(s) = {} /\ b = ServerBreaks(s) /\ RopeyBreaks(s) = b
  BY CountedText
<1>2. LinePosition(s, k) = PositionOf(s, o)
  BY <1>1 DEF LinePosition, Cut
<1>3. Cut(s) \in [0 .. Len(LinesOf(s)) -> 0 .. Len(s)]
  BY LinesCut DEF Cuts
<1>4. o \in 0 .. Len(s) /\ (o \in b \cup {0} \/ o = Len(s))
  <2>1. CASE k \in 0 .. Cardinality(b)
    <3>1. o = StartOf(b, k)
      BY <2>1, LinesCut
    <3> QED BY <1>3, <2>1, <3>1, EditorsBreaks, BreakNumbers
  <2>2. CASE k \notin 0 .. Cardinality(b)
    BY <1>3, <2>2, LinesCut
  <2> QED BY <2>1, <2>2
<1>5. \A i \in b : s[i] = "lf"
  BY <1>1, TextBreaks
<1>6. o \in CursorOffsets(s)
  BY <1>4, <1>5 DEF CursorOffsets
<1>7. EditorOffset(s, PositionOf(s, o)) = o
  BY <1>1, <1>6, PlacesAgree
<1> QED BY <1>2, <1>6, <1>7

-----------------------------------------------------------------------------
(* A text after its characters f + 1 .. c, with no line's end among them,  *)
(* made way for what the user typed.                                       *)

After(f, c, x) == x - c + f + 2

TypedIn(s, f, c, u) ==
  /\ s \in Seq(Alphabet) /\ u \in Seq(Alphabet) /\ f \in 0 .. Len(s) /\ c \in f .. Len(s)
  /\ Len(u) = After(f, c, Len(s))
  /\ \A i \in 1 .. f : u[i] = s[i]
  /\ u[f + 1] = "u" /\ u[f + 2] = "u"
  /\ \A i \in c + 1 .. Len(s) : u[After(f, c, i)] = s[i]

LEMMA StretchElements ==
  ASSUME NEW s \in Seq(Alphabet), NEW f \in 0 .. Len(s), NEW x \in f .. Len(s)
  PROVE  /\ Between(s, f, x) \in Seq(Alphabet) /\ Len(Between(s, f, x)) = x - f
         /\ \A i \in 1 .. x - f : Between(s, f, x)[i] = s[f + i]
  BY BetweenElements

LEMMA TypingGives ==
  ASSUME NEW s \in Seq(Alphabet), NEW f \in 0 .. Len(s), NEW c \in f .. Len(s)
  PROVE  TypedIn(s, f, c, Replaced(s, f, c, Typed))
<1> DEFINE n == Len(s)
           a == Between(s, 0, f)
           z == Between(s, c, Len(s))
           start == a \o Typed
           u == start \o z
<1>1. n \in Nat /\ f \in Nat /\ c \in Nat /\ f <= c /\ c <= n
  OBVIOUS
<1>2. /\ a \in Seq(Alphabet) /\ Len(a) = f
      /\ \A i \in 1 .. f : a[i] = s[i]
  <2>1. 0 \in 0 .. n /\ f - 0 = f
    BY <1>1
  <2>2. \A i \in 1 .. f : 0 + i = i
    BY <1>1
  <2>3. /\ a \in Seq(Alphabet) /\ Len(a) = f - 0
        /\ \A i \in 1 .. f - 0 : a[i] = s[0 + i]
    BY <1>1, <2>1, StretchElements
  <2> HIDE DEF a
  <2> QED BY <2>1, <2>2, <2>3
<1>3. /\ z \in Seq(Alphabet) /\ Len(z) = n - c
      /\ \A i \in 1 .. n - c : z[i] = s[c + i]
  <2>1. c \in 0 .. n /\ n \in c .. n
    BY <1>1
  <2> QED BY <2>1, StretchElements
<1>4. Typed \in Seq(Alphabet) /\ Len(Typed) = 2 /\ Typed[1] = "u" /\ Typed[2] = "u"
  BY DEF Typed, Alphabet
<1> HIDE DEF a, z, n
<1>5. /\ start \in Seq(Alphabet) /\ Len(start) = f + 2
      /\ \A i \in 1 .. f + 2 : start[i] = IF i <= f THEN a[i] ELSE Typed[i - f]
  <2>1. start \in Seq(Alphabet) /\ Len(start) = Len(a) + Len(Typed)
    BY <1>2, <1>4, ConcatElements
  <2>2. \A i \in 1 .. Len(a) + Len(Typed) : start[i] = IF i <= Len(a) THEN a[i] ELSE Typed[i - Len(a)]
    BY <1>2, <1>4, ConcatElements
  <2> HIDE DEF start
  <2> QED BY <1>2, <1>4, <2>1, <2>2
<1> HIDE DEF start
<1>6. /\ u \in Seq(Alphabet) /\ Len(u) = f + 2 + (n - c)
      /\ \A i \in 1 .. f + 2 + (n - c) : u[i] = IF i <= f + 2 THEN start[i] ELSE z[i - (f + 2)]
  <2>1. u \in Seq(Alphabet) /\ Len(u) = Len(start) + Len(z)
    BY <1>3, <1>5, ConcatElements
  <2>2. \A i \in 1 .. Len(start) + Len(z) : u[i] = IF i <= Len(start) THEN start[i] ELSE z[i - Len(start)]
    BY <1>3, <1>5, ConcatElements
  <2> HIDE DEF u
  <2> QED BY <1>3, <1>5, <2>1, <2>2
<1>7. u = Replaced(s, f, c, Typed)
  BY DEF Replaced, start, a, z
<1> HIDE DEF u
<1>8. \A i \in 1 .. f : u[i] = s[i]
  BY <1>1, <1>2, <1>5, <1>6
<1>9. u[f + 1] = "u" /\ u[f + 2] = "u"
  <2>1. /\ f + 1 \in 1 .. f + 2 /\ f + 2 \in 1 .. f + 2 /\ ~(f + 1 <= f) /\ ~(f + 2 <= f)
        /\ f + 1 - f = 1 /\ f + 2 - f = 2
        /\ f + 1 \in 1 .. f + 2 + (n - c) /\ f + 2 \in 1 .. f + 2 + (n - c)
    BY <1>1
  <2>2. u[f + 1] = start[f + 1] /\ u[f + 2] = start[f + 2]
    BY <1>6, <2>1
  <2>3. start[f + 1] = Typed[1] /\ start[f + 2] = Typed[2]
    BY <1>5, <2>1
  <2> QED BY <1>4, <2>2, <2>3
<1>10. ASSUME NEW i \in c + 1 .. n PROVE u[After(f, c, i)] = s[i]
  <2>1. /\ After(f, c, i) \in 1 .. f + 2 + (n - c) /\ ~(After(f, c, i) <= f + 2)
        /\ After(f, c, i) - (f + 2) = i - c /\ i - c \in 1 .. n - c /\ c + (i - c) = i
    BY <1>1 DEF After
  <2> QED BY <1>3, <1>6, <2>1
<1>11. Len(u) = After(f, c, n)
  BY <1>1, <1>6 DEF After
<1> QED BY <1>6, <1>7, <1>8, <1>9, <1>10, <1>11 DEF TypedIn, n

(* What lies before it and what lies behind it.                            *)
LEMMA TypedBetween ==
  ASSUME NEW s, NEW f, NEW c, NEW u, TypedIn(s, f, c, u)
  PROVE  /\ \A x \in 0 .. f : \A y \in x .. f : Between(u, x, y) = Between(s, x, y)
         /\ \A x \in c .. Len(s) : \A y \in x .. Len(s) :
              Between(u, After(f, c, x), After(f, c, y)) = Between(s, x, y)
         /\ \A y \in c .. Len(s) : Between(u, f, After(f, c, y)) = Typed \o Between(s, c, y)
<1>1. /\ s \in Seq(Alphabet) /\ u \in Seq(Alphabet) /\ Len(s) \in Nat /\ f \in 0 .. Len(s)
      /\ c \in f .. Len(s) /\ Len(u) = Len(s) - c + f + 2
  BY DEF TypedIn, After
<1>2. ASSUME NEW x \in 0 .. f, NEW y \in x .. f PROVE Between(u, x, y) = Between(s, x, y)
  <2>1. /\ x \in 0 .. Len(s) /\ y \in x .. Len(s) /\ x \in 0 .. Len(u) /\ y \in x .. Len(u)
    BY <1>1
  <2>2. \A i \in 1 .. y - x : u[x + i] = s[x + i]
    <3>1. \A i \in 1 .. y - x : x + i \in 1 .. f
      BY <1>1
    <3> QED BY <3>1 DEF TypedIn
  <2>3. /\ Between(u, x, y) \in Seq(Alphabet) /\ Len(Between(u, x, y)) = y - x
        /\ \A i \in 1 .. y - x : Between(u, x, y)[i] = u[x + i]
    BY <1>1, <2>1, StretchElements
  <2>4. /\ Between(s, x, y) \in Seq(Alphabet) /\ Len(Between(s, x, y)) = y - x
        /\ \A i \in 1 .. y - x : Between(s, x, y)[i] = s[x + i]
    BY <1>1, <2>1, StretchElements
  <2> QED BY <2>2, <2>3, <2>4, SameElements
<1>3. ASSUME NEW x \in c .. Len(s), NEW y \in x .. Len(s)
      PROVE  Between(u, After(f, c, x), After(f, c, y)) = Between(s, x, y)
  <2> DEFINE v == After(f, c, x)
             w == After(f, c, y)
  <2>1. /\ x \in 0 .. Len(s) /\ v \in 0 .. Len(u) /\ w \in v .. Len(u) /\ w - v = y - x
    BY <1>1 DEF After
  <2>2. \A i \in 1 .. y - x : u[v + i] = s[x + i]
    <3>1. \A i \in 1 .. y - x : x + i \in c + 1 .. Len(s) /\ After(f, c, x + i) = v + i
      BY <1>1 DEF After
    <3> QED BY <3>1 DEF TypedIn
  <2> HIDE DEF v, w
  <2>3. /\ Between(u, v, w) \in Seq(Alphabet) /\ Len(Between(u, v, w)) = y - x
        /\ \A i \in 1 .. y - x : Between(u, v, w)[i] = u[v + i]
    <3>1. /\ Between(u, v, w) \in Seq(Alphabet) /\ Len(Between(u, v, w)) = w - v
          /\ \A i \in 1 .. w - v : Between(u, v, w)[i] = u[v + i]
      BY <1>1, <2>1, StretchElements
    <3> QED BY <2>1, <3>1
  <2>4. /\ Between(s, x, y) \in Seq(Alphabet) /\ Len(Between(s, x, y)) = y - x
        /\ \A i \in 1 .. y - x : Between(s, x, y)[i] = s[x + i]
    BY <1>1, <2>1, StretchElements
  <2>5. Between(u, v, w) = Between(s, x, y)
    BY <2>2, <2>3, <2>4, SameElements
  <2> QED BY <2>5 DEF v, w
<1>4. Between(u, f, f + 2) = Typed
  <2>1. f \in 0 .. Len(u) /\ f + 2 \in f .. Len(u) /\ f + 2 - f = 2
    BY <1>1
  <2>2. /\ Between(u, f, f + 2) \in Seq(Alphabet) /\ Len(Between(u, f, f + 2)) = 2
        /\ \A i \in 1 .. 2 : Between(u, f, f + 2)[i] = u[f + i]
    <3> DEFINE e == f + 2
    <3>1. e \in f .. Len(u) /\ e - f = 2
      BY <2>1
    <3> HIDE DEF e
    <3>2. /\ Between(u, f, e) \in Seq(Alphabet) /\ Len(Between(u, f, e)) = e - f
          /\ \A i \in 1 .. e - f : Between(u, f, e)[i] = u[f + i]
      BY <1>1, <2>1, <3>1, StretchElements
    <3>3. /\ Between(u, f, e) \in Seq(Alphabet) /\ Len(Between(u, f, e)) = 2
          /\ \A i \in 1 .. 2 : Between(u, f, e)[i] = u[f + i]
      BY <3>1, <3>2
    <3> QED BY <3>3 DEF e
  <2>3. \A i \in 1 .. 2 : u[f + i] = "u"
    <3>1. \A i \in 1 .. 2 : f + i = f + 1 \/ f + i = f + 2
      BY <1>1
    <3> QED BY <3>1 DEF TypedIn
  <2>4. Typed \in Seq(Alphabet) /\ Len(Typed) = 2 /\ \A i \in 1 .. 2 : Typed[i] = "u"
    BY DEF Typed, Alphabet
  <2> QED BY <2>2, <2>3, <2>4, SameElements
<1>5. ASSUME NEW y \in c .. Len(s)
      PROVE  Between(u, f, After(f, c, y)) = Typed \o Between(s, c, y)
  <2>1. /\ After(f, c, c) = f + 2 /\ c \in c .. Len(s) /\ f \in 0 .. Len(u)
        /\ f + 2 \in f .. Len(u) /\ After(f, c, y) \in f + 2 .. Len(u)
    BY <1>1 DEF After
  <2>2. Between(u, f + 2, After(f, c, y)) = Between(s, c, y)
    BY <1>3, <2>1
  <2>3. Between(u, f, f + 2) \o Between(u, f + 2, After(f, c, y)) = Between(u, f, After(f, c, y))
    BY <1>1, <2>1, BetweenJoins
  <2> QED BY <1>4, <2>2, <2>3
<1> QED BY <1>2, <1>3, <1>5

(* The same lines end at the same breaks.                                  *)
OnOneLine(s, f, c) == \A i \in f + 1 .. c : s[i] # "lf"

LEMMA TypedBreaks ==
  ASSUME NEW s, NEW f, NEW c, NEW u, TypedIn(s, f, c, u), OnOneLine(s, f, c),
         f = 0 \/ s[f] = "lf", LoneReturns(s) = {}
  PROVE  /\ LoneReturns(u) = {}
         /\ \A i : i \in ServerBreaks(u)
                     <=> \/ i \in ServerBreaks(s) /\ i <= f
                         \/ \E j \in ServerBreaks(s) : j > c /\ i = After(f, c, j)
<1>1. /\ s \in Seq(Alphabet) /\ u \in Seq(Alphabet) /\ Len(s) \in Nat /\ f \in 0 .. Len(s)
      /\ c \in f .. Len(s) /\ Len(u) = Len(s) - c + f + 2 /\ f \in Nat /\ c \in Nat
  BY DEF TypedIn, After
<1>2. /\ \A i \in 1 .. f : u[i] = s[i]
      /\ u[f + 1] = "u" /\ u[f + 2] = "u"
      /\ \A i \in c + 1 .. Len(s) : u[After(f, c, i)] = s[i]
  BY DEF TypedIn
<1>3. \A i \in 1 .. Len(u) : \/ i \in 1 .. f \/ i = f + 1 \/ i = f + 2
                             \/ \E j \in c + 1 .. Len(s) : i = After(f, c, j)
  <2> SUFFICES ASSUME NEW i \in 1 .. Len(u), i > f + 2
               PROVE  \E j \in c + 1 .. Len(s) : i = After(f, c, j)
    BY <1>1
  <2>1. i - 2 - f + c \in c + 1 .. Len(s) /\ i = After(f, c, i - 2 - f + c)
    BY <1>1 DEF After
  <2> QED BY <2>1
<1>4. \A i : i \in ServerBreaks(s) <=> i \in 1 .. Len(s) /\ s[i] = "lf"
  BY <1>1 DEF ServerBreaks, LineFeeds
<1>5. \A i : i \in ServerBreaks(u) <=> i \in 1 .. Len(u) /\ u[i] = "lf"
  BY <1>1 DEF ServerBreaks, LineFeeds
<1>6. \A j \in c + 1 .. Len(s) : After(f, c, j) \in f + 3 .. Len(u)
  BY <1>1 DEF After
<1>7. ASSUME NEW i \in ServerBreaks(u)
      PROVE  \/ i \in ServerBreaks(s) /\ i <= f
             \/ \E j \in ServerBreaks(s) : j > c /\ i = After(f, c, j)
  <2>1. i \in 1 .. Len(u) /\ u[i] = "lf"
    BY <1>5
  <2>2. CASE i \in 1 .. f
    BY <1>1, <1>2, <1>4, <2>1, <2>2
  <2>3. CASE \E j \in c + 1 .. Len(s) : i = After(f, c, j)
    <3>1. PICK j \in c + 1 .. Len(s) : i = After(f, c, j)
      BY <2>3
    <3>2. s[j] = "lf" /\ j \in 1 .. Len(s) /\ j > c
      BY <1>1, <1>2, <2>1, <3>1
    <3> QED BY <1>4, <3>1, <3>2
  <2> QED BY <1>2, <1>3, <2>1, <2>2, <2>3
<1>8. ASSUME NEW i \in ServerBreaks(s), i <= f PROVE i \in ServerBreaks(u)
  BY <1>1, <1>2, <1>4, <1>5, <1>8
<1>9. ASSUME NEW j \in ServerBreaks(s), j > c PROVE After(f, c, j) \in ServerBreaks(u)
  <2>1. j \in c + 1 .. Len(s) /\ s[j] = "lf"
    BY <1>1, <1>4, <1>9
  <2>2. After(f, c, j) \in 1 .. Len(u) /\ u[After(f, c, j)] = "lf"
    BY <1>1, <1>2, <1>6, <2>1
  <2> QED BY <1>5, <2>2
<1>10. \A i \in 1 .. Len(s) : s[i] = "cr" => i < Len(s) /\ s[i + 1] = "lf"
  BY <1>1 DEF LoneReturns
<1>11. ASSUME NEW i \in 1 .. Len(u), u[i] = "cr" PROVE i < Len(u) /\ u[i + 1] = "lf"
  <2>1. CASE i \in 1 .. f
    <3>1. s[i] = "cr" /\ i \in 1 .. Len(s) /\ f # 0
      BY <1>1, <1>2, <1>11, <2>1
    <3>2. s[i + 1] = "lf" /\ i # f /\ s[f] = "lf"
      BY <1>10, <3>1
    <3>3. i + 1 \in 1 .. f /\ i < Len(u)
      BY <1>1, <2>1, <3>2
    <3> QED BY <1>2, <3>2, <3>3
  <2>2. CASE \E j \in c + 1 .. Len(s) : i = After(f, c, j)
    <3>1. PICK j \in c + 1 .. Len(s) : i = After(f, c, j)
      BY <2>2
    <3>2. s[j] = "cr" /\ j \in 1 .. Len(s)
      BY <1>1, <1>2, <1>11, <3>1
    <3>3. j < Len(s) /\ s[j + 1] = "lf"
      BY <1>10, <3>2
    <3>4. j + 1 \in c + 1 .. Len(s) /\ After(f, c, j + 1) = i + 1 /\ i < Len(u)
      BY <1>1, <3>1, <3>3 DEF After
    <3> QED BY <1>2, <3>3, <3>4
  <2> QED BY <1>2, <1>3, <1>11, <2>1, <2>2
<1>12. LoneReturns(u) = {}
  <2>1. DOMAIN u = 1 .. Len(u)
    BY <1>1
  <2> QED BY <1>11, <2>1 DEF LoneReturns
<1> QED BY <1>7, <1>8, <1>9, <1>12

LEMMA TypedLines ==
  ASSUME NEW s, NEW f, NEW c, NEW u, TypedIn(s, f, c, u), OnOneLine(s, f, c),
         f = 0 \/ s[f] = "lf", LoneReturns(s) = {}
  PROVE  /\ \A x \in 0 .. f : LineAt(ServerBreaks(u), x) = LineAt(ServerBreaks(s), x)
         /\ \A x \in c .. Len(s) :
              LineAt(ServerBreaks(u), After(f, c, x)) = LineAt(ServerBreaks(s), x)
<1> DEFINE b == ServerBreaks(s)
           d == ServerBreaks(u)
<1>1. /\ s \in Seq(Alphabet) /\ Len(s) \in Nat /\ f \in 0 .. Len(s)
      /\ c \in f .. Len(s) /\ f \in Nat /\ c \in Nat
      /\ \A i : i \in b <=> i \in 1 .. Len(s) /\ s[i] = "lf"
  BY DEF TypedIn, ServerBreaks, LineFeeds
<1>2. \A i : i \in d <=> (i \in b /\ i <= f) \/ (\E j \in b : j > c /\ i = After(f, c, j))
  BY TypedBreaks
<1>3. \A j \in b : j \in 1 .. Len(s) /\ (j <= f \/ j > c)
  BY <1>1 DEF OnOneLine
<1>4. \A j \in Nat : After(f, c, j) = j - c + f + 2
  BY DEF After
<1>5. Breaks(b, Len(s))
  BY <1>1 DEF Breaks
<1> HIDE DEF b, d
<1>6. ASSUME NEW x \in 0 .. f PROVE LineAt(d, x) = LineAt(b, x)
  <2>1. \A i : (i \in d /\ i <= x) <=> (i \in b /\ i <= x)
    BY <1>1, <1>2, <1>3, <1>4
  <2>2. {z \in d : z <= x} = {z \in b : z <= x}
    BY <2>1
  <2> QED BY <2>2 DEF LineAt
<1>7. ASSUME NEW x \in c .. Len(s) PROVE LineAt(d, After(f, c, x)) = LineAt(b, x)
  <2> DEFINE y == After(f, c, x)
             old == {z \in b : z <= x}
             new == {z \in d : z <= y}
             g == [z \in old |-> IF z <= f THEN z ELSE After(f, c, z)]
  <2>1. y = x - c + f + 2 /\ x \in Nat
    BY <1>1, <1>4
  <2>2. \A z \in old : z \in b /\ z \in 1 .. Len(s) /\ z <= x /\ (z <= f \/ z > c)
    BY <1>3
  <2>3. \A z \in old : g[z] \in new /\ (z <= f => g[z] = z) /\ (z > c => g[z] = z - c + f + 2)
    <3> SUFFICES ASSUME NEW z \in old
                 PROVE  g[z] \in new /\ (z <= f => g[z] = z) /\ (z > c => g[z] = z - c + f + 2)
      OBVIOUS
    <3>1. CASE z <= f
      <4>1. g[z] = z /\ z \in d /\ z <= y /\ ~(z > c)
        BY <1>1, <1>2, <2>1, <2>2, <3>1
      <4> QED BY <4>1
    <3>2. CASE ~(z <= f)
      <4>1. z > c /\ z \in b /\ g[z] = After(f, c, z) /\ After(f, c, z) = z - c + f + 2
        BY <1>4, <2>2, <3>2
      <4>2. After(f, c, z) \in d
        BY <1>2, <4>1
      <4>3. After(f, c, z) <= y
        BY <1>1, <2>1, <2>2, <4>1
      <4> QED BY <3>2, <4>1, <4>2, <4>3
    <3> QED BY <3>1, <3>2
  <2>4. \A w, z \in old : g[w] = g[z] => w = z
    <3> HIDE DEF g
    <3> QED BY <1>1, <2>2, <2>3
  <2>5. \A z \in new : \E w \in old : g[w] = z
    <3> SUFFICES ASSUME NEW z \in new PROVE \E w \in old : g[w] = z
      OBVIOUS
    <3>1. z \in d /\ z <= y
      OBVIOUS
    <3>2. CASE z \in b /\ z <= f
      <4>1. z \in old
        BY <1>1, <1>3, <3>2
      <4> HIDE DEF g, old
      <4> QED BY <2>3, <3>2, <4>1
    <3>3. CASE \E j \in b : j > c /\ z = After(f, c, j)
      <4>1. PICK j \in b : j > c /\ z = After(f, c, j)
        BY <3>3
      <4>2. j \in Nat /\ z = j - c + f + 2
        BY <1>3, <1>4, <4>1
      <4>3. j <= x
        BY <1>1, <2>1, <3>1, <4>2
      <4>4. j \in old
        BY <4>1, <4>3
      <4> HIDE DEF g, old
      <4> QED BY <2>3, <4>1, <4>2, <4>4
    <3> QED BY <1>2, <3>1, <3>2, <3>3
  <2>6. g \in [old -> new]
    BY <2>3
  <2>7. IsFiniteSet(old)
    <3>1. old \in SUBSET b
      OBVIOUS
    <3> HIDE DEF old
    <3> QED BY <1>5, <3>1, BreaksFinite, FS_Subset
  <2> HIDE DEF g, old, new
  <2>8. g \in Bijection(old, new)
    BY <2>4, <2>5, <2>6 DEF Bijection, Injection, Surjection, IsInjective
  <2>9. Cardinality(new) = Cardinality(old)
    <3>1. ExistsBijection(old, new)
      BY <2>8 DEF ExistsBijection
    <3> QED BY <2>7, <3>1, FS_Bijection
  <2> QED BY <2>9 DEF LineAt, old, new
<1> QED BY <1>6, <1>7 DEF b, d

LEMMA Ascending ==
  ASSUME NEW m \in Nat, NEW n \in Nat, NEW g \in [0 .. m -> 0 .. n],
         \A k \in 1 .. m : g[k - 1] <= g[k]
  PROVE  \A x, y \in 0 .. m : x <= y => g[x] <= g[y]
<1> SUFFICES ASSUME NEW x \in 0 .. m
             PROVE  \A y \in 0 .. m : x <= y => g[x] <= g[y]
  OBVIOUS
<1> DEFINE low == {y \in 0 .. m : x <= y /\ ~(g[x] <= g[y])}
<1> SUFFICES ASSUME low # {} PROVE FALSE
  OBVIOUS
<1>1. PICK y \in low : \A z \in low : y <= z
  <2>1. \A z \in low : z \in Nat
    OBVIOUS
  <2> HIDE DEF low
  <2> QED BY <2>1, LeastOf
<1>2. /\ y \in 0 .. m /\ x <= y /\ ~(g[x] <= g[y]) /\ g[x] \in 0 .. n /\ g[y] \in 0 .. n
  OBVIOUS
<1>3. y # x
  BY <1>2
<1>4. y - 1 \in 0 .. m /\ x <= y - 1 /\ ~(y <= y - 1) /\ y \in 1 .. m
  BY <1>2, <1>3
<1>5. y - 1 \notin low
  BY <1>1, <1>4
<1>6. g[x] <= g[y - 1] /\ g[y - 1] <= g[y] /\ g[y - 1] \in 0 .. n
  BY <1>4, <1>5
<1> QED BY <1>2, <1>6

(* The end of what the user types over: of line K, without its break.      *)
Contents(s, b, f, t) ==
  IF t \notin b THEN t
  ELSE IF t - 1 > f /\ s[t - 1] = "cr" /\ s[t] = "lf" THEN t - 2 ELSE t - 1

LEMMA LineContents ==
  ASSUME NEW s \in Seq(Alphabet), Counted(s), NEW K \in 1 .. Len(LinesOf(s)),
         NEW f, f = Cut(s)[K - 1], NEW t, t = Cut(s)[K],
         NEW c, c = Contents(s, EditorBreaks(s), f, t)
  PROVE  /\ f \in 0 .. Len(s) /\ c \in f .. Len(s) /\ t \in c .. Len(s)
         /\ OnOneLine(s, f, c) /\ (f = 0 \/ s[f] = "lf")
         /\ K \in 0 .. Cardinality(EditorBreaks(s)) => s[t] = "lf" /\ t > f
<1> DEFINE b == EditorBreaks(s)
           m == Len(LinesOf(s))
<1>1. b = ServerBreaks(s) /\ Breaks(b, Len(s)) /\ Len(s) \in Nat
  BY CountedText, EditorsBreaks
<1>2. \A i : i \in b <=> i \in 1 .. Len(s) /\ s[i] = "lf"
  BY <1>1, CountedText, TextBreaks
<1>3. m \in Nat /\ K - 1 \in 0 .. Cardinality(b) /\ K - 1 \in 0 .. m /\ K \in 0 .. m
      /\ f = StartOf(b, K - 1) /\ t = EndOf(s, b, K - 1)
  BY LineEndsAtCut, LinesCounted
<1>4. f \in 0 .. Len(s) /\ t \in 0 .. Len(s) /\ f < t
  <2>1. /\ Cut(s) \in [0 .. m -> 0 .. Len(s)]
        /\ \A k \in 1 .. m : Cut(s)[k - 1] < Cut(s)[k]
    BY LinesCut DEF Cuts
  <2> HIDE DEF m
  <2>2. K \in 1 .. m
    BY DEF m
  <2> QED BY <1>3, <2>1, <2>2
<1>5. f \in b \cup {0} /\ LineAt(b, f) = K - 1
  BY <1>1, <1>3, BreakNumbers
<1>6. \/ t \in b /\ \A z \in b : z > f => z >= t
      \/ t = Len(s) /\ \A z \in b : z <= f
  <2>1. f \in 0 .. Len(s) /\ EndOf(s, b, LineAt(b, f)) = t
    BY <1>3, <1>4, <1>5
  <2> QED BY <1>1, <2>1, LineEnds
<1>7. K \in 0 .. Cardinality(b) => t \in b
  <2> SUFFICES ASSUME K \in 0 .. Cardinality(b) PROVE t \in b
    OBVIOUS
  <2>1. t = StartOf(b, K)
    BY LinesCut
  <2>2. t \in b \cup {0}
    BY <1>1, <2>1, BreakNumbers
  <2> QED BY <1>4, <2>2
<1>8. c = IF t \notin b THEN t
          ELSE IF t - 1 > f /\ s[t - 1] = "cr" /\ s[t] = "lf" THEN t - 2 ELSE t - 1
  BY DEF Contents
<1> HIDE DEF b, m
<1>9. /\ c \in f .. Len(s) /\ t \in c .. Len(s)
      /\ t \in b => c < t
      /\ t \notin b => c = t
  <2>1. /\ t \notin b => c = t
        /\ t \in b => c = t - 1 \/ (c = t - 2 /\ t - 1 > f)
    BY <1>8
  <2> QED BY <1>1, <1>4, <2>1
<1>10. OnOneLine(s, f, c)
  <2> SUFFICES ASSUME NEW i \in f + 1 .. c, s[i] = "lf" PROVE FALSE
    BY DEF OnOneLine
  <2>1. i \in b /\ i > f /\ i <= c
    BY <1>1, <1>2, <1>4, <1>9
  <2> QED BY <1>4, <1>6, <1>9, <2>1
<1>11. f = 0 \/ s[f] = "lf"
  BY <1>2, <1>5
<1>12. K \in 0 .. Cardinality(b) => s[t] = "lf" /\ t > f
  BY <1>2, <1>4, <1>7
<1> QED BY <1>4, <1>9, <1>10, <1>11, <1>12 DEF b

(* The lines' ends after what the user typed.                              *)
TypedCut(s, K, f, c) ==
  [k \in 0 .. Len(LinesOf(s)) |-> IF k < K THEN Cut(s)[k] ELSE After(f, c, Cut(s)[k])]

\* u is s with line K, from f to t, typed over.
TypedOver(s, K, f, t, c, u) ==
  /\ s \in Seq(Alphabet) /\ Counted(s) /\ K \in 1 .. Len(LinesOf(s))
  /\ f = Cut(s)[K - 1] /\ t = Cut(s)[K] /\ c = Contents(s, EditorBreaks(s), f, t)
  /\ u = Replaced(s, f, c, Typed)

LEMMA TypedCuts ==
  ASSUME NEW s, NEW K, NEW f, NEW t, NEW c, NEW u, TypedOver(s, K, f, t, c, u)
  PROVE  /\ s \in Seq(Alphabet) /\ Counted(s) /\ TypedIn(s, f, c, u) /\ OnOneLine(s, f, c)
         /\ (f = 0 \/ s[f] = "lf") /\ t \in c .. Len(s)
         /\ TypedCut(s, K, f, c) \in [0 .. Len(LinesOf(s)) -> 0 .. Len(u)]
         /\ \A k \in 0 .. Len(LinesOf(s)) :
              /\ k < K => Cut(s)[k] \in 0 .. f /\ TypedCut(s, K, f, c)[k] = Cut(s)[k]
              /\ k >= K => /\ Cut(s)[k] \in c .. Len(s)
                           /\ TypedCut(s, K, f, c)[k] = After(f, c, Cut(s)[k])
<1> DEFINE m == Len(LinesOf(s))
           cut == Cut(s)
           new == TypedCut(s, K, f, c)
<1>1. /\ s \in Seq(Alphabet) /\ Counted(s) /\ K \in 1 .. m
      /\ f = cut[K - 1] /\ t = cut[K] /\ c = Contents(s, EditorBreaks(s), f, t)
      /\ u = Replaced(s, f, c, Typed)
  BY DEF TypedOver
<1>2. /\ f \in 0 .. Len(s) /\ c \in f .. Len(s) /\ t \in c .. Len(s)
      /\ OnOneLine(s, f, c) /\ (f = 0 \/ s[f] = "lf")
  BY <1>1, LineContents
<1>3. TypedIn(s, f, c, u)
  BY <1>1, <1>2, TypingGives
<1>4. /\ m \in Nat /\ Len(s) \in Nat /\ cut \in [0 .. m -> 0 .. Len(s)]
      /\ \A k \in 1 .. m : cut[k - 1] < cut[k]
  BY <1>1, LinesCut, LinesCounted DEF Cuts
<1>5. Len(u) = After(f, c, Len(s))
  BY <1>3 DEF TypedIn
<1> HIDE DEF m, cut
<1>6. \A x, y \in 0 .. m : x <= y => cut[x] <= cut[y]
  <2>1. \A k \in 1 .. m : cut[k - 1] <= cut[k]
    <3>1. \A k \in 1 .. m : k - 1 \in 0 .. m /\ k \in 0 .. m
      BY <1>4
    <3>2. \A k \in 0 .. m : cut[k] \in Nat
      BY <1>4
    <3> QED BY <1>4, <3>1, <3>2
  <2> QED BY <1>4, <2>1, Ascending
<1>7. ASSUME NEW k \in 0 .. m
      PROVE  /\ k < K => cut[k] \in 0 .. f
             /\ k >= K => cut[k] \in c .. Len(s)
  <2>1. K - 1 \in 0 .. m /\ K \in 0 .. m /\ (k < K => k <= K - 1) /\ cut[k] \in 0 .. Len(s)
    BY <1>1, <1>4
  <2>2. k < K => cut[k] <= f
    BY <1>1, <1>6, <2>1
  <2>3. k >= K => t <= cut[k]
    BY <1>1, <1>6, <2>1
  <2> QED BY <1>2, <1>4, <2>1, <2>2, <2>3
<1>8. new = [k \in 0 .. m |-> IF k < K THEN cut[k] ELSE After(f, c, cut[k])]
  BY DEF TypedCut, m, cut
<1>9. \A k \in 0 .. m : new[k] = IF k < K THEN cut[k] ELSE After(f, c, cut[k])
  BY <1>8
<1>10. \A k \in 0 .. m : new[k] \in 0 .. Len(u)
  <2> SUFFICES ASSUME NEW k \in 0 .. m PROVE new[k] \in 0 .. Len(u)
    OBVIOUS
  <2> HIDE DEF new
  <2>1. CASE k < K
    <3>1. cut[k] \in 0 .. f /\ new[k] = cut[k] /\ Len(u) = Len(s) - c + f + 2
      BY <1>5, <1>7, <1>9, <2>1 DEF After
    <3> QED BY <1>2, <1>4, <3>1
  <2>2. CASE k >= K
    <3>1. cut[k] \in c .. Len(s) /\ new[k] = cut[k] - c + f + 2 /\ Len(u) = Len(s) - c + f + 2
      BY <1>1, <1>4, <1>5, <1>7, <1>9, <2>2 DEF After
    <3> QED BY <1>2, <1>4, <3>1
  <2> QED BY <1>1, <1>4, <2>1, <2>2
<1>11. new \in [0 .. m -> 0 .. Len(u)]
  BY <1>8, <1>10
<1> HIDE DEF new
<1>12. \A k \in 0 .. m : /\ k < K => new[k] = cut[k]
                         /\ k >= K => new[k] = After(f, c, cut[k])
  BY <1>1, <1>4, <1>9
<1> QED BY <1>1, <1>2, <1>3, <1>7, <1>11, <1>12 DEF m, cut, new

(* The other lines are as they were.                                       *)
LEMMA TypedPieces ==
  ASSUME NEW s, NEW K, NEW f, NEW t, NEW c, NEW u, TypedOver(s, K, f, t, c, u),
         NEW k \in 1 .. Len(LinesOf(s))
  PROVE  /\ TypedCut(s, K, f, c)[k - 1] <= TypedCut(s, K, f, c)[k]
         /\ Between(u, TypedCut(s, K, f, c)[k - 1], TypedCut(s, K, f, c)[k])
              = IF k = K THEN Typed \o Between(s, c, t) ELSE LinesOf(s)[k]
<1> DEFINE m == Len(LinesOf(s))
           cut == Cut(s)
           new == TypedCut(s, K, f, c)
<1>1. /\ K \in 1 .. m /\ f = cut[K - 1] /\ t = cut[K] /\ s \in Seq(Alphabet)
  BY DEF TypedOver
<1>2. /\ TypedIn(s, f, c, u) /\ t \in c .. Len(s)
      /\ \A i \in 0 .. m : /\ i < K => cut[i] \in 0 .. f /\ new[i] = cut[i]
                           /\ i >= K => cut[i] \in c .. Len(s) /\ new[i] = After(f, c, cut[i])
  BY TypedCuts
<1>3. /\ \A x \in 0 .. f : \A y \in x .. f : Between(u, x, y) = Between(s, x, y)
      /\ \A x \in c .. Len(s) : \A y \in x .. Len(s) :
           Between(u, After(f, c, x), After(f, c, y)) = Between(s, x, y)
      /\ \A y \in c .. Len(s) : Between(u, f, After(f, c, y)) = Typed \o Between(s, c, y)
  BY <1>2, TypedBetween
<1>4. m \in Nat /\ Len(s) \in Nat /\ f \in 0 .. Len(s) /\ c \in f .. Len(s)
  BY <1>1, <1>2, LinesCounted DEF TypedIn
<1>5. cut[k - 1] < cut[k] /\ LinesOf(s)[k] = Between(s, cut[k - 1], cut[k])
  BY <1>1, LinesCut DEF Cuts
<1>6. k \in 1 .. m /\ k - 1 \in 0 .. m /\ k \in 0 .. m
  BY <1>4
<1> HIDE DEF m, cut, new
<1>7. CASE k < K
  <2>1. /\ cut[k - 1] \in 0 .. f /\ cut[k] \in cut[k - 1] .. f
        /\ new[k - 1] = cut[k - 1] /\ new[k] = cut[k]
    BY <1>1, <1>2, <1>4, <1>5, <1>6, <1>7
  <2>2. k # K /\ cut[k - 1] <= cut[k]
    BY <1>1, <1>4, <1>7, <2>1
  <2> QED BY <1>3, <1>5, <2>1, <2>2 DEF m, cut, new
<1>8. CASE k = K
  <2>1. k - 1 < K /\ k >= K
    BY <1>1, <1>4, <1>8
  <2>2. new[k - 1] = f /\ new[k] = After(f, c, t)
    BY <1>1, <1>2, <1>6, <1>8, <2>1
  <2>3. f <= After(f, c, t)
    BY <1>2, <1>4 DEF After
  <2> QED BY <1>2, <1>3, <1>8, <2>2, <2>3 DEF m, cut, new
<1>9. CASE k > K
  <2>1. k - 1 >= K /\ k >= K /\ k # K
    BY <1>1, <1>4, <1>6, <1>9
  <2>2. /\ cut[k - 1] \in c .. Len(s) /\ cut[k] \in c .. Len(s)
        /\ new[k - 1] = After(f, c, cut[k - 1]) /\ new[k] = After(f, c, cut[k])
    BY <1>2, <1>6, <2>1
  <2>3. cut[k] \in cut[k - 1] .. Len(s) /\ new[k - 1] <= new[k]
    BY <1>4, <1>5, <2>2 DEF After
  <2>4. Between(u, new[k - 1], new[k]) = Between(s, cut[k - 1], cut[k])
    BY <1>3, <2>2, <2>3
  <2> QED BY <1>5, <2>1, <2>3, <2>4 DEF m, cut, new
<1> QED BY <1>1, <1>4, <1>7, <1>8, <1>9

(* The position of a break is the beginning of a line.                     *)
LEMMA PositionAtBreak ==
  ASSUME NEW s \in Seq(Alphabet), NEW o \in ServerBreaks(s) \cup {0}, NEW k,
         LineAt(ServerBreaks(s), o) = k
  PROVE  /\ StartOf(ServerBreaks(s), k) = o
         /\ PositionOf(s, o) = [line |-> k, character |-> Width(<<>>)]
<1> DEFINE b == ServerBreaks(s)
<1>1. Breaks(b, Len(s)) /\ Len(s) \in Nat
  BY DEF Breaks, ServerBreaks, LineFeeds
<1>2. o \in 0 .. Len(s)
  BY <1>1 DEF Breaks
<1>3. StartOf(b, k) \in 0 .. o /\ (o \in b => o <= StartOf(b, k))
  BY <1>1, <1>2, LineBegins
<1> HIDE DEF b
<1>4. StartOf(b, k) = o
  <2>1. CASE o \in b
    BY <1>2, <1>3, <2>1
  <2>2. CASE o = 0
    BY <1>3, <2>2
  <2> QED BY <2>1, <2>2 DEF b
<1>5. Between(s, o, o) = <<>>
  BY <1>2, NothingBetween
<1> QED BY <1>4, <1>5 DEF PositionOf, b

(* The editor finds the lines' ends in the text typed in where the server  *)
(* had them, up to the end of a line without a break that was itself typed *)
(* over.                                                                   *)
LEMMA TypedPlaces ==
  ASSUME NEW s, NEW K, NEW f, NEW t, NEW c, NEW u, TypedOver(s, K, f, t, c, u),
         NEW k \in 0 .. Len(LinesOf(s)), k \in 0 .. Cardinality(EditorBreaks(s)) \/ K < k
  PROVE  EditorOffset(u, LinePosition(s, k)) = TypedCut(s, K, f, c)[k]
<1> DEFINE m == Len(LinesOf(s))
           cut == Cut(s)
           new == TypedCut(s, K, f, c)
           b == ServerBreaks(s)
           d == ServerBreaks(u)
<1>1. /\ K \in 1 .. m /\ f = cut[K - 1] /\ t = cut[K] /\ s \in Seq(Alphabet) /\ Counted(s)
  BY DEF TypedOver
<1>2. /\ TypedIn(s, f, c, u) /\ OnOneLine(s, f, c) /\ (f = 0 \/ s[f] = "lf")
      /\ new \in [0 .. m -> 0 .. Len(u)]
      /\ \A i \in 0 .. m : /\ i < K => cut[i] \in 0 .. f /\ new[i] = cut[i]
                           /\ i >= K => cut[i] \in c .. Len(s) /\ new[i] = After(f, c, cut[i])
  BY TypedCuts
<1>3. /\ LoneReturns(s) = {} /\ EditorBreaks(s) = b
      /\ m \in Nat /\ Len(s) \in Nat /\ Cardinality(b) \in Nat
      /\ f \in 0 .. Len(s) /\ c \in f .. Len(s) /\ u \in Seq(Alphabet) /\ Len(u) = After(f, c, Len(s))
      /\ m <= Cardinality(b) + 1
  <2>1. LoneReturns(s) = {} /\ EditorBreaks(s) = b
    BY <1>1, CountedText
  <2>2. m \in Nat /\ Cardinality(b) \in Nat /\ m <= Cardinality(b) + 1
    BY <1>1, <2>1, LinesCounted
  <2>3. /\ Len(s) \in Nat /\ f \in 0 .. Len(s) /\ c \in f .. Len(s) /\ u \in Seq(Alphabet)
        /\ Len(u) = After(f, c, Len(s))
    BY <1>2 DEF TypedIn
  <2> QED BY <2>1, <2>2, <2>3
<1>4. LoneReturns(u) = {}
  BY <1>2, <1>3, TypedBreaks
<1>5. \A i \in 0 .. m : LineAt(d, new[i]) = LineAt(b, cut[i])
  <2>1. /\ \A x \in 0 .. f : LineAt(d, x) = LineAt(b, x)
        /\ \A x \in c .. Len(s) : LineAt(d, After(f, c, x)) = LineAt(b, x)
    BY <1>2, <1>3, TypedLines
  <2> SUFFICES ASSUME NEW i \in 0 .. m PROVE LineAt(d, new[i]) = LineAt(b, cut[i])
    OBVIOUS
  <2>2. i < K \/ i >= K
    BY <1>1, <1>3
  <2> HIDE DEF m, cut, new, b, d
  <2> QED BY <1>2, <2>1, <2>2
<1>6. \A i \in 0 .. Cardinality(b) : /\ i \in 0 .. m /\ cut[i] \in b \cup {0}
                                     /\ LineAt(b, cut[i]) = i
  <2> SUFFICES ASSUME NEW i \in 0 .. Cardinality(b)
               PROVE  i \in 0 .. m /\ cut[i] \in b \cup {0} /\ LineAt(b, cut[i]) = i
    OBVIOUS
  <2>1. i \in 0 .. m /\ cut[i] = StartOf(b, i) /\ LineAt(b, cut[i]) = i
    BY <1>1, <1>3, LinesCut
  <2>2. Breaks(b, Len(s))
    BY <1>1, <1>3, EditorsBreaks
  <2> QED BY <2>1, <2>2, BreakNumbers
<1>7. ASSUME NEW i \in 0 .. Cardinality(b) PROVE new[i] \in d \cup {0} /\ LineAt(d, new[i]) = i
  <2>1. i \in 0 .. m /\ cut[i] \in b \cup {0} /\ LineAt(d, new[i]) = i
    BY <1>5, <1>6
  <2>2. \A j : j \in d <=> \/ j \in b /\ j <= f
                           \/ \E z \in b : z > c /\ j = After(f, c, z)
    BY <1>2, <1>3, TypedBreaks
  <2>3. \A z \in b : z \in 1 .. Len(s) /\ ~(z > f /\ z <= c)
    BY <1>1, <1>2, <1>3 DEF OnOneLine, ServerBreaks, LineFeeds
  <2>4. K \in 0 .. Cardinality(b) => t > c
    <3>1. K \in 0 .. Cardinality(b) => t \in b /\ t > f
      <4> SUFFICES ASSUME K \in 0 .. Cardinality(b) PROVE t \in b /\ t > f
        OBVIOUS
      <4>1. t \in b \cup {0}
        BY <1>1, <1>6
      <4>2. cut[K - 1] < cut[K]
        BY <1>1, LinesCut
      <4> QED BY <1>1, <1>3, <4>1, <4>2
    <3> HIDE DEF b
    <3> QED BY <1>3, <2>3, <3>1
  <2>5. \A x, y \in 0 .. m : x <= y => cut[x] <= cut[y]
    <3>1. cut \in [0 .. m -> 0 .. Len(s)] /\ \A z \in 1 .. m : cut[z - 1] < cut[z]
      BY <1>1, LinesCut DEF Cuts
    <3> HIDE DEF cut, m
    <3>2. \A z \in 1 .. m : cut[z - 1] <= cut[z]
      <4>1. \A z \in 1 .. m : z - 1 \in 0 .. m /\ z \in 0 .. m
        BY <1>3
      <4>2. \A z \in 0 .. m : cut[z] \in Nat
        BY <1>3, <3>1
      <4> QED BY <3>1, <4>1, <4>2
    <3> QED BY <1>3, <3>1, <3>2, Ascending
  <2> HIDE DEF m, cut, new, b, d
  <2>6. CASE i < K
    <3>1. cut[i] \in 0 .. f /\ new[i] = cut[i]
      BY <1>2, <2>1, <2>6
    <3> QED BY <2>1, <2>2, <3>1
  <2>7. CASE i >= K
    <3>1. cut[i] \in c .. Len(s) /\ new[i] = After(f, c, cut[i]) /\ K \in 0 .. Cardinality(b) /\ K \in 0 .. m
      BY <1>1, <1>2, <1>3, <2>1, <2>7
    <3>2. t <= cut[i] /\ t > c
      BY <1>1, <2>1, <2>4, <2>5, <2>7, <3>1
    <3>3. cut[i] > c /\ cut[i] # 0
      <4>1. t \in c .. Len(s)
        BY <1>1, <1>2, <3>1
      <4> QED BY <1>3, <3>1, <3>2, <4>1
    <3> QED BY <2>1, <2>2, <3>1, <3>3
  <2> QED BY <1>1, <1>3, <2>6, <2>7
<1>8. PositionOf(s, cut[k]) = PositionOf(u, new[k])
  <2>1. CASE k \in 0 .. Cardinality(b)
    <3>1. cut[k] \in b \cup {0} /\ LineAt(b, cut[k]) = k
      BY <1>6, <2>1
    <3>2. new[k] \in d \cup {0} /\ LineAt(d, new[k]) = k
      BY <1>7, <2>1
    <3> QED BY <1>1, <1>3, <3>1, <3>2, PositionAtBreak
  <2>2. CASE k \notin 0 .. Cardinality(b)
    <3> DEFINE l == Cardinality(b)
    <3>1. K < k /\ cut[k] = Len(s) /\ k = l + 1 /\ l >= K /\ k >= K /\ l \in 0 .. l
      <4>1. K < k /\ cut[k] = Len(s)
        BY <1>1, <1>3, <2>2, LinesCut
      <4>2. k \in 0 .. m /\ K \in 1 .. m
        BY <1>1
      <4> HIDE DEF m, cut, b
      <4> QED BY <1>3, <2>2, <4>1, <4>2
    <3>2. new[k] = After(f, c, Len(s))
      BY <1>2, <3>1
    <3>3. LineAt(b, Len(s)) = l
      <4>1. Breaks(b, Len(s)) /\ Len(s) \in 0 .. Len(s) /\ \A z \in b : z <= Len(s)
        BY <1>1, <1>3, EditorsBreaks DEF Breaks
      <4> QED BY <4>1, CountUpTo
    <3>4. LineAt(d, new[k]) = l
      BY <1>5, <3>1, <3>3
    <3>5. /\ cut[l] \in b \cup {0} /\ LineAt(b, cut[l]) = l /\ l \in 0 .. m
          /\ new[l] \in d \cup {0} /\ LineAt(d, new[l]) = l
      BY <1>6, <1>7, <3>1
    <3>6. StartOf(b, l) = cut[l] /\ StartOf(d, l) = new[l]
      BY <1>1, <1>3, <3>5, PositionAtBreak
    <3>7. cut[l] \in c .. Len(s) /\ new[l] = After(f, c, cut[l])
      BY <1>2, <3>1, <3>5
    <3>8. Len(s) \in cut[l] .. Len(s)
      BY <1>3, <3>7
    <3>9. Between(u, new[l], new[k]) = Between(s, cut[l], cut[k])
      BY <1>2, <3>1, <3>2, <3>7, <3>8, TypedBetween
    <3>10. PositionOf(s, cut[k]) = [line |-> l, character |-> Width(Between(s, cut[l], cut[k]))]
      BY <3>1, <3>3, <3>6 DEF PositionOf
    <3>11. PositionOf(u, new[k]) = [line |-> l, character |-> Width(Between(u, new[l], new[k]))]
      BY <3>4, <3>6 DEF PositionOf
    <3> QED BY <3>9, <3>10, <3>11
  <2> QED BY <2>1, <2>2
<1>9. new[k] \in CursorOffsets(u)
  <2>1. new[k] \in 0 .. Len(u)
    BY <1>2
  <2>2. new[k] \in d \cup {0} \/ new[k] = Len(u)
    <3>1. CASE k \in 0 .. Cardinality(b)
      BY <1>7, <3>1
    <3>2. CASE k \notin 0 .. Cardinality(b)
      <4>1. k >= K /\ cut[k] = Len(s)
        BY <1>1, <1>3, <3>2, LinesCut
      <4> QED BY <1>2, <1>3, <4>1
    <3> QED BY <3>1, <3>2
  <2>3. \A z \in d : u[z] = "lf"
    BY DEF ServerBreaks, LineFeeds
  <2> HIDE DEF new, d
  <2> QED BY <2>1, <2>2, <2>3 DEF CursorOffsets
<1>10. EditorOffset(u, PositionOf(u, new[k])) = new[k]
  BY <1>3, <1>4, <1>9, PlacesAgree
<1>11. LinePosition(s, k) = PositionOf(s, cut[k])
  BY <1>1, LinePlaces
<1> QED BY <1>8, <1>10, <1>11

-----------------------------------------------------------------------------
(* The paired lines of two texts of m and n lines, and what lies between.  *)

Paired(m, n, pairs) ==
  m \in Nat /\ n \in Nat /\ pairs \subseteq (1 .. m) \X (1 .. n) /\ InOrder(pairs)

Ends(m, n, pairs) == pairs \cup {<<0, 0>>, <<m + 1, n + 1>>}

Next1(ends, p) == CHOOSE q \in ends : q[1] > p[1] /\ \A r \in ends : r[1] > p[1] => q[1] <= r[1]

Gaps(m, ends) ==
  {p \in ends : p[1] <= m /\ (Next1(ends, p)[1] > p[1] + 1 \/ Next1(ends, p)[2] > p[2] + 1)}

LEMMA EndsAscend ==
  ASSUME NEW m, NEW n, NEW pairs, Paired(m, n, pairs), NEW ends, ends = Ends(m, n, pairs)
  PROVE  /\ \A p \in ends : /\ p[1] \in 0 .. m + 1 /\ p[2] \in 0 .. n + 1 /\ p = <<p[1], p[2]>>
                            /\ p[1] = 0 <=> p = <<0, 0>>
                            /\ p[1] > m <=> p = <<m + 1, n + 1>>
                            /\ p[1] \in 1 .. m => p \in pairs /\ p[2] \in 1 .. n
         /\ \A p, q \in ends : (p[1] < q[1] <=> p[2] < q[2]) /\ (p[1] = q[1] => p = q)
<1>1. /\ m \in Nat /\ n \in Nat /\ \A p \in pairs : p[1] \in 1 .. m /\ p[2] \in 1 .. n /\ p = <<p[1], p[2]>>
      /\ \A p, q \in pairs : p # q => (p[1] < q[1] <=> p[2] < q[2]) /\ p[1] # q[1]
  BY DEF Paired, InOrder
<1>2. \A p : p \in ends <=> p \in pairs \/ p = <<0, 0>> \/ p = <<m + 1, n + 1>>
  BY DEF Ends
<1>3. \A p \in ends : /\ p[1] \in 0 .. m + 1 /\ p[2] \in 0 .. n + 1 /\ p = <<p[1], p[2]>>
                      /\ p[1] = 0 <=> p = <<0, 0>>
                      /\ p[1] > m <=> p = <<m + 1, n + 1>>
                      /\ p[1] \in 1 .. m => p \in pairs /\ p[2] \in 1 .. n
  <2> SUFFICES ASSUME NEW p \in ends
               PROVE  /\ p[1] \in 0 .. m + 1 /\ p[2] \in 0 .. n + 1 /\ p = <<p[1], p[2]>>
                      /\ p[1] = 0 <=> p = <<0, 0>>
                      /\ p[1] > m <=> p = <<m + 1, n + 1>>
                      /\ p[1] \in 1 .. m => p \in pairs /\ p[2] \in 1 .. n
    OBVIOUS
  <2>1. CASE p \in pairs
    BY <1>1, <2>1
  <2>2. CASE p = <<0, 0>>
    BY <1>1, <2>2
  <2>3. CASE p = <<m + 1, n + 1>>
    BY <1>1, <2>3
  <2> QED BY <1>2, <2>1, <2>2, <2>3
<1>4. ASSUME NEW p \in ends, NEW q \in ends
      PROVE  (p[1] < q[1] <=> p[2] < q[2]) /\ (p[1] = q[1] => p = q)
  <2>1. CASE p \in pairs /\ q \in pairs
    <3>1. CASE p = q
      BY <1>1, <2>1, <3>1
    <3>2. CASE p # q
      BY <1>1, <2>1, <3>2
    <3> QED BY <3>1, <3>2
  <2>2. CASE p = <<0, 0>>
    BY <1>1, <1>2, <2>2
  <2>3. CASE q = <<0, 0>>
    BY <1>1, <1>2, <2>3
  <2>4. CASE p = <<m + 1, n + 1>>
    BY <1>1, <1>2, <2>4
  <2>5. CASE q = <<m + 1, n + 1>>
    BY <1>1, <1>2, <2>5
  <2> QED BY <1>2, <2>1, <2>2, <2>3, <2>4, <2>5
<1> QED BY <1>3, <1>4

LEMMA NextEnd ==
  ASSUME NEW m, NEW n, NEW pairs, Paired(m, n, pairs), NEW ends, ends = Ends(m, n, pairs),
         NEW p \in ends, p[1] <= m
  PROVE  /\ Next1(ends, p) \in ends /\ Next1(ends, p)[1] > p[1] /\ Next1(ends, p)[2] > p[2]
         /\ \A r \in ends : r[1] > p[1] => Next1(ends, p)[1] <= r[1]
         /\ p \notin Gaps(m, ends) => Next1(ends, p) = <<p[1] + 1, p[2] + 1>>
<1> DEFINE later == {q[1] : q \in {r \in ends : r[1] > p[1]}}
<1>1. /\ \A q \in ends : q[1] \in 0 .. m + 1 /\ q[2] \in 0 .. n + 1 /\ q = <<q[1], q[2]>>
      /\ \A q, r \in ends : (q[1] < r[1] <=> q[2] < r[2])
      /\ m \in Nat /\ n \in Nat
  BY EndsAscend DEF Paired
<1>2. \E q \in ends : q[1] > p[1] /\ \A r \in ends : r[1] > p[1] => q[1] <= r[1]
  <2>1. \A x \in later : x \in Nat
    BY <1>1
  <2>2. later # {}
    <3>1. <<m + 1, n + 1>> \in ends /\ <<m + 1, n + 1>>[1] > p[1]
      BY <1>1 DEF Ends
    <3> QED BY <3>1
  <2>3. PICK x \in later : \A y \in later : x <= y
    <3> HIDE DEF later
    <3> QED BY <2>1, <2>2, LeastOf
  <2>4. PICK q \in ends : q[1] > p[1] /\ x = q[1]
    OBVIOUS
  <2>5. \A r \in ends : r[1] > p[1] => r[1] \in later
    OBVIOUS
  <2> QED BY <2>3, <2>4, <2>5
<1> DEFINE q == Next1(ends, p)
<1>3. q \in ends /\ q[1] > p[1] /\ \A r \in ends : r[1] > p[1] => q[1] <= r[1]
  BY <1>2 DEF Next1
<1>4. p \notin Gaps(m, ends) => ~(q[1] > p[1] + 1) /\ ~(q[2] > p[2] + 1)
  BY DEF Gaps
<1> HIDE DEF q
<1>5. q[2] > p[2]
  BY <1>1, <1>3
<1>6. p \notin Gaps(m, ends) => q = <<p[1] + 1, p[2] + 1>>
  BY <1>1, <1>3, <1>4, <1>5
<1> QED BY <1>3, <1>5, <1>6 DEF q

(* Between gaps, every line of one text is paired with one of the other.   *)
LEMMA PairedRun ==
  ASSUME NEW m, NEW n, NEW pairs, Paired(m, n, pairs), NEW ends, ends = Ends(m, n, pairs),
         NEW e \in ends, NEW h \in ends, e[1] <= h[1],
         \A x \in ends : e[1] <= x[1] /\ x[1] < h[1] => x \notin Gaps(m, ends)
  PROVE  /\ \A j \in 0 .. h[1] - e[1] : <<e[1] + j, e[2] + j>> \in ends
         /\ h[1] - e[1] = h[2] - e[2]
<1>1. /\ \A q \in ends : q[1] \in 0 .. m + 1 /\ q[2] \in 0 .. n + 1 /\ q = <<q[1], q[2]>>
      /\ \A q, r \in ends : q[1] = r[1] => q = r
      /\ m \in Nat /\ n \in Nat
  BY EndsAscend DEF Paired
<1> DEFINE d == h[1] - e[1]
           odd == {j \in 0 .. d : <<e[1] + j, e[2] + j>> \notin ends}
<1>2. d \in Nat
  BY <1>1
<1>3. odd = {}
  <2> SUFFICES ASSUME odd # {} PROVE FALSE
    OBVIOUS
  <2>1. PICK j \in odd : \A l \in odd : j <= l
    <3>1. \A l \in odd : l \in Nat
      BY <1>2
    <3> HIDE DEF odd
    <3> QED BY <3>1, LeastOf
  <2>2. j \in 0 .. d /\ <<e[1] + j, e[2] + j>> \notin ends
    OBVIOUS
  <2>3. j # 0
    BY <1>1, <2>2
  <2>4. j - 1 \in 0 .. d /\ ~(j <= j - 1)
    BY <1>2, <2>2, <2>3
  <2>5. j - 1 \notin odd
    BY <2>1, <2>4
  <2> DEFINE x == <<e[1] + (j - 1), e[2] + (j - 1)>>
  <2>6. x \in ends
    BY <2>4, <2>5
  <2>7. x[1] = e[1] + (j - 1) /\ x[2] = e[2] + (j - 1)
    OBVIOUS
  <2> HIDE DEF x
  <2>8. e[1] <= x[1] /\ x[1] < h[1] /\ x[1] <= m
    BY <1>1, <1>2, <2>2, <2>3, <2>7
  <2>9. Next1(ends, x) = <<x[1] + 1, x[2] + 1>> /\ Next1(ends, x) \in ends
    BY <2>6, <2>8, NextEnd
  <2>10. x[1] + 1 = e[1] + j /\ x[2] + 1 = e[2] + j
    BY <1>1, <2>2, <2>7
  <2> QED BY <2>2, <2>9, <2>10
<1>4. \A j \in 0 .. d : <<e[1] + j, e[2] + j>> \in ends
  BY <1>3
<1>5. <<e[1] + d, e[2] + d>> \in ends /\ e[1] + d = h[1]
  BY <1>1, <1>2, <1>4
<1>6. <<e[1] + d, e[2] + d>> = h
  BY <1>1, <1>5
<1>7. h[2] = e[2] + d
  BY <1>6
<1> QED BY <1>1, <1>4, <1>7

(* Texts cut into m and n pieces.                                          *)
Pieces(s, m, cut) ==
  /\ s \in Seq(Alphabet) /\ cut \in [0 .. m -> 0 .. Len(s)] /\ cut[0] = 0 /\ cut[m] = Len(s)
  /\ \A k \in 1 .. m : cut[k - 1] <= cut[k]

\* The d of them after the x-th of one and the y-th of the other.
Alike(s, m, cut, u, n, end, x, y, d) ==
  /\ m \in Nat /\ n \in Nat /\ Pieces(s, m, cut) /\ Pieces(u, n, end)
  /\ x \in Nat /\ y \in Nat /\ d \in Nat /\ x + d <= m /\ y + d <= n
  /\ \A k \in 1 .. d :
       Between(s, cut[x + k - 1], cut[x + k]) = Between(u, end[y + k - 1], end[y + k])

LEMMA SameLines ==
  ASSUME NEW s, NEW m, NEW cut, NEW u, NEW n, NEW end, NEW x, NEW y, NEW d,
         Alike(s, m, cut, u, n, end, x, y, d)
  PROVE  Between(s, cut[x], cut[x + d]) = Between(u, end[y], end[y + d]) /\ cut[x] <= cut[x + d]
<1> DEFINE f == [i \in 0 .. d |-> cut[x + i]]
           g == [i \in 0 .. d |-> end[y + i]]
           q == [k \in 1 .. d |-> Between(s, cut[x + k - 1], cut[x + k])]
<1>1. /\ s \in Seq(Alphabet) /\ cut \in [0 .. m -> 0 .. Len(s)]
      /\ u \in Seq(Alphabet) /\ end \in [0 .. n -> 0 .. Len(u)]
      /\ \A k \in 1 .. m : cut[k - 1] <= cut[k]
      /\ \A k \in 1 .. n : end[k - 1] <= end[k]
      /\ m \in Nat /\ n \in Nat
      /\ x \in Nat /\ y \in Nat /\ d \in Nat /\ x + d <= m /\ y + d <= n
  BY DEF Alike, Pieces
<1>2. \A i \in 0 .. d : x + i \in 0 .. m /\ y + i \in 0 .. n
  BY <1>1
<1>3. \A k \in 1 .. d : /\ x + k \in 1 .. m /\ y + k \in 1 .. n /\ k \in 0 .. d /\ k - 1 \in 0 .. d
                        /\ x + (k - 1) = x + k - 1 /\ y + (k - 1) = y + k - 1
  BY <1>1
<1>4. f \in [0 .. d -> 0 .. Len(s)] /\ g \in [0 .. d -> 0 .. Len(u)]
  BY <1>1, <1>2
<1>5. \A k \in 1 .. d : /\ f[k - 1] = cut[x + k - 1] /\ f[k] = cut[x + k]
                        /\ g[k - 1] = end[y + k - 1] /\ g[k] = end[y + k]
  BY <1>3
<1>6. ASSUME NEW k \in 1 .. d PROVE f[k - 1] <= f[k] /\ g[k - 1] <= g[k]
  <2> HIDE DEF f, g
  <2>1. PICK i : i = x + k
    OBVIOUS
  <2>2. PICK j : j = y + k
    OBVIOUS
  <2>3. i \in 1 .. m /\ j \in 1 .. n
    BY <1>3, <2>1, <2>2
  <2>4. cut[i - 1] <= cut[i]
    <3>1. \A h \in 1 .. m : cut[h - 1] <= cut[h]
      BY <1>1
    <3> QED BY <2>3, <3>1
  <2>5. end[j - 1] <= end[j]
    <3>1. \A h \in 1 .. n : end[h - 1] <= end[h]
      BY <1>1
    <3> QED BY <2>3, <3>1
  <2>6. /\ k - 1 \in 0 .. d /\ k \in 0 .. d
        /\ x + (k - 1) = i - 1 /\ y + (k - 1) = j - 1
    <3>1. x \in Nat /\ y \in Nat /\ d \in Nat
      BY <1>1
    <3> QED BY <2>1, <2>2, <3>1
  <2>7. f[k - 1] = cut[i - 1] /\ f[k] = cut[i]
    BY <2>1, <2>6 DEF f
  <2>8. g[k - 1] = end[j - 1] /\ g[k] = end[j]
    BY <2>2, <2>6 DEF g
  <2> QED BY <2>4, <2>5, <2>7, <2>8
<1>7. \A k \in 1 .. d : Between(s, f[k - 1], f[k]) \in Seq(Alphabet)
  <2> SUFFICES ASSUME NEW k \in 1 .. d PROVE Between(s, f[k - 1], f[k]) \in Seq(Alphabet)
    OBVIOUS
  <2> HIDE DEF f
  <2>1. f[k - 1] \in 0 .. Len(s) /\ f[k] \in f[k - 1] .. Len(s)
    <3>1. f[k - 1] \in 0 .. Len(s) /\ f[k] \in 0 .. Len(s)
      BY <1>3, <1>4
    <3>2. f[k - 1] <= f[k]
      BY <1>6
    <3> QED BY <3>1, <3>2
  <2> QED BY <1>1, <2>1, BetweenElements
<1>8. q \in Seq(Seq(Alphabet)) /\ Len(q) = d
  <2>1. q \in [1 .. d -> Seq(Alphabet)]
    BY <1>5, <1>7
  <2> HIDE DEF q
  <2> QED BY <1>1, <2>1, FunctionIsSequence
<1>9. \A k \in 1 .. d : q[k] = Between(s, f[k - 1], f[k]) /\ q[k] = Between(u, g[k - 1], g[k])
  BY <1>5 DEF Alike
<1>10. f[0] = cut[x] /\ f[d] = cut[x + d] /\ g[0] = end[y] /\ g[d] = end[y + d]
  BY <1>1
<1> HIDE DEF f, g, q
<1>11. FlattenSeq(q) = Between(s, f[0], f[d]) /\ f[0] <= f[d]
  BY <1>1, <1>4, <1>6, <1>8, <1>9, FlattenPieces
<1>12. FlattenSeq(q) = Between(u, g[0], g[d])
  BY <1>1, <1>4, <1>6, <1>8, <1>9, FlattenPieces
<1> QED BY <1>10, <1>11, <1>12

(* Two texts whose paired lines are the same.                              *)
PairedTexts(s, m, cut, u, n, end, pairs) ==
  /\ Paired(m, n, pairs) /\ Pieces(s, m, cut) /\ Pieces(u, n, end)
  /\ \A p \in pairs : Between(s, cut[p[1] - 1], cut[p[1]]) = Between(u, end[p[2] - 1], end[p[2]])

\* The last line before the run that begins with e, and the last of one that ends with h.
RunFrom(e) == IF e[1] = 0 THEN <<0, 0>> ELSE <<e[1] - 1, e[2] - 1>>
RunTo(m, n, h) == IF h[1] > m THEN <<m, n>> ELSE h

LEMMA SameRun ==
  ASSUME NEW s, NEW m, NEW cut, NEW u, NEW n, NEW end, NEW pairs,
         PairedTexts(s, m, cut, u, n, end, pairs), NEW ends, ends = Ends(m, n, pairs),
         NEW e \in ends, NEW h \in ends, e[1] <= h[1],
         \A x \in ends : e[1] <= x[1] /\ x[1] < h[1] => x \notin Gaps(m, ends),
         NEW v, v = RunFrom(e), NEW w, w = RunTo(m, n, h)
  PROVE  /\ v[1] \in 0 .. w[1] /\ w[1] \in 0 .. m /\ v[2] \in 0 .. w[2] /\ w[2] \in 0 .. n
         /\ Between(s, cut[v[1]], cut[w[1]]) = Between(u, end[v[2]], end[w[2]])
<1>1. /\ Paired(m, n, pairs) /\ m \in Nat /\ n \in Nat /\ Pieces(s, m, cut) /\ Pieces(u, n, end)
      /\ \A p \in pairs : Between(s, cut[p[1] - 1], cut[p[1]]) = Between(u, end[p[2] - 1], end[p[2]])
  BY DEF PairedTexts, Paired
<1>2. /\ \A p \in ends : /\ p[1] \in 0 .. m + 1 /\ p[2] \in 0 .. n + 1
                         /\ p[1] = 0 => p = <<0, 0>>
                         /\ p[1] > m => p = <<m + 1, n + 1>>
                         /\ p[1] \in 1 .. m => p \in pairs /\ p[2] \in 1 .. n
      /\ \A p, q \in ends : p[1] < q[1] <=> p[2] < q[2]
  BY <1>1, EndsAscend
<1>3. /\ \A j \in 0 .. h[1] - e[1] : <<e[1] + j, e[2] + j>> \in ends
      /\ h[1] - e[1] = h[2] - e[2]
  BY <1>1, PairedRun
<1>4. /\ e[1] \in Nat /\ e[2] \in Nat /\ h[1] \in Nat /\ h[2] \in Nat
      /\ e[1] = 0 => e[2] = 0
      /\ e[1] # 0 => e[2] # 0
      /\ h[1] > m => h[1] = m + 1 /\ h[2] = n + 1
      /\ h[1] <= m => h[2] <= n
  <2>1. e[1] # 0 => e[1] \in 1 .. m \/ e[1] > m
    BY <1>1, <1>2
  <2>2. h[1] <= m => h[1] = 0 \/ h[1] \in 1 .. m
    BY <1>1, <1>2
  <2>3. e[1] = 0 => e[2] = 0
    BY <1>2
  <2>4. h[1] > m => h[1] = m + 1 /\ h[2] = n + 1
    BY <1>2
  <2>5. e[1] # 0 => e[2] # 0
    <3>1. e[1] > m => e[2] = n + 1
      BY <1>2
    <3>2. e[1] \in 1 .. m => e[2] \in 1 .. n
      BY <1>2
    <3> QED BY <1>1, <2>1, <3>1, <3>2
  <2>6. h[1] <= m => h[2] <= n
    <3>1. h[1] = 0 => h[2] = 0
      BY <1>2
    <3>2. h[1] \in 1 .. m => h[2] \in 1 .. n
      BY <1>2
    <3> QED BY <1>1, <2>2, <3>1, <3>2
  <2> QED BY <1>1, <1>2, <2>3, <2>4, <2>5, <2>6
<1> DEFINE d == w[1] - v[1]
<1>5. /\ v[1] = (IF e[1] = 0 THEN 0 ELSE e[1] - 1) /\ v[2] = (IF e[1] = 0 THEN 0 ELSE e[2] - 1)
      /\ w[1] = (IF h[1] > m THEN m ELSE h[1]) /\ w[2] = (IF h[1] > m THEN n ELSE h[2])
  BY DEF RunFrom, RunTo
<1>6. /\ v[1] \in Nat /\ v[2] \in Nat /\ w[1] \in 0 .. m /\ w[2] \in 0 .. n
      /\ d \in Nat /\ v[1] + d = w[1] /\ v[2] + d = w[2]
  <2>1. v[1] \in Nat /\ v[2] \in Nat /\ w[1] \in 0 .. m /\ w[2] \in 0 .. n
    BY <1>1, <1>4, <1>5
  <2>2. CASE e[1] = 0 /\ h[1] > m
    BY <1>1, <1>3, <1>4, <1>5, <2>1, <2>2
  <2>3. CASE e[1] = 0 /\ h[1] <= m
    BY <1>1, <1>3, <1>4, <1>5, <2>1, <2>3
  <2>4. CASE e[1] # 0 /\ h[1] > m
    BY <1>1, <1>3, <1>4, <1>5, <2>1, <2>4
  <2>5. CASE e[1] # 0 /\ h[1] <= m
    BY <1>1, <1>3, <1>4, <1>5, <2>1, <2>5
  <2> QED BY <1>1, <1>4, <2>2, <2>3, <2>4, <2>5
<1>7. ASSUME NEW k \in 1 .. d
      PROVE  Between(s, cut[v[1] + k - 1], cut[v[1] + k]) = Between(u, end[v[2] + k - 1], end[v[2] + k])
  <2> DEFINE j == IF e[1] = 0 THEN k ELSE k - 1
             p == <<e[1] + j, e[2] + j>>
  <2>1. j \in 0 .. h[1] - e[1] /\ e[1] + j = v[1] + k /\ e[2] + j = v[2] + k /\ v[1] + k \in 1 .. m
    <3>1. CASE e[1] = 0
      BY <1>1, <1>4, <1>5, <1>6, <3>1
    <3>2. CASE e[1] # 0
      BY <1>1, <1>4, <1>5, <1>6, <3>2
    <3> QED BY <3>1, <3>2
  <2> HIDE DEF j
  <2>2. p \in ends /\ p[1] = v[1] + k /\ p[2] = v[2] + k
    BY <1>3, <2>1
  <2> HIDE DEF p
  <2>3. p \in pairs
    BY <1>2, <2>1, <2>2
  <2>4. Between(s, cut[p[1] - 1], cut[p[1]]) = Between(u, end[p[2] - 1], end[p[2]])
    BY <1>1, <2>3
  <2>5. p[1] - 1 = v[1] + k - 1 /\ p[2] - 1 = v[2] + k - 1
    BY <1>6, <2>2
  <2>6. Between(s, cut[v[1] + k - 1], cut[p[1]]) = Between(u, end[v[2] + k - 1], end[p[2]])
    BY <2>4, <2>5
  <2> QED BY <2>2, <2>6
<1> HIDE DEF d
<1>8. Between(s, cut[v[1]], cut[v[1] + d]) = Between(u, end[v[2]], end[v[2] + d])
  <2> DEFINE x == v[1]
             y == v[2]
  <2>1. x \in Nat /\ y \in Nat /\ d \in Nat /\ x + d <= m /\ y + d <= n
    BY <1>1, <1>6
  <2>2. \A k \in 1 .. d : Between(s, cut[x + k - 1], cut[x + k]) = Between(u, end[y + k - 1], end[y + k])
    BY <1>7
  <2>3. m \in Nat /\ n \in Nat /\ Pieces(s, m, cut) /\ Pieces(u, n, end)
    BY <1>1
  <2> HIDE DEF x, y
  <2>4. Alike(s, m, cut, u, n, end, x, y, d)
    BY <2>1, <2>2, <2>3 DEF Alike
  <2>5. Between(s, cut[x], cut[x + d]) = Between(u, end[y], end[y + d])
    BY <2>4, SameLines
  <2> QED BY <2>5 DEF x, y
<1>9. v[1] \in 0 .. w[1] /\ v[2] \in 0 .. w[2]
  BY <1>1, <1>6
<1> QED BY <1>6, <1>8, <1>9

(* The gaps, from the first to the last.                                   *)
Turn(gaps, i) == CHOOSE p \in gaps : Cardinality({q \in gaps : q[1] <= p[1]}) = i

LEMMA GapsInTurn ==
  ASSUME NEW m, NEW n, NEW pairs, Paired(m, n, pairs), NEW ends, ends = Ends(m, n, pairs),
         NEW gaps, gaps = Gaps(m, ends), NEW N, N = Cardinality(gaps)
  PROVE  /\ N \in Nat /\ \A i \in 1 .. N : Turn(gaps, i) \in gaps
         /\ \A x \in gaps : N # 0 /\ Turn(gaps, 1)[1] <= x[1] /\ x[1] <= Turn(gaps, N)[1]
         /\ \A i \in 1 .. N - 1 :
              /\ Turn(gaps, i)[1] < Turn(gaps, i + 1)[1]
              /\ \A x \in gaps : x[1] < Turn(gaps, i + 1)[1] => x[1] <= Turn(gaps, i)[1]
<1> DEFINE key == [p \in gaps |-> p[1]]
           rank(x) == Rank(gaps, key, x)
<1>1. /\ \A p \in ends : p[1] \in 0 .. m + 1 /\ p[2] \in 0 .. n + 1 /\ p = <<p[1], p[2]>>
      /\ \A p, q \in ends : p[1] = q[1] => p = q
      /\ m \in Nat /\ n \in Nat /\ \A p \in gaps : p \in ends
  BY EndsAscend DEF Paired, Gaps
<1>2. IsFiniteSet(gaps)
  <2> DEFINE I == 0 .. m + 1
             J == 0 .. n + 1
  <2>1. IsFiniteSet(I) /\ IsFiniteSet(J)
    <3>1. 0 \in Int /\ m + 1 \in Int /\ n + 1 \in Int
      BY <1>1
    <3> QED BY <3>1, FS_Interval, Zenon
  <2>2. gaps \in SUBSET (I \X J)
    BY <1>1
  <2> HIDE DEF I, J
  <2> QED BY <2>1, <2>2, FS_Product, FS_Subset
<1>3. key \in [gaps -> Nat] /\ \A x, y \in gaps : key[x] = key[y] => x = y
  BY <1>1
<1>4. \A x \in gaps : key[x] = x[1] /\ x[1] \in Nat
  BY <1>1
<1>5. \A x \in gaps : rank(x) = Cardinality({q \in gaps : q[1] <= x[1]})
  <2> SUFFICES ASSUME NEW x \in gaps PROVE rank(x) = Cardinality({q \in gaps : q[1] <= x[1]})
    OBVIOUS
  <2>1. {q \in gaps : key[q] <= key[x]} = {q \in gaps : q[1] <= x[1]}
    BY <1>4
  <2> QED BY <2>1 DEF Rank
<1> HIDE DEF key
<1>6. /\ N \in Nat /\ \A x \in gaps : rank(x) \in 1 .. N
      /\ \A x, y \in gaps : key[x] < key[y] => rank(x) < rank(y)
      /\ \A i \in 1 .. N : \E x \in gaps : rank(x) = i
  BY <1>2, <1>3, Ranked
<1> HIDE DEF rank
<1>7. \A i \in 1 .. N : Turn(gaps, i) \in gaps /\ rank(Turn(gaps, i)) = i
  <2> SUFFICES ASSUME NEW i \in 1 .. N
               PROVE  Turn(gaps, i) \in gaps /\ rank(Turn(gaps, i)) = i
    OBVIOUS
  <2>1. \E x \in gaps : Cardinality({q \in gaps : q[1] <= x[1]}) = i
    BY <1>5, <1>6
  <2>2. /\ Turn(gaps, i) \in gaps
        /\ Cardinality({q \in gaps : q[1] <= Turn(gaps, i)[1]}) = i
    BY <2>1 DEF Turn
  <2> QED BY <1>5, <2>2
<1>8. \A x, y \in gaps : x[1] < y[1] => rank(x) < rank(y)
  BY <1>4, <1>6
<1>9. ASSUME NEW x \in gaps
      PROVE  N # 0 /\ Turn(gaps, 1)[1] <= x[1] /\ x[1] <= Turn(gaps, N)[1]
  <2>1. rank(x) \in 1 .. N /\ 1 \in 1 .. N /\ N \in 1 .. N /\ N # 0
    BY <1>6
  <2>2. /\ Turn(gaps, 1) \in gaps /\ rank(Turn(gaps, 1)) = 1
        /\ Turn(gaps, N) \in gaps /\ rank(Turn(gaps, N)) = N
    BY <1>7, <2>1
  <2>3. /\ x[1] \in Nat /\ Turn(gaps, 1)[1] \in Nat /\ Turn(gaps, N)[1] \in Nat
    BY <1>4, <2>2
  <2>4. ~(x[1] < Turn(gaps, 1)[1])
    BY <1>8, <2>1, <2>2
  <2>5. ~(Turn(gaps, N)[1] < x[1])
    BY <1>6, <1>8, <2>1, <2>2
  <2> QED BY <2>1, <2>3, <2>4, <2>5
<1>10. ASSUME NEW i \in 1 .. N - 1
       PROVE  /\ Turn(gaps, i)[1] < Turn(gaps, i + 1)[1]
              /\ \A x \in gaps : x[1] < Turn(gaps, i + 1)[1] => x[1] <= Turn(gaps, i)[1]
  <2>1. i \in 1 .. N /\ i + 1 \in 1 .. N /\ i \in Nat
    BY <1>6
  <2> DEFINE p == Turn(gaps, i)
             q == Turn(gaps, i + 1)
  <2>2. p \in gaps /\ q \in gaps /\ rank(p) = i /\ rank(q) = i + 1
    BY <1>7, <2>1
  <2> HIDE DEF p, q
  <2>3. p[1] \in Nat /\ q[1] \in Nat
    BY <1>4, <2>2
  <2>4. ~(q[1] < p[1]) /\ q # p
    BY <1>8, <2>1, <2>2
  <2>5. q[1] # p[1]
    BY <1>1, <2>2, <2>4
  <2>6. ASSUME NEW x \in gaps, x[1] < q[1] PROVE x[1] <= p[1]
    <3>1. rank(x) < i + 1 /\ rank(x) \in 1 .. N /\ x[1] \in Nat
      BY <1>4, <1>6, <1>8, <2>2, <2>6
    <3>2. ~(p[1] < x[1])
      BY <1>8, <2>1, <2>2, <3>1
    <3> QED BY <2>3, <3>1, <3>2
  <2>7. p[1] < q[1]
    BY <2>3, <2>4, <2>5
  <2> QED BY <2>6, <2>7 DEF p, q
<1> QED BY <1>6, <1>7, <1>9, <1>10

(* From the end of a gap, or the beginning, to the next gap, or the end.   *)
RunBegin(ends, gaps, i) == IF i = 0 THEN <<0, 0>> ELSE Next1(ends, Turn(gaps, i))
RunEnd(m, n, gaps, i) ==
  IF i + 1 <= Cardinality(gaps) THEN Turn(gaps, i + 1) ELSE <<m + 1, n + 1>>

LEMMA RunsBetween ==
  ASSUME NEW m, NEW n, NEW pairs, Paired(m, n, pairs), NEW ends, ends = Ends(m, n, pairs),
         NEW gaps, gaps = Gaps(m, ends), NEW i \in 0 .. Cardinality(gaps),
         NEW e, e = RunBegin(ends, gaps, i), NEW h, h = RunEnd(m, n, gaps, i)
  PROVE  /\ e \in ends /\ h \in ends /\ e[1] <= h[1]
         /\ \A x \in ends : e[1] <= x[1] /\ x[1] < h[1] => x \notin gaps
<1> DEFINE N == Cardinality(gaps)
           top == <<m + 1, n + 1>>
<1>1. /\ \A p \in ends : p[1] \in 0 .. m + 1
      /\ \A p \in gaps : p \in ends /\ p[1] <= m /\ p[1] \in Nat
      /\ m \in Nat /\ n \in Nat /\ <<0, 0>> \in ends /\ top \in ends
  BY EndsAscend DEF Paired, Gaps, Ends
<1>2. /\ N \in Nat /\ \A j \in 1 .. N : Turn(gaps, j) \in gaps
      /\ \A x \in gaps : N # 0 /\ Turn(gaps, 1)[1] <= x[1] /\ x[1] <= Turn(gaps, N)[1]
      /\ \A j \in 1 .. N - 1 :
           /\ Turn(gaps, j)[1] < Turn(gaps, j + 1)[1]
           /\ \A x \in gaps : x[1] < Turn(gaps, j + 1)[1] => x[1] <= Turn(gaps, j)[1]
  BY GapsInTurn
<1>3. top[1] = m + 1 /\ <<0, 0>>[1] = 0
  OBVIOUS
<1>4. ASSUME i # 0
      PROVE  /\ e \in ends /\ Turn(gaps, i) \in gaps /\ e[1] > Turn(gaps, i)[1]
             /\ \A r \in ends : r[1] > Turn(gaps, i)[1] => e[1] <= r[1]
  <2>1. Turn(gaps, i) \in gaps /\ e = Next1(ends, Turn(gaps, i))
    BY <1>2, <1>4 DEF RunBegin
  <2>2. Turn(gaps, i) \in ends /\ Turn(gaps, i)[1] <= m
    BY <1>1, <2>1
  <2> QED BY <2>1, <2>2, NextEnd
<1>5. i = 0 => e = <<0, 0>>
  BY DEF RunBegin
<1>6. /\ i < N => h = Turn(gaps, i + 1) /\ h \in gaps
      /\ i = N => h = top
  BY <1>2 DEF RunEnd
<1> HIDE DEF N, top
<1>7. i \in 0 .. N /\ (i < N \/ i = N)
  BY <1>2 DEF N
<1>8. e \in ends /\ h \in ends
  BY <1>1, <1>4, <1>5, <1>6, <1>7
<1>9. CASE i = 0
  <2>1. e[1] = 0
    BY <1>3, <1>5, <1>9
  <2>2. e[1] <= h[1]
    BY <1>1, <1>8, <2>1
  <2>3. \A x \in ends : x[1] < h[1] => x \notin gaps
    <3>1. CASE i < N
      BY <1>1, <1>2, <1>6, <1>9, <3>1
    <3>2. CASE i = N
      BY <1>2, <1>9, <3>2
    <3> QED BY <1>7, <3>1, <3>2
  <2> QED BY <1>8, <2>2, <2>3
<1>10. CASE i # 0 /\ i < N
  <2>1. i \in 1 .. N - 1 /\ h = Turn(gaps, i + 1) /\ h \in gaps
    BY <1>2, <1>6, <1>7, <1>10
  <2>2. h[1] > Turn(gaps, i)[1]
    BY <1>1, <1>2, <1>4, <1>10, <2>1
  <2>3. e[1] <= h[1]
    BY <1>4, <1>8, <1>10, <2>2
  <2>4. ASSUME NEW x \in gaps, e[1] <= x[1], x[1] < h[1] PROVE FALSE
    <3>1. x[1] <= Turn(gaps, i)[1]
      BY <1>2, <2>1, <2>4
    <3> QED BY <1>1, <1>4, <1>8, <1>10, <2>4, <3>1
  <2> QED BY <1>8, <2>3, <2>4
<1>11. CASE i # 0 /\ i = N
  <2>1. h[1] = m + 1
    BY <1>3, <1>6, <1>11
  <2>2. e[1] <= h[1]
    BY <1>1, <1>8, <2>1
  <2>3. ASSUME NEW x \in gaps, e[1] <= x[1] PROVE FALSE
    <3>1. x[1] <= Turn(gaps, i)[1]
      BY <1>2, <1>11
    <3> QED BY <1>1, <1>4, <1>8, <1>11, <2>3, <3>1
  <2> QED BY <1>8, <2>2, <2>3
<1> QED BY <1>7, <1>9, <1>10, <1>11

(* Where an editor finds the gaps, and what is put there.                  *)
Answers(answer, s, m, cut, u, n, end, pairs) ==
  LET ends == Ends(m, n, pairs)
      gaps == Gaps(m, ends)
      p(i) == Turn(gaps, i)
  IN  /\ Len(answer) = Cardinality(gaps) /\ DOMAIN answer = 1 .. Len(answer)
      /\ \A i \in 1 .. Len(answer) :
           /\ EditorOffset(s, answer[i].start) = cut[p(i)[1]]
           /\ EditorOffset(s, answer[i].end) = cut[Next1(ends, p(i))[1] - 1]
           /\ answer[i].text = Between(u, end[p(i)[2]], end[Next1(ends, p(i))[2] - 1])

(* Applied, they make one text of the other.                               *)
LEMMA EditsMake ==
  ASSUME NEW s, NEW m, NEW cut, NEW u, NEW n, NEW end, NEW pairs,
         PairedTexts(s, m, cut, u, n, end, pairs),
         NEW answer, Answers(answer, s, m, cut, u, n, end, pairs)
  PROVE  AppliedTo(s, answer) = u
<1> DEFINE ends == Ends(m, n, pairs)
           gaps == Gaps(m, ends)
           N == Cardinality(gaps)
           p(i) == Turn(gaps, i)
           E(i) == RunBegin(ends, gaps, i)
           H(i) == RunEnd(m, n, gaps, i)
           V(i) == RunFrom(E(i))
           W(i) == RunTo(m, n, H(i))
           from(i) == IF i > Len(answer) THEN Len(s) ELSE EditorOffset(s, answer[i].start)
           to(i) == EditorOffset(s, answer[i].end)
           q == [i \in DOMAIN answer |-> answer[i].text \o Between(s, to(i), from(i + 1))]
           g == [i \in 0 .. N |-> end[W(i)[2]]]
<1>1. /\ Paired(m, n, pairs) /\ m \in Nat /\ n \in Nat
      /\ s \in Seq(Alphabet) /\ cut \in [0 .. m -> 0 .. Len(s)] /\ cut[0] = 0 /\ cut[m] = Len(s)
      /\ u \in Seq(Alphabet) /\ end \in [0 .. n -> 0 .. Len(u)] /\ end[0] = 0 /\ end[n] = Len(u)
      /\ \A k \in 1 .. n : end[k - 1] <= end[k]
  BY DEF PairedTexts, Paired, Pieces
<1>2. /\ Len(answer) = N /\ DOMAIN answer = 1 .. N
      /\ \A i \in 1 .. N : /\ EditorOffset(s, answer[i].start) = cut[p(i)[1]]
                           /\ EditorOffset(s, answer[i].end) = cut[Next1(ends, p(i))[1] - 1]
                           /\ answer[i].text = Between(u, end[p(i)[2]], end[Next1(ends, p(i))[2] - 1])
  BY DEF Answers
<1>3. N \in Nat /\ \A i \in 1 .. N : p(i) \in gaps
  BY <1>1, GapsInTurn
<1>4. \A x \in gaps : x \in ends /\ x[1] <= m
  BY DEF Gaps
<1>5. AppliedTo(s, answer) = Between(s, 0, from(1)) \o FlattenSeq(q)
  BY DEF AppliedTo
<1>6. ASSUME NEW i \in 0 .. N
      PROVE  /\ V(i)[1] \in 0 .. W(i)[1] /\ W(i)[1] \in 0 .. m
             /\ V(i)[2] \in 0 .. W(i)[2] /\ W(i)[2] \in 0 .. n
             /\ Between(s, cut[V(i)[1]], cut[W(i)[1]]) = Between(u, end[V(i)[2]], end[W(i)[2]])
  <2>1. /\ E(i) \in ends /\ H(i) \in ends /\ E(i)[1] <= H(i)[1]
        /\ \A x \in ends : E(i)[1] <= x[1] /\ x[1] < H(i)[1] => x \notin gaps
    BY <1>1, RunsBetween
  <2> HIDE DEF E, H
  <2> QED BY <2>1, SameRun
<1>7. \A x, y \in 0 .. n : x <= y => end[x] <= end[y]
  <2>1. Len(u) \in Nat
    BY <1>1
  <2> QED BY <1>1, <2>1, Ascending
<1>8. V(0) = <<0, 0>>
  BY DEF RunBegin, RunFrom
<1>9. W(N) = <<m, n>>
  BY <1>1, <1>3 DEF RunEnd, RunTo
<1>10. ASSUME NEW i \in 1 .. N
       PROVE  /\ W(i - 1) = p(i) /\ V(i)[1] = Next1(ends, p(i))[1] - 1
              /\ V(i)[2] = Next1(ends, p(i))[2] - 1 /\ W(i - 1)[2] <= V(i)[2]
  <2>1. p(i) \in ends /\ p(i)[1] <= m /\ p(i)[1] \in Nat /\ p(i)[2] \in Nat
    BY <1>1, <1>3, <1>4, EndsAscend
  <2> DEFINE r == Next1(ends, p(i))
  <2>2. r \in ends /\ r[1] > p(i)[1] /\ r[2] > p(i)[2]
    BY <1>1, <2>1, NextEnd
  <2>3. r[1] \in Nat /\ r[2] \in Nat
    BY <1>1, <2>2, EndsAscend
  <2>4. i - 1 + 1 = i /\ i - 1 + 1 <= N /\ i # 0
    BY <1>3
  <2>5. H(i - 1) = p(i)
    BY <2>4 DEF RunEnd
  <2>6. E(i) = r
    BY <2>4 DEF RunBegin
  <2> HIDE DEF E, H, r, p, ends, gaps, N
  <2>7. W(i - 1) = p(i)
    BY <1>1, <2>1, <2>5 DEF RunTo
  <2>8. V(i) = <<r[1] - 1, r[2] - 1>>
    BY <2>1, <2>2, <2>3, <2>6 DEF RunFrom
  <2>9. V(i)[1] = r[1] - 1 /\ V(i)[2] = r[2] - 1
    BY <2>8
  <2>10. p(i)[2] <= r[2] - 1
    BY <2>1, <2>2, <2>3
  <2> QED BY <2>7, <2>9, <2>10 DEF r
<1> HIDE DEF V, W, ends, gaps, N, p
<1>11. \A i \in 0 .. N : from(i + 1) = cut[W(i)[1]]
  <2> SUFFICES ASSUME NEW i \in 0 .. N PROVE from(i + 1) = cut[W(i)[1]]
    OBVIOUS
  <2>1. CASE i = N
    <3>1. i + 1 > Len(answer)
      BY <1>2, <1>3, <2>1
    <3>2. W(i)[1] = m
      BY <1>9, <2>1
    <3> QED BY <1>1, <3>1, <3>2
  <2>2. CASE i # N
    <3>1. i + 1 \in 1 .. N /\ ~(i + 1 > Len(answer)) /\ i + 1 - 1 = i
      BY <1>2, <1>3, <2>2
    <3>2. W(i) = p(i + 1)
      BY <1>10, <3>1
    <3> QED BY <1>2, <3>1, <3>2
  <2> QED BY <2>1, <2>2
<1>12. \A i \in 1 .. N : to(i) = cut[V(i)[1]]
  BY <1>2, <1>10
<1>13. \A i \in 0 .. N : g[i] = end[W(i)[2]]
  OBVIOUS
<1>14. g \in [0 .. N -> 0 .. Len(u)]
  BY <1>1, <1>6
<1> HIDE DEF g, from, to
<1>15. ASSUME NEW i \in 1 .. N
       PROVE  g[i - 1] <= g[i] /\ q[i] = Between(u, g[i - 1], g[i])
  <2>1. i - 1 \in 0 .. N /\ i \in 0 .. N
    BY <1>3
  <2>2. /\ V(i)[2] \in 0 .. W(i)[2] /\ W(i)[2] \in 0 .. n /\ W(i - 1)[2] \in 0 .. n
        /\ W(i - 1)[2] <= V(i)[2]
        /\ Between(s, cut[V(i)[1]], cut[W(i)[1]]) = Between(u, end[V(i)[2]], end[W(i)[2]])
    BY <1>6, <1>10, <2>1
  <2> DEFINE x == g[i - 1]
             y == end[V(i)[2]]
             z == g[i]
  <2>3. /\ W(i - 1)[2] \in 0 .. n /\ V(i)[2] \in 0 .. n /\ V(i)[2] <= W(i)[2]
        /\ x = end[W(i - 1)[2]] /\ z = end[W(i)[2]]
    BY <1>1, <1>13, <2>1, <2>2
  <2>4. /\ x <= y /\ y <= z
    BY <1>7, <2>2, <2>3
  <2>5. x \in 0 .. Len(u) /\ y \in 0 .. Len(u) /\ z \in 0 .. Len(u)
    BY <1>1, <2>2, <2>3
  <2>6. x \in 0 .. Len(u) /\ y \in x .. Len(u) /\ z \in y .. Len(u) /\ x <= z
    BY <2>4, <2>5
  <2>7. q[i] = answer[i].text \o Between(s, to(i), from(i + 1))
    BY <1>2
  <2>8. answer[i].text = Between(u, x, y)
    BY <1>2, <1>10, <2>3
  <2>9. Between(s, to(i), from(i + 1)) = Between(u, y, z)
    BY <1>11, <1>12, <2>1, <2>2, <2>3
  <2>10. q[i] = Between(u, x, y) \o Between(u, y, z)
    BY <2>7, <2>8, <2>9
  <2> HIDE DEF x, y, z, q
  <2>11. Between(u, x, y) \o Between(u, y, z) = Between(u, x, z)
    BY <1>1, <2>6, BetweenJoins
  <2>12. q[i] = Between(u, x, z)
    BY <2>10, <2>11
  <2> QED BY <2>6, <2>12 DEF x, z
<1>16. q \in Seq(Seq(Alphabet)) /\ Len(q) = N
  <2>1. q = [i \in 1 .. N |-> q[i]]
    BY <1>2
  <2> HIDE DEF q
  <2>2. ASSUME NEW i \in 1 .. N PROVE q[i] \in Seq(Alphabet)
    <3>1. g[i - 1] \in 0 .. Len(u) /\ g[i] \in 0 .. Len(u)
      BY <1>3, <1>14
    <3>2. g[i] \in g[i - 1] .. Len(u)
      BY <1>15, <3>1
    <3>3. Between(u, g[i - 1], g[i]) \in Seq(Alphabet)
      BY <1>1, <3>1, <3>2, BetweenElements
    <3> QED BY <1>15, <3>3
  <2>3. q \in [1 .. N -> Seq(Alphabet)]
    BY <2>1, <2>2
  <2> QED BY <1>3, <2>3, FunctionIsSequence
<1> HIDE DEF q
<1>17. FlattenSeq(q) = Between(u, g[0], g[N]) /\ g[0] <= g[N]
  <2>1. \A i \in 1 .. N : g[i - 1] <= g[i]
    BY <1>15
  <2>2. \A i \in 1 .. N : q[i] = Between(u, g[i - 1], g[i])
    BY <1>15
  <2>3. N \in Nat /\ u \in Seq(Alphabet)
    BY <1>1, <1>3
  <2> QED BY <1>14, <1>16, <2>1, <2>2, <2>3, FlattenPieces
<1>18. g[N] = Len(u)
  <2>1. W(N)[2] = n /\ N \in 0 .. N
    BY <1>3, <1>9
  <2>2. g[N] = end[W(N)[2]]
    BY <1>13, <2>1
  <2> QED BY <1>1, <2>1, <2>2
<1>19. Between(s, 0, from(1)) = Between(u, 0, g[0])
  <2>1. 0 \in 0 .. N /\ 0 + 1 = 1
    BY <1>3
  <2>2. from(1) = cut[W(0)[1]]
    BY <1>11, <2>1
  <2>3. Between(s, cut[0], cut[W(0)[1]]) = Between(u, end[0], end[W(0)[2]])
    BY <1>6, <1>8, <2>1
  <2> QED BY <1>1, <1>13, <2>1, <2>2, <2>3
<1>20. Between(u, 0, g[0]) \o Between(u, g[0], Len(u)) = Between(u, 0, Len(u))
  <2>1. g[0] \in 0 .. Len(u) /\ 0 \in 0 .. Len(u) /\ Len(u) \in g[0] .. Len(u)
    BY <1>1, <1>3, <1>14
  <2> QED BY <1>1, <2>1, BetweenJoins
<1>21. Between(u, 0, Len(u)) = u
  BY <1>1, WholeText
<1> QED BY <1>5, <1>17, <1>18, <1>19, <1>20, <1>21

LEMMA StretchOfLines ==
  ASSUME NEW u, NEW n \in Nat, NEW end, Pieces(u, n, end),
         NEW lines \in Seq(Seq(Alphabet)), Len(lines) = n,
         NEW a \in 0 .. n, NEW b \in a .. n,
         \A j \in a + 1 .. b : lines[j] = Between(u, end[j - 1], end[j])
  PROVE  FlattenSeq(SubSeq(lines, a + 1, b)) = Between(u, end[a], end[b])
<1> DEFINE d == b - a
           q == SubSeq(lines, a + 1, b)
           cut == [i \in 0 .. d |-> end[a + i]]
<1>1. a \in Nat /\ b \in Nat /\ d \in Nat /\ a + d = b /\ a + 1 \in 1 .. Len(lines) + 1 /\ b \in 0 .. Len(lines)
  OBVIOUS
<1>2. q \in Seq(Seq(Alphabet)) /\ Len(q) = d /\ \A i \in 1 .. d : q[i] = lines[a + i]
  <2>1. q \in Seq(Seq(Alphabet)) /\ Len(q) = IF a + 1 <= b THEN b - (a + 1) + 1 ELSE 0
    BY <1>1
  <2>2. \A i \in 1 .. d : q[i] = lines[a + i]
    BY <1>1
  <2> QED BY <1>1, <2>1, <2>2
<1>3. /\ u \in Seq(Alphabet) /\ end \in [0 .. n -> 0 .. Len(u)]
      /\ \A k \in 1 .. n : end[k - 1] <= end[k]
  BY DEF Pieces
<1>4. \A i \in 0 .. d : a + i \in 0 .. n
  BY <1>1
<1>5. cut \in [0 .. d -> 0 .. Len(u)]
  BY <1>3, <1>4
<1>6. \A i \in 1 .. d : /\ i \in 0 .. d /\ i - 1 \in 0 .. d /\ a + i \in 1 .. n /\ a + i \in a + 1 .. b
                        /\ a + (i - 1) = a + i - 1
  BY <1>1
<1>7. \A i \in 1 .. d : cut[i - 1] = end[a + i - 1] /\ cut[i] = end[a + i]
  BY <1>6
<1>8. cut[0] = end[a] /\ cut[d] = end[b]
  BY <1>1
<1> HIDE DEF cut, q, d
<1>9. \A i \in 1 .. d : cut[i - 1] <= cut[i]
  BY <1>3, <1>6, <1>7
<1>10. \A i \in 1 .. d : q[i] = Between(u, cut[i - 1], cut[i])
  BY <1>2, <1>6, <1>7
<1>11. FlattenSeq(q) = Between(u, cut[0], cut[d])
  BY <1>1, <1>2, <1>3, <1>5, <1>9, <1>10, FlattenPieces
<1> QED BY <1>8, <1>11 DEF q

LEMMA PairingsPaired ==
  ASSUME NEW old \in Seq(Seq(Alphabet)), NEW new \in Seq(Seq(Alphabet)), NEW pairs \in Pairings(old, new)
  PROVE  /\ Paired(Len(old), Len(new), pairs)
         /\ \A p \in pairs : old[p[1]] = new[p[2]]
  BY DEF Pairings, Paired

(* What the server answers is what the editor has to be told: its lines    *)
(* are the editor's, but for what was typed over, which lies in no gap.    *)
LEMMA DiffAnswers ==
  ASSUME NEW old \in Seq(Alphabet), NEW new \in Seq(Alphabet),
         NEW m, m = Len(LinesOf(old)), NEW n, n = Len(LinesOf(new)),
         NEW s, NEW cut, NEW u, NEW end, NEW pairs, PairedTexts(s, m, cut, u, n, end, pairs),
         \A k \in 0 .. m : \/ EditorOffset(s, LinePosition(old, k)) = cut[k]
                           \/ k = m /\ <<m, n>> \in pairs,
         \A j \in 1 .. n : \/ LinesOf(new)[j] = Between(u, end[j - 1], end[j])
                           \/ \E x \in pairs : x[2] = j
  PROVE  Answers(MinimalEdits(old, new, pairs), s, m, cut, u, n, end, pairs)
<1> DEFINE ends == Ends(m, n, pairs)
           gaps == Gaps(m, ends)
           N == Cardinality(gaps)
           lines == LinesOf(new)
           p(i) == Turn(gaps, i)
           r(i) == Next1(ends, p(i))
           answer == [i \in 1 .. N |->
                        [start |-> LinePosition(old, p(i)[1]),
                         end |-> LinePosition(old, r(i)[1] - 1),
                         text |-> FlattenSeq(SubSeq(lines, p(i)[2] + 1, r(i)[2] - 1))]]
<1>1. MinimalEdits(old, new, pairs) = answer
  BY DEF MinimalEdits, Ends, Next1, Gaps, Turn
<1>2. Paired(m, n, pairs) /\ m \in Nat /\ n \in Nat /\ Pieces(u, n, end)
  BY DEF PairedTexts, Paired
<1>3. N \in Nat /\ \A i \in 1 .. N : p(i) \in gaps
  BY <1>2, GapsInTurn
<1>4. Len(answer) = N /\ DOMAIN answer = 1 .. N
  <2> HIDE DEF N, p, r
  <2> QED BY <1>3
<1>5. lines \in Seq(Seq(Alphabet))
  BY LinesCut
<1>6. ASSUME NEW i \in 1 .. N
      PROVE  /\ EditorOffset(s, answer[i].start) = cut[p(i)[1]]
             /\ EditorOffset(s, answer[i].end) = cut[r(i)[1] - 1]
             /\ answer[i].text = Between(u, end[p(i)[2]], end[r(i)[2] - 1])
  <2> DEFINE x == p(i)
             y == r(i)
  <2>1. x \in gaps /\ x \in ends /\ x[1] <= m /\ (y[1] > x[1] + 1 \/ y[2] > x[2] + 1)
    BY <1>3 DEF Gaps
  <2>2. /\ y \in ends /\ y[1] > x[1] /\ y[2] > x[2]
        /\ \A z \in ends : z[1] > x[1] => y[1] <= z[1]
    BY <1>2, <2>1, NextEnd
  <2>3. /\ answer[i].start = LinePosition(old, x[1]) /\ answer[i].end = LinePosition(old, y[1] - 1)
        /\ answer[i].text = FlattenSeq(SubSeq(lines, x[2] + 1, y[2] - 1))
    <3> HIDE DEF N, p, r
    <3> QED OBVIOUS
  <2> HIDE DEF x, y, answer, gaps, lines
  <2>4. /\ \A z \in ends : z[1] \in 0 .. m + 1 /\ z[2] \in 0 .. n + 1 /\ (z[1] > m <=> z = <<m + 1, n + 1>>)
        /\ \A z, w \in ends : (z[1] < w[1] <=> z[2] < w[2]) /\ (z[1] = w[1] => z = w)
        /\ \A z \in pairs : z \in ends
    <3>1. \A z \in ends : z[1] \in 0 .. m + 1 /\ z[2] \in 0 .. n + 1 /\ (z[1] > m <=> z = <<m + 1, n + 1>>)
      BY <1>2, EndsAscend
    <3>2. \A z, w \in ends : (z[1] < w[1] <=> z[2] < w[2]) /\ (z[1] = w[1] => z = w)
      BY <1>2, EndsAscend
    <3>3. \A z \in pairs : z \in ends
      BY DEF Ends
    <3> QED BY <3>1, <3>2, <3>3
  <2> HIDE DEF ends
  <2>5. x[1] \in Nat /\ x[2] \in Nat /\ y[1] \in 0 .. m + 1 /\ y[2] \in 0 .. n + 1
    BY <2>1, <2>2, <2>4
  <2>6. x[1] \in 0 .. m /\ x[2] \in 0 .. n /\ y[1] - 1 \in x[1] .. m /\ y[2] - 1 \in x[2] .. n
    <3>1. \A v, w \in Nat : /\ v <= m /\ w > v /\ w \in 0 .. m + 1 => v \in 0 .. m /\ w - 1 \in v .. m
                            /\ w > v /\ w \in 0 .. n + 1 => v \in 0 .. n /\ w - 1 \in v .. n
      BY <1>2
    <3>2. y[1] \in Nat /\ y[2] \in Nat
      BY <2>5
    <3> QED BY <2>1, <2>2, <2>5, <3>1, <3>2
  <2>7. ASSUME <<m, n>> \in pairs PROVE x[1] # m /\ y[1] - 1 # m
    <3>1. <<m, n>> \in ends /\ <<m, n>>[1] = m /\ <<m, n>>[2] = n
      BY <2>4, <2>7
    <3>2. x[1] # m
      <4> SUFFICES ASSUME x[1] = m PROVE FALSE
        OBVIOUS
      <4>1. x[2] = n
        BY <2>1, <2>4, <3>1
      <4>2. y = <<m + 1, n + 1>>
        BY <1>2, <2>2, <2>4
      <4>3. y[1] = m + 1 /\ y[2] = n + 1
        BY <4>2
      <4> QED BY <1>2, <2>1, <4>1, <4>3
    <3>3. m > x[1]
      BY <1>2, <2>6, <3>2
    <3>4. y[1] <= m
      BY <2>2, <3>1, <3>3
    <3> QED BY <1>2, <2>5, <3>2, <3>4
  <2>8. EditorOffset(s, LinePosition(old, x[1])) = cut[x[1]]
    BY <2>6, <2>7
  <2>9. EditorOffset(s, LinePosition(old, y[1] - 1)) = cut[y[1] - 1]
    <3>1. y[1] - 1 \in 0 .. m
      BY <1>2, <2>6
    <3> QED BY <2>7, <3>1
  <2>10. ASSUME NEW j \in x[2] + 1 .. y[2] - 1 PROVE lines[j] = Between(u, end[j - 1], end[j])
    <3>1. j \in 1 .. n /\ x[2] < j /\ j < y[2]
      <4>1. \A v, w \in Nat : \A k \in v + 1 .. w - 1 : w \in 0 .. n + 1 => k \in 1 .. n /\ v < k /\ k < w
        BY <1>2
      <4>2. y[2] \in Nat
        BY <2>5
      <4> QED BY <2>5, <4>1, <4>2
    <3>2. ASSUME NEW z \in pairs, z[2] = j PROVE FALSE
      <4>1. z \in ends /\ x[1] < z[1] /\ z[1] < y[1]
        BY <2>1, <2>2, <2>4, <3>1, <3>2
      <4>2. y[1] <= z[1]
        BY <2>2, <4>1
      <4>3. z[1] \in Nat /\ y[1] \in Nat
        BY <1>2, <2>2, <2>4, <4>1
      <4> QED BY <4>1, <4>2, <4>3
    <3> QED BY <3>1, <3>2 DEF lines
  <2> DEFINE a == x[2]
             b == y[2] - 1
  <2>11. a \in 0 .. n /\ b \in a .. n
    BY <2>6
  <2>12. \A j \in a + 1 .. b : lines[j] = Between(u, end[j - 1], end[j])
    BY <2>10
  <2> HIDE DEF a, b
  <2>13. Len(lines) = n
    BY DEF lines
  <2>14. FlattenSeq(SubSeq(lines, a + 1, b)) = Between(u, end[a], end[b])
    BY <1>2, <1>5, <2>11, <2>12, <2>13, StretchOfLines
  <2>15. answer[i].text = Between(u, end[x[2]], end[y[2] - 1])
    BY <2>3, <2>14 DEF a, b
  <2> QED BY <2>3, <2>8, <2>9, <2>15 DEF x, y
<1>7. Answers(answer, s, m, cut, u, n, end, pairs)
  <2> HIDE DEF answer
  <2> QED BY <1>4, <1>6 DEF Answers
<1> QED BY <1>1, <1>7

-----------------------------------------------------------------------------
(* Applied, the answer gives the formatted text.                           *)

LEMMA TextPieces ==
  ASSUME NEW s \in Seq(Alphabet), NEW m, m = Len(LinesOf(s))
  PROVE  /\ m \in Nat /\ Pieces(s, m, Cut(s)) /\ LinesOf(s) \in Seq(Seq(Alphabet))
         /\ \A k \in 1 .. m : LinesOf(s)[k] = Between(s, Cut(s)[k - 1], Cut(s)[k])
<1>1. m \in Nat
  BY LinesCounted
<1>2. LinesOf(s) \in Seq(Seq(Alphabet)) /\ Cuts(LinesOf(s), s, Cut(s))
  BY LinesCut
<1> QED BY <1>1, <1>2 DEF Cuts, Pieces

LEMMA AnswerGives ==
  ASSUME NEW old \in Seq(Alphabet), NEW new \in Seq(Alphabet), Counted(old),
         NEW pairs \in Pairings(LinesOf(old), LinesOf(new))
  PROVE  AppliedTo(old, MinimalEdits(old, new, pairs)) = new
<1> DEFINE m == Len(LinesOf(old))
           n == Len(LinesOf(new))
<1>1. /\ m \in Nat /\ Pieces(old, m, Cut(old)) /\ LinesOf(old) \in Seq(Seq(Alphabet))
      /\ \A k \in 1 .. m : LinesOf(old)[k] = Between(old, Cut(old)[k - 1], Cut(old)[k])
  BY TextPieces
<1>2. /\ n \in Nat /\ Pieces(new, n, Cut(new)) /\ LinesOf(new) \in Seq(Seq(Alphabet))
      /\ \A k \in 1 .. n : LinesOf(new)[k] = Between(new, Cut(new)[k - 1], Cut(new)[k])
  BY TextPieces
<1>3. Paired(m, n, pairs) /\ \A p \in pairs : LinesOf(old)[p[1]] = LinesOf(new)[p[2]]
  BY <1>1, <1>2, PairingsPaired
<1>4. \A p \in pairs : p[1] \in 1 .. m /\ p[2] \in 1 .. n
  BY <1>3 DEF Paired
<1>5. \A k \in 0 .. m : EditorOffset(old, LinePosition(old, k)) = Cut(old)[k]
  BY LinePlaces
<1> HIDE DEF m, n
<1>6. \A p \in pairs : Between(old, Cut(old)[p[1] - 1], Cut(old)[p[1]])
                         = Between(new, Cut(new)[p[2] - 1], Cut(new)[p[2]])
  BY <1>1, <1>2, <1>3, <1>4
<1>7. PairedTexts(old, m, Cut(old), new, n, Cut(new), pairs)
  BY <1>1, <1>2, <1>3, <1>6 DEF PairedTexts
<1>8. Answers(MinimalEdits(old, new, pairs), old, m, Cut(old), new, n, Cut(new), pairs)
  <2>1. m = Len(LinesOf(old)) /\ n = Len(LinesOf(new))
    BY DEF m, n
  <2> QED BY <1>2, <1>5, <1>7, <2>1, DiffAnswers
<1> QED BY <1>7, <1>8, EditsMake

LEMMA LastOfLine ==
  ASSUME NEW s \in Seq(Alphabet), NEW k \in 1 .. Len(LinesOf(s))
  PROVE  LinesOf(s)[k][Len(LinesOf(s)[k])] = s[Cut(s)[k]]
<1> DEFINE x == Cut(s)[k - 1]
           y == Cut(s)[k]
<1>1. /\ LinesOf(s)[k] = Between(s, x, y) /\ x < y
      /\ Cut(s) \in [0 .. Len(LinesOf(s)) -> 0 .. Len(s)] /\ Len(LinesOf(s)) \in Nat
  BY LinesCut, LinesCounted DEF Cuts
<1>2. x \in 0 .. Len(s) /\ y \in 0 .. Len(s)
  <2>1. k - 1 \in 0 .. Len(LinesOf(s)) /\ k \in 0 .. Len(LinesOf(s))
    BY <1>1
  <2> QED BY <1>1, <2>1
<1> HIDE DEF x, y
<1>3. y \in x .. Len(s) /\ y - x \in 1 .. y - x /\ x + (y - x) = y
  BY <1>1, <1>2
<1>4. Len(Between(s, x, y)) = y - x /\ \A i \in 1 .. y - x : Between(s, x, y)[i] = s[x + i]
  BY <1>2, <1>3, StretchElements
<1>5. Between(s, x, y)[Len(Between(s, x, y))] = s[y]
  BY <1>3, <1>4
<1> QED BY <1>1, <1>5 DEF y

(* A line without a break is paired with a last one.                       *)
LEMMA LastWithLast ==
  ASSUME NEW old \in Seq(Alphabet), NEW new \in Seq(Alphabet), Counted(old),
         NEW j \in 1 .. Len(LinesOf(new)),
         NEW k \in 1 .. Len(LinesOf(old)), k \notin 0 .. Cardinality(EditorBreaks(old)),
         LinesOf(old)[k] = LinesOf(new)[j]
  PROVE  k = Len(LinesOf(old)) /\ j = Len(LinesOf(new))
<1> DEFINE b == EditorBreaks(old)
           d == EditorBreaks(new)
           m == Len(LinesOf(old))
           n == Len(LinesOf(new))
<1>1. /\ m \in Nat /\ Cardinality(b) \in Nat
      /\ m = IF Len(old) = 0 \/ Len(old) \in b THEN Cardinality(b) ELSE Cardinality(b) + 1
  BY LinesCounted
<1>2. /\ n \in Nat /\ Cardinality(d) \in Nat /\ n <= Cardinality(d) + 1
  BY LinesCounted
<1>3. k = m /\ Len(old) # 0 /\ Len(old) \notin b
  BY <1>1
<1>4. Cut(old)[k] = Len(old)
  <2>1. k \in 0 .. m
    BY <1>1
  <2> QED BY <2>1, LinesCut
<1>5. old[Len(old)] \notin {"lf", "cr"}
  <2>1. Len(old) \in DOMAIN old
    BY <1>3
  <2> QED BY <1>3, <2>1 DEF EditorBreaks, LineFeeds, LoneReturns
<1>6. ASSUME j # n PROVE FALSE
  <2>1. j \in 0 .. Cardinality(d) /\ j - 1 \in 0 .. n /\ j \in 0 .. n
    BY <1>2, <1>6
  <2>2. Cut(new)[j] = StartOf(d, j) /\ Cut(new)[j - 1] < Cut(new)[j]
    BY <2>1, LinesCut
  <2>3. Cut(new)[j - 1] \in Nat
    <3> DEFINE x == Cut(new)
    <3>1. x \in [0 .. n -> 0 .. Len(new)]
      BY LinesCut DEF Cuts
    <3> HIDE DEF x, n
    <3>2. x[j - 1] \in 0 .. Len(new)
      BY <2>1, <3>1
    <3> QED BY <3>2 DEF x
  <2>4. Cut(new)[j] \in d
    <3>1. Cut(new)[j] \in d \cup {0}
      BY <2>1, <2>2, EditorsBreaks, BreakNumbers
    <3> QED BY <2>2, <2>3, <3>1
  <2>5. new[Cut(new)[j]] \in {"lf", "cr"}
    BY <2>4, EditorsBreaks
  <2>6. new[Cut(new)[j]] = old[Cut(old)[k]]
    BY LastOfLine
  <2> QED BY <1>4, <1>5, <2>5, <2>6
<1> QED BY <1>3, <1>6

\* The lines the user leaves, and the one typed over, in the text formatted.
TypedLinesOf(old, new, p, c, t) ==
  [LinesOf(new) EXCEPT ![p[2]] = Typed \o Between(old, c, t)]

LEMMA TypedPairs ==
  ASSUME NEW old, NEW K, NEW f, NEW t, NEW c, NEW u, TypedOver(old, K, f, t, c, u),
         NEW new \in Seq(Alphabet), NEW pairs \in Pairings(LinesOf(old), LinesOf(new)),
         NEW p \in pairs, p[1] = K, NEW q, q = TypedLinesOf(old, new, p, c, t)
  PROVE  /\ q \in Seq(Seq(Alphabet)) /\ Len(q) = Len(LinesOf(new))
         /\ \A x \in pairs : x[1] \in 1 .. Len(LinesOf(old)) /\ x[2] \in 1 .. Len(q)
         /\ \A x \in pairs : q[x[2]] = Between(u, TypedCut(old, K, f, c)[x[1] - 1],
                                                  TypedCut(old, K, f, c)[x[1]])
         /\ \A j \in 1 .. Len(q) : j = p[2] \/ q[j] = LinesOf(new)[j]
<1> DEFINE m == Len(LinesOf(old))
           n == Len(LinesOf(new))
           lines == LinesOf(new)
           line == Typed \o Between(old, c, t)
<1>1. old \in Seq(Alphabet) /\ K \in 1 .. m /\ t \in c .. Len(old) /\ c \in 0 .. Len(old)
  <2>1. old \in Seq(Alphabet) /\ K \in 1 .. m
    BY DEF TypedOver
  <2>2. TypedIn(old, f, c, u) /\ t \in c .. Len(old)
    BY TypedCuts
  <2>3. c \in 0 .. Len(old)
    BY <2>2 DEF TypedIn
  <2> QED BY <2>1, <2>2, <2>3
<1>2. LinesOf(old) \in Seq(Seq(Alphabet)) /\ lines \in Seq(Seq(Alphabet)) /\ m \in Nat /\ n \in Nat
  BY <1>1, TextPieces
<1>3. Paired(m, n, pairs) /\ \A x \in pairs : LinesOf(old)[x[1]] = lines[x[2]]
  BY <1>2, PairingsPaired
<1>4. line \in Seq(Alphabet)
  <2>1. Between(old, c, t) \in Seq(Alphabet)
    BY <1>1, StretchElements
  <2>2. Typed \in Seq(Alphabet)
    BY DEF Typed, Alphabet
  <2> QED BY <2>1, <2>2
<1>5. p[1] \in 1 .. m /\ p[2] \in 1 .. n /\ \A x \in pairs : x[1] \in 1 .. m /\ x[2] \in 1 .. n
  BY <1>3 DEF Paired
<1>6. \A x \in pairs : x # p => x[1] # K /\ x[2] # p[2]
  <2> SUFFICES ASSUME NEW x \in pairs, x # p PROVE x[1] # K /\ x[2] # p[2]
    OBVIOUS
  <2>1. (x[1] < p[1] <=> x[2] < p[2]) /\ (p[1] < x[1] <=> p[2] < x[2]) /\ x[1] # p[1]
    BY <1>3 DEF Paired, InOrder
  <2> QED BY <1>5, <2>1
<1> HIDE DEF line, lines
<1>7. /\ q \in Seq(Seq(Alphabet)) /\ Len(q) = n /\ q[p[2]] = line
      /\ \A j \in 1 .. n : j # p[2] => q[j] = lines[j]
  <2>1. q = [lines EXCEPT ![p[2]] = line]
    BY DEF TypedLinesOf, lines, line
  <2>2. Len(lines) = n
    BY DEF lines
  <2> HIDE DEF n
  <2>3. lines \in [1 .. n -> Seq(Alphabet)]
    BY <1>2, <2>2
  <2>4. q \in [1 .. n -> Seq(Alphabet)] /\ q[p[2]] = line /\ \A j \in 1 .. n : j # p[2] => q[j] = lines[j]
    BY <1>4, <1>5, <2>1, <2>3
  <2> QED BY <1>2, <2>4, FunctionIsSequence
<1>8. ASSUME NEW x \in pairs
      PROVE  q[x[2]] = Between(u, TypedCut(old, K, f, c)[x[1] - 1], TypedCut(old, K, f, c)[x[1]])
  <2>1. Between(u, TypedCut(old, K, f, c)[x[1] - 1], TypedCut(old, K, f, c)[x[1]])
          = IF x[1] = K THEN line ELSE LinesOf(old)[x[1]]
    BY <1>5, TypedPieces DEF line
  <2>2. CASE x = p
    BY <1>7, <2>1, <2>2
  <2>3. CASE x # p
    BY <1>3, <1>5, <1>6, <1>7, <2>1, <2>3
  <2> QED BY <2>2, <2>3
<1> QED BY <1>5, <1>7, <1>8 DEF lines

(* Applied to what the user typed over a paired line, the answer gives the *)
(* formatted text with that line as the user left it.                      *)
LEMMA TypedAnswerGives ==
  ASSUME NEW old, NEW K, NEW f, NEW t, NEW c, NEW u, TypedOver(old, K, f, t, c, u),
         NEW new \in Seq(Alphabet), NEW pairs \in Pairings(LinesOf(old), LinesOf(new)),
         NEW p \in pairs, p[1] = K, NEW q, q = TypedLinesOf(old, new, p, c, t)
  PROVE  /\ q \in Seq(Seq(Alphabet)) /\ FlattenSeq(q) \in Seq(Alphabet)
         /\ AppliedTo(u, MinimalEdits(old, new, pairs)) = FlattenSeq(q)
<1> DEFINE m == Len(LinesOf(old))
           n == Len(LinesOf(new))
           goal2 == FlattenSeq(q)
           cut == TypedCut(old, K, f, c)
<1>1. old \in Seq(Alphabet) /\ Counted(old) /\ K \in 1 .. m
  BY DEF TypedOver
<1>2. q \in Seq(Seq(Alphabet)) /\ Len(q) = n
  BY TypedPairs
<1>3. \A x \in pairs : x[1] \in 1 .. m /\ x[2] \in 1 .. n /\ q[x[2]] = Between(u, cut[x[1] - 1], cut[x[1]])
  BY <1>2, TypedPairs
<1>4. \A j \in 1 .. n : j = p[2] \/ q[j] = LinesOf(new)[j]
  BY <1>2, TypedPairs
<1>5. m \in Nat /\ n \in Nat
  BY <1>1, TextPieces
<1>6. goal2 \in Seq(Alphabet) /\ \E end : Cuts(q, goal2, end)
  BY <1>2, PiecesCut
<1>7. PICK end : Cuts(q, goal2, end)
  BY <1>6
<1> HIDE DEF goal2, cut, m, n
<1>8. Pieces(goal2, n, end) /\ \A j \in 1 .. n : Between(goal2, end[j - 1], end[j]) = q[j]
  BY <1>2, <1>6, <1>7 DEF Cuts, Pieces
<1>9. Pieces(u, m, cut)
  <2>1. TypedIn(old, f, c, u) /\ cut \in [0 .. m -> 0 .. Len(u)]
    BY TypedCuts DEF cut, m
  <2>2. \A k \in 0 .. m : /\ k < K => cut[k] = Cut(old)[k]
                          /\ k >= K => cut[k] = After(f, c, Cut(old)[k])
    BY TypedCuts DEF cut, m
  <2>3. Cut(old)[0] = 0 /\ Cut(old)[m] = Len(old)
    BY <1>1, LinesCut DEF Cuts, m
  <2>4. \A k \in 1 .. m : cut[k - 1] <= cut[k]
    BY TypedPieces DEF cut, m
  <2>5. cut[0] = 0 /\ cut[m] = After(f, c, Len(old))
    BY <1>1, <1>5, <2>2, <2>3
  <2>6. u \in Seq(Alphabet) /\ Len(u) = After(f, c, Len(old))
    BY <2>1 DEF TypedIn
  <2> QED BY <2>1, <2>4, <2>5, <2>6 DEF Pieces
<1>10. LinesOf(old) \in Seq(Seq(Alphabet)) /\ LinesOf(new) \in Seq(Seq(Alphabet))
  BY <1>1, TextPieces
<1>11. Paired(m, n, pairs) /\ \A x \in pairs : LinesOf(old)[x[1]] = LinesOf(new)[x[2]]
  BY <1>10, PairingsPaired DEF m, n
<1>12. PairedTexts(u, m, cut, goal2, n, end, pairs)
  <2>1. \A x \in pairs : Between(u, cut[x[1] - 1], cut[x[1]]) = Between(goal2, end[x[2] - 1], end[x[2]])
    BY <1>3, <1>8
  <2> QED BY <1>8, <1>9, <1>11, <2>1 DEF PairedTexts
<1>13. ASSUME NEW k \in 0 .. m
       PROVE  EditorOffset(u, LinePosition(old, k)) = cut[k] \/ (k = m /\ <<m, n>> \in pairs)
  <2>1. CASE k \in 0 .. Cardinality(EditorBreaks(old)) \/ K < k
    BY <2>1, TypedPlaces DEF cut, m
  <2>2. CASE k \notin 0 .. Cardinality(EditorBreaks(old)) /\ ~(K < k)
    <3>1. Cardinality(EditorBreaks(old)) \in Nat
          /\ m = IF Len(old) = 0 \/ Len(old) \in EditorBreaks(old) THEN Cardinality(EditorBreaks(old))
                                                     ELSE Cardinality(EditorBreaks(old)) + 1
      BY <1>1, LinesCounted DEF m
    <3>2. k = K /\ K \notin 0 .. Cardinality(EditorBreaks(old))
      BY <1>1, <1>5, <2>2, <3>1
    <3>3. p[2] \in 1 .. Len(LinesOf(new)) /\ LinesOf(old)[K] = LinesOf(new)[p[2]] /\ K \in 1 .. Len(LinesOf(old))
      BY <1>1, <1>3, <1>11 DEF m, n
    <3>4. K = m /\ p[2] = n
      BY <1>1, <3>2, <3>3, LastWithLast DEF m, n
    <3>5. p = <<p[1], p[2]>>
      BY <1>11 DEF Paired
    <3> QED BY <3>2, <3>4, <3>5
  <2> QED BY <2>1, <2>2
<1>14. \A j \in 1 .. n : \/ LinesOf(new)[j] = Between(goal2, end[j - 1], end[j])
                         \/ \E x \in pairs : x[2] = j
  BY <1>4, <1>8
<1>15. Answers(MinimalEdits(old, new, pairs), u, m, cut, goal2, n, end, pairs)
  BY <1>1, <1>12, <1>13, <1>14, DiffAnswers DEF m, n
<1>16. AppliedTo(u, MinimalEdits(old, new, pairs)) = goal2
  BY <1>12, <1>15, EditsMake
<1> QED BY <1>2, <1>6, <1>16 DEF goal2

-----------------------------------------------------------------------------
(* What the formatter makes of a text is one, and nothing to do is an      *)
(* empty answer.                                                           *)

LEMMA SameText ==
  ASSUME NEW s \in Seq(Alphabet), NEW same, same = {<<i, i>> : i \in DOMAIN LinesOf(s)}
  PROVE  same \in Pairings(LinesOf(s), LinesOf(s)) /\ MinimalEdits(s, s, same) = <<>>
<1> DEFINE m == Len(LinesOf(s))
           ends == Ends(m, m, same)
           gaps == Gaps(m, ends)
           answer == [i \in 1 .. Cardinality(gaps) |->
                        [start |-> LinePosition(s, Turn(gaps, i)[1]),
                         end |-> LinePosition(s, Next1(ends, Turn(gaps, i))[1] - 1),
                         text |-> FlattenSeq(SubSeq(LinesOf(s), Turn(gaps, i)[2] + 1,
                                                    Next1(ends, Turn(gaps, i))[2] - 1))]]
<1>1. LinesOf(s) \in Seq(Seq(Alphabet)) /\ m \in Nat
  BY TextPieces
<1>2. same \in Pairings(LinesOf(s), LinesOf(s))
  <2>1. same \subseteq {p \in (DOMAIN LinesOf(s)) \X (DOMAIN LinesOf(s)) : LinesOf(s)[p[1]] = LinesOf(s)[p[2]]}
    OBVIOUS
  <2>2. InOrder(same)
    BY DEF InOrder
  <2> QED BY <2>1, <2>2 DEF Pairings
<1>3. Paired(m, m, same)
  BY <1>1, <1>2, PairingsPaired
<1>4. MinimalEdits(s, s, same) = answer
  BY DEF MinimalEdits, Ends, Next1, Gaps, Turn
<1>5. DOMAIN LinesOf(s) = 1 .. m
  BY <1>1
<1>6. \A p \in ends : p[1] = p[2] /\ p[1] \in 0 .. m + 1
  BY <1>1, <1>5 DEF Ends
<1>7. \A k \in 0 .. m + 1 : <<k, k>> \in ends
  <2>1. \A k \in 1 .. m : <<k, k>> \in same
    BY <1>5
  <2> QED BY <1>1, <2>1 DEF Ends
<1>8. ends = Ends(m, m, same)
  OBVIOUS
<1> HIDE DEF m, ends
<1>9. ASSUME NEW p \in gaps PROVE FALSE
  <2>1. p \in ends /\ p[1] <= m
    BY DEF Gaps
  <2>2. /\ Next1(ends, p) \in ends /\ Next1(ends, p)[1] > p[1]
        /\ \A r \in ends : r[1] > p[1] => Next1(ends, p)[1] <= r[1]
    BY <1>3, <1>8, <2>1, NextEnd
  <2> DEFINE next == Next1(ends, p)
             k == p[1]
  <2>3. k \in 0 .. m + 1 /\ k <= m
    BY <1>6, <2>1
  <2>4. k + 1 \in 0 .. m + 1 /\ <<k + 1, k + 1>> \in ends
    BY <1>1, <1>7, <2>3
  <2>5. next[1] <= k + 1
    BY <2>2, <2>3, <2>4
  <2>6. next[1] = next[2] /\ next[1] \in 0 .. m + 1 /\ p[2] = k
    BY <1>6, <2>1, <2>2
  <2>7. next[1] > k + 1 \/ next[2] > k + 1
    BY <2>6 DEF Gaps
  <2> QED BY <2>3, <2>5, <2>6, <2>7
<1>10. Cardinality(gaps) = 0
  BY <1>9, FS_EmptySet
<1> HIDE DEF gaps
<1>11. answer = <<>>
  BY <1>10
<1> QED BY <1>2, <1>4, <1>11

LEMMA ResultsAreTexts ==
  ASSUME NEW s \in Seq(Alphabet), NEW r \in Results(s)
  PROVE  r \in Seq(Alphabet)
<1> DEFINE altered == {<<>>, <<"f", "lf">>, <<"lf", "f", "lf">>}
<1>1. CASE r \in {x \o <<"lf">> : x \in Strings(FormatterCharacters, MaxResult)}
  <2>1. PICK x \in Strings(FormatterCharacters, MaxResult) : r = x \o <<"lf">>
    BY <1>1
  <2>2. PICK k \in 0 .. MaxResult : x \in [1 .. k -> FormatterCharacters]
    BY DEF Strings
  <2>3. x \in [1 .. k -> Alphabet] /\ k \in Nat
    BY <2>2 DEF FormatterCharacters, Alphabet, Characters
  <2>4. x \in Seq(Alphabet)
    BY <2>3, FunctionIsSequence
  <2>5. <<"lf">> \in Seq(Alphabet)
    BY DEF Alphabet, Characters
  <2> QED BY <2>1, <2>4, <2>5
<1>2. CASE r \in {LineBecomes(LinesOf(s), k, by) : k \in DOMAIN LinesOf(s), by \in altered}
  <2> HIDE DEF altered
  <2>1. PICK k \in DOMAIN LinesOf(s), by \in altered : r = LineBecomes(LinesOf(s), k, by)
    BY <1>2
  <2>2. LinesOf(s) \in Seq(Seq(Alphabet)) /\ Len(LinesOf(s)) \in Nat
    BY TextPieces
  <2>3. by \in Seq(Alphabet)
    <3>1. "f" \in Alphabet /\ "lf" \in Alphabet
      BY DEF Alphabet, Characters
    <3>2. <<>> \in Seq(Alphabet)
      OBVIOUS
    <3>3. <<"f", "lf">> \in Seq(Alphabet)
      BY <3>1
    <3>4. <<"lf", "f", "lf">> \in Seq(Alphabet)
      BY <3>1
    <3> QED BY <3>2, <3>3, <3>4 DEF altered
  <2>4. [LinesOf(s) EXCEPT ![k] = by] \in [1 .. Len(LinesOf(s)) -> Seq(Alphabet)]
    BY <2>2, <2>3
  <2>5. [LinesOf(s) EXCEPT ![k] = by] \in Seq(Seq(Alphabet))
    BY <2>2, <2>4, FunctionIsSequence
  <2>6. FlattenSeq([LinesOf(s) EXCEPT ![k] = by]) \in Seq(Alphabet)
    BY <2>5, PiecesCut
  <2> QED BY <2>1, <2>6 DEF LineBecomes
<1>3. Results(s) = {x \o <<"lf">> : x \in Strings(FormatterCharacters, MaxResult)}
                     \cup {LineBecomes(LinesOf(s), k, by) : k \in DOMAIN LinesOf(s), by \in altered}
  BY DEF Results
<1> HIDE DEF altered
<1> QED BY <1>1, <1>2, <1>3

LEMMA JoinsAssociate ==
  ASSUME NEW s \in Seq(Alphabet), NEW t \in Seq(Alphabet), NEW u \in Seq(Alphabet)
  PROVE  (s \o t) \o u = s \o (t \o u)
<1> DEFINE st == s \o t
           tu == t \o u
           left == st \o u
           right == s \o tu
<1>1. /\ st \in Seq(Alphabet) /\ Len(st) = Len(s) + Len(t)
      /\ \A j \in 1 .. Len(s) + Len(t) : st[j] = IF j <= Len(s) THEN s[j] ELSE t[j - Len(s)]
  BY ConcatElements
<1>2. /\ tu \in Seq(Alphabet) /\ Len(tu) = Len(t) + Len(u)
      /\ \A j \in 1 .. Len(t) + Len(u) : tu[j] = IF j <= Len(t) THEN t[j] ELSE u[j - Len(t)]
  BY ConcatElements
<1> HIDE DEF st, tu
<1>3. st \in Seq(Alphabet) /\ tu \in Seq(Alphabet)
  BY <1>1, <1>2
<1>4. left \in Seq(Alphabet) /\ right \in Seq(Alphabet)
  BY <1>3
<1>5. Len(left) = Len(st) + Len(u) /\ Len(right) = Len(s) + Len(tu)
  BY <1>3
<1>6. \A j \in 1 .. Len(st) + Len(u) : left[j] = IF j <= Len(st) THEN st[j] ELSE u[j - Len(st)]
  BY <1>3
<1>7. \A j \in 1 .. Len(s) + Len(tu) : right[j] = IF j <= Len(s) THEN s[j] ELSE tu[j - Len(s)]
  BY <1>3
<1> HIDE DEF left, right
<1>8. Len(s) \in Nat /\ Len(t) \in Nat /\ Len(u) \in Nat
  OBVIOUS
<1>9. Len(left) = Len(right) /\ Len(left) = Len(s) + Len(t) + Len(u)
  BY <1>1, <1>2, <1>5, <1>8
<1>10. ASSUME NEW j \in 1 .. Len(left) PROVE left[j] = right[j]
  <2>1. CASE j <= Len(s)
    BY <1>1, <1>5, <1>6, <1>7, <1>8, <1>9, <2>1
  <2>2. CASE j > Len(s) /\ j <= Len(s) + Len(t)
    <3>1. j - Len(s) \in 1 .. Len(t) /\ j - Len(s) \in 1 .. Len(t) + Len(u)
      BY <1>8, <1>9, <2>2
    <3>2. left[j] = t[j - Len(s)]
      BY <1>1, <1>5, <1>6, <1>8, <1>9, <2>2
    <3>3. right[j] = tu[j - Len(s)]
      BY <1>5, <1>7, <1>8, <1>9, <2>2
    <3>4. PICK k : k = j - Len(s)
      OBVIOUS
    <3>5. k \in 1 .. Len(t) + Len(u) /\ k <= Len(t)
      BY <1>8, <3>1, <3>4
    <3>6. tu[k] = t[k]
      BY <1>2, <3>5
    <3> QED BY <3>2, <3>3, <3>4, <3>6
  <2>3. CASE j > Len(s) + Len(t)
    <3>1. j - Len(s) \in 1 .. Len(t) + Len(u) /\ j - Len(s) > Len(t)
          /\ (j - Len(s)) - Len(t) = j - (Len(s) + Len(t))
      BY <1>8, <1>9, <2>3
    <3>2. left[j] = u[j - (Len(s) + Len(t))]
      BY <1>1, <1>5, <1>6, <1>8, <1>9, <2>3
    <3>3. right[j] = tu[j - Len(s)]
      BY <1>5, <1>7, <1>8, <1>9, <2>3
    <3>4. PICK k : k = j - Len(s)
      OBVIOUS
    <3>5. k \in 1 .. Len(t) + Len(u) /\ ~(k <= Len(t)) /\ k - Len(t) = j - (Len(s) + Len(t))
      BY <1>8, <3>1, <3>4
    <3>6. tu[k] = u[k - Len(t)]
      BY <1>2, <3>5
    <3> QED BY <3>2, <3>3, <3>4, <3>5, <3>6
  <2> QED BY <1>8, <1>9, <2>1, <2>2, <2>3
<1>11. left = right
  BY <1>4, <1>9, <1>10, SameElements DEF left, right
<1> QED BY <1>11 DEF left, right, st, tu

(* A single edit.                                                          *)
LEMMA OneEdit ==
  ASSUME NEW s \in Seq(Alphabet), NEW from \in 0 .. Len(s), NEW to \in from .. Len(s),
         NEW start, NEW end, EditorOffset(s, start) = from, EditorOffset(s, end) = to,
         NEW text \in Seq(Alphabet)
  PROVE  AppliedTo(s, <<[start |-> start, end |-> end, text |-> text]>>) = Replaced(s, from, to, text)
<1> DEFINE answer == <<[start |-> start, end |-> end, text |-> text]>>
           a == Between(s, 0, from)
           z == Between(s, to, Len(s))
           begin(i) == IF i > Len(answer) THEN Len(s) ELSE EditorOffset(s, answer[i].start)
           stop(i) == EditorOffset(s, answer[i].end)
           piece(i) == answer[i].text \o Between(s, stop(i), begin(i + 1))
           q == [i \in DOMAIN answer |-> piece(i)]
<1>1. a \in Seq(Alphabet) /\ z \in Seq(Alphabet)
  <2>1. Len(s) \in Nat /\ 0 \in 0 .. Len(s) /\ from \in 0 .. Len(s)
        /\ to \in 0 .. Len(s) /\ Len(s) \in to .. Len(s)
    OBVIOUS
  <2>2. a \in Seq(Alphabet)
    BY <2>1, StretchElements
  <2>3. z \in Seq(Alphabet)
    BY <2>1, StretchElements
  <2> QED BY <2>2, <2>3
<1>2. DOMAIN answer = 1 .. 1 /\ Len(answer) = 1 /\ answer[1].start = start
      /\ answer[1].end = end /\ answer[1].text = text
  OBVIOUS
<1> HIDE DEF answer
<1>3. begin(1) = from /\ stop(1) = to /\ begin(1 + 1) = Len(s)
  BY <1>2
<1>4. q = <<text \o z>>
  <2>1. piece(1) = text \o z
    <3> HIDE DEF begin, stop
    <3> QED BY <1>2, <1>3
  <2> HIDE DEF piece
  <2>2. q = [i \in 1 .. 1 |-> piece(i)]
    BY <1>2
  <2>3. Len(q) = 1 /\ q[1] = piece(1)
    BY <2>2
  <2> QED BY <2>1, <2>2, <2>3
<1>5. AppliedTo(s, answer) = a \o FlattenSeq(q)
  <2>1. AppliedTo(s, answer) = Between(s, 0, begin(1)) \o FlattenSeq(q)
    BY DEF AppliedTo
  <2> QED BY <1>3, <2>1
<1> HIDE DEF q
<1>6. FlattenSeq(<<text \o z>>) = text \o z
  <2> DEFINE v == text \o z
             cut == [i \in 0 .. 1 |-> IF i = 0 THEN 0 ELSE Len(v)]
  <2>1. v \in Seq(Alphabet)
    BY <1>1
  <2> HIDE DEF v
  <2>2. <<v>> \in Seq(Seq(Alphabet)) /\ Len(<<v>>) = 1 /\ <<v>>[1] = v
    BY <2>1
  <2>3. Between(v, 0, Len(v)) = v
    BY <2>1, WholeText
  <2>4. cut \in [0 .. 1 -> 0 .. Len(v)] /\ cut[0] = 0 /\ cut[1] = Len(v) /\ Len(v) >= 0
    BY <2>1
  <2> HIDE DEF cut
  <2>5. Cuts(<<v>>, v, cut)
    <3>1. \A i \in 1 .. 1 : cut[i - 1] <= cut[i] /\ Between(v, cut[i - 1], cut[i]) = <<v>>[i]
      BY <2>2, <2>3, <2>4
    <3> QED BY <2>2, <2>4, <3>1 DEF Cuts
  <2> QED BY <2>1, <2>2, <2>5, CutsFlatten DEF v
<1>7. (a \o text) \o z = a \o (text \o z)
  BY <1>1, JoinsAssociate
<1> QED BY <1>4, <1>5, <1>6, <1>7 DEF Replaced, answer

(* A result that is put for part of a line loses its line feeds.           *)
LEMMA FeedsDropped ==
  ASSUME NEW f \in {<<"f", "lf">>, <<"f", "lf", "lf">>}, NEW slice
  PROVE  /\ MatchTrailingNewline(f, slice) = (IF EndsLine(slice) THEN f ELSE <<"f">>)
         /\ MatchTrailingNewline(f, slice) \in Seq(Alphabet)
<1> DEFINE rest == {n \in 0 .. Len(f) : \A i \in n + 1 .. Len(f) : f[i] = "lf"}
           least == CHOOSE n \in rest : \A m \in rest : n <= m
<1>1. Len(f) \in {2, 3} /\ f[1] = "f" /\ \A i \in 2 .. Len(f) : f[i] = "lf"
  OBVIOUS
<1>2. f \in Seq(Alphabet) /\ <<"f">> \in Seq(Alphabet)
  <2>1. "f" \in Alphabet /\ "lf" \in Alphabet
    BY DEF Alphabet, Characters
  <2>2. <<"f">> \in Seq(Alphabet)
    BY <2>1
  <2>3. CASE f = <<"f", "lf">>
    BY <2>1, <2>2, <2>3
  <2>4. CASE f = <<"f", "lf", "lf">>
    BY <2>1, <2>2, <2>4
  <2> QED BY <2>3, <2>4
<1>3. 1 \in rest
  BY <1>1
<1>4. \A n \in rest : 1 <= n
  <2> SUFFICES ASSUME NEW n \in 0 .. Len(f), \A i \in n + 1 .. Len(f) : f[i] = "lf" PROVE 1 <= n
    OBVIOUS
  <2>1. CASE n = 0
    <3>1. 1 \in n + 1 .. Len(f)
      BY <1>1, <2>1
    <3> QED BY <1>1, <3>1
  <2> QED BY <1>1, <2>1
<1>5. \A n \in rest : n \in Nat
  BY <1>1
<1> HIDE DEF rest
<1>6. least = 1
  BY <1>3, <1>4, <1>5
<1>7. Between(f, 0, 1) = <<"f">>
  <2>1. 1 \in 0 .. Len(f) /\ 0 \in 0 .. Len(f) /\ 1 \in 0 .. Len(f)
    BY <1>1
  <2>2. /\ Between(f, 0, 1) \in Seq(Alphabet) /\ Len(Between(f, 0, 1)) = 1
        /\ Between(f, 0, 1)[1] = "f"
    <3>1. /\ Between(f, 0, 1) \in Seq(Alphabet) /\ Len(Between(f, 0, 1)) = 1 - 0
          /\ \A i \in 1 .. 1 - 0 : Between(f, 0, 1)[i] = f[0 + i]
      BY <1>2, <2>1, StretchElements
    <3> QED BY <1>1, <3>1
  <2>3. \A i \in 1 .. 1 : Between(f, 0, 1)[i] = <<"f">>[i]
    BY <2>2
  <2> QED BY <1>2, <2>2, <2>3, SameElements
<1>8. MatchTrailingNewline(f, slice) = IF EndsLine(slice) THEN f ELSE Between(f, 0, least)
  BY DEF MatchTrailingNewline, rest
<1> QED BY <1>2, <1>6, <1>7, <1>8

\* The edit of a range, from one cursor to another.
RangeAsked(s, side, from, to, start, end, slice, f) ==
  /\ s \in Seq(Alphabet) /\ Counted(s) /\ side \in {"editor", "server"}
  /\ from \in CursorOffsets(s) /\ to \in CursorOffsets(s) /\ from < to
  /\ start = PositionsBy(side, s, from) /\ end = PositionsBy(side, s, to)
  /\ slice = Between(s, OffsetOf(s, start), OffsetOf(s, end))
  /\ f \in {<<"f", "lf">>, <<"f", "lf", "lf">>}

(* A range's edit puts the result where the editor's cursors were.         *)
LEMMA RangeAnswer ==
  ASSUME NEW s, NEW side, NEW from, NEW to, NEW start, NEW end, NEW slice, NEW f,
         RangeAsked(s, side, from, to, start, end, slice, f)
  PROVE  AppliedTo(s, <<[start |-> start, end |-> end, text |-> MatchTrailingNewline(f, slice)]>>)
           = Replaced(s, from, to, IF EndsLine(slice) THEN f ELSE <<"f">>)
<1>7. s \in Seq(Alphabet) /\ Counted(s) /\ from < to /\ f \in {<<"f", "lf">>, <<"f", "lf", "lf">>}
  BY DEF RangeAsked
<1>1. LoneReturns(s) = {}
  BY <1>7, CountedText
<1>2. start = PositionOf(s, from) /\ EditorOffset(s, start) = from
  BY <1>1, PlacesAgree DEF PositionsBy, RangeAsked
<1>3. end = PositionOf(s, to) /\ EditorOffset(s, end) = to
  BY <1>1, PlacesAgree DEF PositionsBy, RangeAsked
<1>4. from \in 0 .. Len(s) /\ to \in 0 .. Len(s)
  BY DEF CursorOffsets, RangeAsked
<1>5. to \in from .. Len(s)
  BY <1>4, <1>7
<1>6. /\ MatchTrailingNewline(f, slice) \in Seq(Alphabet)
      /\ MatchTrailingNewline(f, slice) = (IF EndsLine(slice) THEN f ELSE <<"f">>)
  BY <1>7, FeedsDropped
<1>8. PICK text : text = MatchTrailingNewline(f, slice)
  OBVIOUS
<1>9. AppliedTo(s, <<[start |-> start, end |-> end, text |-> text]>>) = Replaced(s, from, to, text)
  <2>1. /\ s \in Seq(Alphabet) /\ from \in 0 .. Len(s) /\ to \in from .. Len(s)
        /\ EditorOffset(s, start) = from /\ EditorOffset(s, end) = to /\ text \in Seq(Alphabet)
    BY <1>2, <1>3, <1>4, <1>5, <1>6, <1>7, <1>8
  <2> QED BY <2>1, OneEdit
<1> QED BY <1>6, <1>8, <1>9

-----------------------------------------------------------------------------
(* The edits a format is answered with.                                    *)

Answered ==
  /\ buffer = asked /\ goal \in Seq(Alphabet) /\ Counted(asked)
  /\ kept \in Pairings(LinesOf(asked), LinesOf(goal))
  /\ edits = MinimalEdits(asked, goal, kept)

EditsInv ==
  /\ AskedIsText
  /\ step = "idle" => buffer = asked
  /\ step = "answered" /\ Counted(asked) => Answered
  /\ step \in {"edited", "ranged"} /\ Counted(asked) => AppliedTo(buffer, edits) = goal
  /\ EditsGiveFormatted

LEMMA InitEdits == EditsInit => EditsInv
<1> SUFFICES ASSUME EditsInit PROVE EditsInv
  OBVIOUS
<1>1. PICK k \in 0 .. MaxText : asked \in [1 .. k -> Characters]
  BY DEF EditsInit, Strings
<1>2. AskedIsText
  BY <1>1 DEF AskedIsText, Alphabet
<1> QED BY <1>2 DEF EditsInit, EditsInv, EditsGiveFormatted

LEMMA FormatWholeEdits == ASSUME EditsInv, FormatWhole PROVE EditsInv'
<1>1. /\ step = "idle" /\ step' = "answered" /\ asked' = asked /\ buffer' = buffer
      /\ asked \in Seq(Alphabet) /\ buffer = asked
  BY DEF FormatWhole, EditsInv, AskedIsText
<1>7. PICK formatted \in Results(asked) : \E pairs \in Pairings(LinesOf(asked), LinesOf(formatted)) :
        /\ goal' = formatted
        /\ kept' = IF formatted = asked THEN {<<i, i>> : i \in DOMAIN LinesOf(asked)}
                                        ELSE pairs
        /\ edits' = IF formatted = asked THEN <<>> ELSE MinimalEdits(asked, formatted, pairs)
  BY DEF FormatWhole
<1>2. PICK pairs \in Pairings(LinesOf(asked), LinesOf(formatted)) :
        /\ goal' = formatted
        /\ kept' = IF formatted = asked THEN {<<i, i>> : i \in DOMAIN LinesOf(asked)}
                                        ELSE pairs
        /\ edits' = IF formatted = asked THEN <<>> ELSE MinimalEdits(asked, formatted, pairs)
  BY <1>7
<1>3. formatted \in Seq(Alphabet)
  BY <1>1, ResultsAreTexts
<1>4. kept' \in Pairings(LinesOf(asked), LinesOf(formatted))
      /\ edits' = MinimalEdits(asked, formatted, kept')
  <2>1. CASE formatted = asked
    <3>1. /\ {<<i, i>> : i \in DOMAIN LinesOf(asked)} \in Pairings(LinesOf(asked), LinesOf(asked))
          /\ MinimalEdits(asked, asked, {<<i, i>> : i \in DOMAIN LinesOf(asked)}) = <<>>
      BY <1>1, SameText
    <3> QED BY <1>2, <2>1, <3>1
  <2>2. CASE formatted # asked
    BY <1>2, <2>2
  <2> QED BY <2>1, <2>2
<1>5. Counted(asked)' => Answered'
  BY <1>1, <1>2, <1>3, <1>4 DEF Answered
<1>6. AskedIsText' /\ EditsGiveFormatted'
  BY <1>1 DEF AskedIsText, EditsGiveFormatted
<1> QED BY <1>1, <1>5, <1>6 DEF EditsInv

LEMMA FormatRangeEdits ==
  ASSUME EditsInv, NEW side \in {"editor", "server"}, FormatRange(side) PROVE EditsInv'
<1>1. /\ step = "idle" /\ step' = "ranged" /\ asked' = asked /\ buffer' = buffer
      /\ asked \in Seq(Alphabet) /\ buffer = asked
  BY DEF FormatRange, EditsInv, AskedIsText
<1>2. PICK from \in CursorOffsets(asked), to \in CursorOffsets(asked) :
       LET start == PositionsBy(side, asked, from)
           end == PositionsBy(side, asked, to)
           slice == Between(asked, OffsetOf(asked, start), OffsetOf(asked, end))
       IN  /\ from < to
           /\ \E f \in {<<"f", "lf">>, <<"f", "lf", "lf">>} :
                /\ edits' = <<[start |-> start, end |-> end, text |-> MatchTrailingNewline(f, slice)]>>
                /\ goal' = Replaced(asked, from, to, IF EndsLine(slice) THEN f ELSE <<"f">>)
  BY DEF FormatRange
<1> DEFINE start == PositionsBy(side, asked, from)
           end == PositionsBy(side, asked, to)
           slice == Between(asked, OffsetOf(asked, start), OffsetOf(asked, end))
<1>3. PICK f \in {<<"f", "lf">>, <<"f", "lf", "lf">>} :
        /\ edits' = <<[start |-> start, end |-> end, text |-> MatchTrailingNewline(f, slice)]>>
        /\ goal' = Replaced(asked, from, to, IF EndsLine(slice) THEN f ELSE <<"f">>)
  BY <1>2
<1>4. from < to
  BY <1>2
<1>5. ASSUME Counted(asked) PROVE AppliedTo(asked, edits') = goal'
  <2>1. /\ start = PositionsBy(side, asked, from) /\ end = PositionsBy(side, asked, to)
        /\ slice = Between(asked, OffsetOf(asked, start), OffsetOf(asked, end))
    OBVIOUS
  <2>3. f \in {<<"f", "lf">>, <<"f", "lf", "lf">>}
    BY <1>3
  <2>4. from \in CursorOffsets(asked) /\ to \in CursorOffsets(asked)
    BY <1>2
  <2> HIDE DEF start, end, slice
  <2>2. AppliedTo(asked, <<[start |-> start, end |-> end, text |-> MatchTrailingNewline(f, slice)]>>)
          = Replaced(asked, from, to, IF EndsLine(slice) THEN f ELSE <<"f">>)
    <3>1. RangeAsked(asked, side, from, to, start, end, slice, f)
      BY <1>1, <1>4, <1>5, <2>1, <2>3, <2>4 DEF RangeAsked
    <3> QED BY <3>1, RangeAnswer
  <2> QED BY <1>3, <2>2
<1>6. Counted(asked)' => AppliedTo(buffer, edits)' = goal'
  BY <1>1, <1>5
<1>7. AskedIsText' /\ EditsGiveFormatted'
  BY <1>1 DEF AskedIsText, EditsGiveFormatted
<1> QED BY <1>1, <1>6, <1>7 DEF EditsInv

LEMMA UserEditsEdits == ASSUME EditsInv, UserEdits PROVE EditsInv'
<1>1. /\ step = "answered" /\ step' = "edited" /\ asked' = asked /\ edits' = edits
      /\ asked \in Seq(Alphabet)
  BY DEF UserEdits, EditsInv, AskedIsText
<1>2. PICK p \in kept :
       LET breaks == EditorBreaks(asked)
           from == StartOf(breaks, p[1] - 1)
           to == EndOf(asked, breaks, p[1] - 1)
           contents == Contents(asked, breaks, from, to)
       IN  /\ buffer' = Replaced(asked, from, contents, Typed)
           /\ goal' = LineBecomes(LinesOf(goal), p[2], Typed \o Between(asked, contents, to))
  BY DEF UserEdits, Contents
<1> DEFINE breaks == EditorBreaks(asked)
           from == StartOf(breaks, p[1] - 1)
           to == EndOf(asked, breaks, p[1] - 1)
           contents == Contents(asked, breaks, from, to)
           q == TypedLinesOf(asked, goal, p, contents, to)
<1>3. ASSUME Counted(asked) PROVE AppliedTo(buffer', edits) = goal'
  <2>1. /\ goal \in Seq(Alphabet) /\ kept \in Pairings(LinesOf(asked), LinesOf(goal))
        /\ edits = MinimalEdits(asked, goal, kept)
    BY <1>1, <1>3 DEF EditsInv, Answered
  <2>2. p[1] \in 1 .. Len(LinesOf(asked))
    <3>1. LinesOf(asked) \in Seq(Seq(Alphabet)) /\ LinesOf(goal) \in Seq(Seq(Alphabet))
      BY <1>1, <2>1, TextPieces
    <3>2. Paired(Len(LinesOf(asked)), Len(LinesOf(goal)), kept)
      BY <2>1, <3>1, PairingsPaired
    <3> QED BY <3>2 DEF Paired
  <2>3. from = Cut(asked)[p[1] - 1] /\ to = Cut(asked)[p[1]]
    BY <1>1, <2>2, LineEndsAtCut
  <2>4. buffer' = Replaced(asked, from, contents, Typed) /\ goal' = FlattenSeq(q)
    BY <1>2 DEF LineBecomes, TypedLinesOf
  <2>5. TypedOver(asked, p[1], from, to, contents, buffer')
    BY <1>1, <1>3, <2>2, <2>3, <2>4 DEF TypedOver
  <2> HIDE DEF from, to, contents
  <2>6. AppliedTo(buffer', MinimalEdits(asked, goal, kept)) = FlattenSeq(q)
    BY <2>1, <2>5, TypedAnswerGives
  <2> QED BY <2>1, <2>4, <2>6
<1>4. Counted(asked)' => AppliedTo(buffer, edits)' = goal'
  BY <1>1, <1>3
<1>5. AskedIsText' /\ EditsGiveFormatted'
  BY <1>1 DEF AskedIsText, EditsGiveFormatted
<1> QED BY <1>1, <1>4, <1>5 DEF EditsInv

LEMMA EditorAppliesEdits == ASSUME EditsInv, EditorApplies PROVE EditsInv'
<1>1. /\ step' = "applied" /\ asked' = asked /\ goal' = goal
      /\ asked \in Seq(Alphabet) /\ buffer' = AppliedTo(buffer, edits)
      /\ step \in {"answered", "edited", "ranged"}
  BY DEF EditorApplies, EditsInv, AskedIsText
<1>2. ASSUME Counted(asked) PROVE AppliedTo(buffer, edits) = goal
  <2>1. CASE step = "answered"
    BY <1>1, <1>2, <2>1, AnswerGives DEF EditsInv, Answered
  <2>2. CASE step \in {"edited", "ranged"}
    BY <1>2, <2>2 DEF EditsInv
  <2> QED BY <1>1, <2>1, <2>2
<1>3. EditsGiveFormatted'
  <2>1. Counted(asked)' <=> Counted(asked)
    BY <1>1
  <2> QED BY <1>1, <1>2, <2>1 DEF EditsGiveFormatted
<1> QED BY <1>1, <1>3 DEF EditsInv, AskedIsText

(* The edits a format is answered with, applied, give the formatted text,  *)
(* whatever the text, the formatter's result and the pairing of their      *)
(* lines; and a paired line the user typed over meanwhile is as the user   *)
(* left it.  So for a range, by either side's positions.                   *)
THEOREM EditsFormat == EditsSpec => []EditsGiveFormatted
<1>1. EditsInv /\ [EditsNext]_editVars => EditsInv'
  <2> SUFFICES ASSUME EditsInv, [EditsNext]_editVars PROVE EditsInv'
    OBVIOUS
  <2>1. CASE FormatWhole
    BY <2>1, FormatWholeEdits
  <2>2. CASE \E side \in {"editor", "server"} : FormatRange(side)
    BY <2>2, FormatRangeEdits
  <2>3. CASE UserEdits
    BY <2>3, UserEditsEdits
  <2>4. CASE EditorApplies
    BY <2>4, EditorAppliesEdits
  <2>5. CASE UNCHANGED editVars
    BY <2>5 DEF editVars, EditsInv, AskedIsText, Answered, EditsGiveFormatted
  <2> QED BY <2>1, <2>2, <2>3, <2>4, <2>5 DEF EditsNext
<1>2. EditsInv => EditsGiveFormatted
  BY DEF EditsInv
<1> QED BY <1>1, <1>2, InitEdits, PTL DEF EditsSpec
=============================================================================
