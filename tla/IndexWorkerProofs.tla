-------------------------- MODULE IndexWorkerProofs --------------------------
(***************************************************************************)
(* Proofs about the job queue, for any set of jobs, any set of producers   *)
(* and any bound MaxSeq; about the progress streams, for any tokens, any   *)
(* number of reports and any interleaving of the job, its callbacks, the   *)
(* client and the drain task; and about the worker that composes the two.  *)
(***************************************************************************)
EXTENDS IndexWorker, FiniteSetTheorems, TLAPS

-----------------------------------------------------------------------------
(* JobQueue.                                                               *)

(* pending is the set of the jobs in the heap, each of them there once.    *)
PendingMirrorsHeap ==
  /\ pending = {e.job : e \in heap}
  /\ \A e, f \in heap : e.job = f.job => e = f

(* in_flight counts the job the consumer holds.                            *)
FlightMirrorsWorker ==
  /\ in_flight = IF worker = "running" THEN 1 ELSE 0
  /\ worker # "running" => current = None

(* The strengthening: what de-duplication remembers is exactly what is     *)
(* still owed to a caller.                                                 *)
IInv ==
  /\ TypeOK
  /\ PendingMirrorsHeap
  /\ FlightMirrorsWorker
  /\ owed = pending
  /\ NoLostWakeup

LEMMA InitIInv == Init => IInv
<1> SUFFICES ASSUME Init PROVE IInv
  OBVIOUS
<1>1. TypeOK
  <2>1. permit \in BOOLEAN
    BY Zenon DEF Init
  <2>2. in_flight \in 0 .. 1 /\ seq \in 0 .. MaxSeq
    BY QueueAssumption DEF Init
  <2>3. QED
    BY <2>1, <2>2, Zenon DEF Init, TypeOK
<1>2. PendingMirrorsHeap
  <2>1. {e.job : e \in {}} = {}
    OBVIOUS
  <2>2. QED
    BY <2>1 DEF Init, PendingMirrorsHeap
<1>3. FlightMirrorsWorker /\ owed = pending /\ NoLostWakeup
  BY DEF Init, FlightMirrorsWorker, NoLostWakeup
<1>4. QED
  BY <1>1, <1>2, <1>3 DEF IInv

(* Adding an entry for a job that does not wait keeps the mirror.          *)
LEMMA PushMirrors ==
  ASSUME NEW h, NEW e, \A x, y \in h : x.job = y.job => x = y,
         e.job \notin {x.job : x \in h}
  PROVE  /\ {x.job : x \in h \cup {e}} = {x.job : x \in h} \cup {e.job}
         /\ \A x, y \in h \cup {e} : x.job = y.job => x = y
  OBVIOUS

(* Removing an entry removes its job, because no other entry carries it.   *)
LEMMA PopMirrors ==
  ASSUME NEW h, NEW e \in h, \A x, y \in h : x.job = y.job => x = y
  PROVE  /\ {x.job : x \in h \ {e}} = {x.job : x \in h} \ {e.job}
         /\ \A x, y \in h \ {e} : x.job = y.job => x = y
  OBVIOUS

LEMMA StepIInv == IInv /\ [Next]_vars => IInv'
<1> SUFFICES ASSUME IInv, [Next]_vars PROVE IInv'
  OBVIOUS
<1> USE DEF IInv, FlightMirrorsWorker
<1>1. ASSUME NEW p \in Producers, NEW j \in Jobs, EnqueueDuplicate(p, j)
      PROVE  IInv'
  <2>1. owed' = pending' /\ TypeOK'
    BY <1>1 DEF EnqueueDuplicate, TypeOK, queueVars
  <2>2. QED
    BY <1>1, <2>1
       DEF EnqueueDuplicate, queueVars, PendingMirrorsHeap, NoLostWakeup
<1>2. ASSUME NEW p \in Producers, NEW j \in Jobs, NEW pr \in Priorities,
             EnqueueNew(p, j, pr)
      PROVE  IInv'
  <2> DEFINE e == [priority |-> pr, seq |-> seq + 1, job |-> j]
  <2>1. heap' = heap \cup {e} /\ e \in Entry /\ seq' \in 0 .. MaxSeq
    BY <1>2, QueueAssumption DEF EnqueueNew, TypeOK, Entry
  <2>2. TypeOK'
    BY <1>2, <2>1 DEF EnqueueNew, TypeOK
  <2>3. PendingMirrorsHeap'
    <3>1. e.job = j /\ e.job \notin {x.job : x \in heap}
      BY <1>2 DEF EnqueueNew, PendingMirrorsHeap
    <3>2. pending' = {x.job : x \in heap} \cup {e.job}
      BY <1>2 DEF EnqueueNew, PendingMirrorsHeap
    <3> HIDE DEF e
    <3>3. QED
      BY <2>1, <3>1, <3>2, PushMirrors DEF PendingMirrorsHeap
  <2>4. NoLostWakeup'
    BY <1>2 DEF EnqueueNew, NoLostWakeup, TypeOK
  <2>5. QED
    BY <1>2, <2>2, <2>3, <2>4 DEF EnqueueNew
<1>3. ASSUME NEW p \in Producers, NotifyOne(p)
      PROVE  IInv'
  <2>1. TypeOK' /\ PendingMirrorsHeap' /\ owed' = pending'
    BY <1>3 DEF NotifyOne, TypeOK, queueVars, PendingMirrorsHeap
  <2>2. FlightMirrorsWorker' /\ NoLostWakeup'
    BY <1>3 DEF NotifyOne, TypeOK, queueVars, NoLostWakeup
  <2>3. QED
    BY <2>1, <2>2
<1>4. CASE TakeJob
  <2>1. PICK e \in heap :
          /\ heap' = heap \ {e}
          /\ pending' = pending \ {e.job}
          /\ current' = e.job
          /\ owed' = owed \ {e.job}
    BY <1>4 DEF TakeJob
  <2>2. PendingMirrorsHeap'
    BY <2>1, PopMirrors DEF PendingMirrorsHeap
  <2>3. TypeOK'
    BY <1>4, <2>1 DEF TakeJob, TypeOK, Entry
  <2>4. NoLostWakeup' /\ FlightMirrorsWorker'
    BY <1>4 DEF TakeJob, NoLostWakeup, TypeOK
  <2>5. QED
    BY <2>1, <2>2, <2>3, <2>4
<1>5. CASE FindNothing
  BY <1>5 DEF FindNothing, TypeOK, queueVars, PendingMirrorsHeap, NoLostWakeup
<1>6. CASE AwaitNotified
  <2>1. TypeOK' /\ PendingMirrorsHeap' /\ owed' = pending'
    BY <1>6 DEF AwaitNotified, TypeOK, queueVars, PendingMirrorsHeap
  <2>2. FlightMirrorsWorker' /\ NoLostWakeup'
    BY <1>6 DEF AwaitNotified, TypeOK, queueVars, NoLostWakeup
  <2>3. QED
    BY <2>1, <2>2
<1>7. CASE Complete
  BY <1>7 DEF Complete, TypeOK, PendingMirrorsHeap, NoLostWakeup
<1>8. CASE UNCHANGED vars
  BY <1>8 DEF vars, TypeOK, PendingMirrorsHeap, NoLostWakeup
<1>9. QED
  BY <1>1, <1>2, <1>3, <1>4, <1>5, <1>6, <1>7, <1>8 DEF Next, Consume

(* Every reachable state of the queue and its worker is well-formed: in    *)
(* particular in_flight stays 0 or 1, so complete() never saturates.       *)
THEOREM TypeCorrect == Spec => []TypeOK
<1>1. IInv => TypeOK
  BY DEF IInv
<1>2. QED
  BY InitIInv, StepIInv, <1>1, PTL DEF Spec

(* is_idle() answers true only when every request ever made has been       *)
(* followed by a finished run of its job.                                  *)
THEOREM IdleIsServed == Spec => []IdleMeansServed
<1>1. IInv => IdleMeansServed
  BY DEF IInv, IdleMeansServed, is_idle, PendingMirrorsHeap,
         FlightMirrorsWorker, TypeOK
<1>2. QED
  BY InitIInv, StepIInv, <1>1, PTL DEF Spec

(* The consumer cannot sleep through an enqueue, whatever the producers'   *)
(* critical sections and notifications interleave with.                    *)
THEOREM WakeupsAreNotLost == Spec => []NoLostWakeup
<1>1. IInv => NoLostWakeup
  BY DEF IInv
<1>2. QED
  BY InitIInv, StepIInv, <1>1, PTL DEF Spec

-----------------------------------------------------------------------------
(* JobQueue implements JobLanes.  First a lane by itself: entries with     *)
(* sequence numbers, each at the place its number gives it.                *)

(* No place of a lane is empty.                                            *)
Filled(lane) == \A i \in 1 .. Cardinality(lane) : \E e \in lane : Place(lane, e) = i

Numbered(lane) == IsFiniteSet(lane) /\ \A e \in lane : e.seq \in Nat

LEMMA PlaceInLane ==
  ASSUME NEW lane, Numbered(lane), NEW e \in lane
  PROVE  Place(lane, e) \in 1 .. Cardinality(lane) /\ Cardinality(lane) \in Nat
<1> DEFINE upTo == {f \in lane : f.seq <= e.seq}
<1>1. e \in upTo /\ upTo \in SUBSET lane
  BY DEF Numbered
<1> HIDE DEF upTo
<1>2. /\ IsFiniteSet(upTo) /\ Cardinality(upTo) <= Cardinality(lane)
      /\ Cardinality(upTo) \in Nat /\ Cardinality(lane) \in Nat
  BY <1>1, FS_Subset, FS_CardinalityType DEF Numbered
<1>3. Cardinality(upTo) # 0
  BY <1>1, <1>2, FS_EmptySet
<1> QED BY <1>2, <1>3 DEF Place, upTo

(* So a lane in order is a sequence of the jobs of its entries.            *)
LEMMA LaneInOrder ==
  ASSUME NEW lane, Numbered(lane), Filled(lane)
  PROVE  /\ InOrder(lane) \in Seq({e.job : e \in lane})
         /\ Len(InOrder(lane)) = Cardinality(lane) /\ Cardinality(lane) \in Nat
         /\ DOMAIN InOrder(lane) = 1 .. Cardinality(lane)
         /\ lane = {} <=> InOrder(lane) = <<>>
<1>1. Cardinality(lane) \in Nat /\ (lane = {} <=> Cardinality(lane) = 0)
  BY FS_CardinalityType, FS_EmptySet DEF Numbered
<1>2. ASSUME NEW i \in 1 .. Cardinality(lane)
      PROVE  (CHOOSE e \in lane : Place(lane, e) = i).job \in {e.job : e \in lane}
  BY DEF Filled
<1>3. InOrder(lane) \in [1 .. Cardinality(lane) -> {e.job : e \in lane}]
  BY <1>2 DEF InOrder
<1> HIDE DEF InOrder
<1>4. InOrder(lane) \in Seq({e.job : e \in lane}) /\ Len(InOrder(lane)) = Cardinality(lane)
  BY <1>1, <1>3
<1> QED BY <1>1, <1>3, <1>4

(* A request with a new number joins the end of its lane.                  *)
LEMMA LateJoins ==
  ASSUME NEW lane, Numbered(lane), Filled(lane),
         NEW n, n.seq \in Nat, \A e \in lane : e.seq < n.seq
  PROVE  /\ Numbered(lane \cup {n}) /\ Filled(lane \cup {n})
         /\ InOrder(lane \cup {n}) = Append(InOrder(lane), n.job)
<1> DEFINE longer == lane \cup {n}
           size == Cardinality(lane)
<1>1. n \notin lane
  BY DEF Numbered
<1>2. /\ Numbered(longer) /\ Cardinality(longer) = size + 1 /\ size \in Nat
  BY <1>1, FS_AddElement, FS_CardinalityType DEF Numbered
<1>3. ASSUME NEW e \in lane PROVE Place(longer, e) = Place(lane, e)
  <2>1. {f \in longer : f.seq <= e.seq} = {f \in lane : f.seq <= e.seq}
    BY DEF Numbered
  <2> QED BY <2>1 DEF Place
<1>4. Place(longer, n) = size + 1
  <2>1. {f \in longer : f.seq <= n.seq} = longer
    BY DEF Numbered
  <2> QED BY <1>2, <2>1 DEF Place
<1>5. \A e \in lane : Place(lane, e) \in 1 .. size
  BY PlaceInLane
<1>6. Filled(longer)
  <2> SUFFICES ASSUME NEW i \in 1 .. size + 1 PROVE \E e \in longer : Place(longer, e) = i
    BY <1>2 DEF Filled
  <2>1. CASE i = size + 1
    BY <1>4, <2>1
  <2>2. CASE i \in 1 .. size
    BY <1>3, <2>2 DEF Filled
  <2> QED BY <1>2, <2>1, <2>2
<1>7. ASSUME NEW i \in 1 .. size
      PROVE  (CHOOSE e \in longer : Place(longer, e) = i) = (CHOOSE e \in lane : Place(lane, e) = i)
  <2>1. \A e : (e \in longer /\ Place(longer, e) = i) <=> (e \in lane /\ Place(lane, e) = i)
    BY <1>2, <1>3, <1>4
  <2> HIDE DEF longer
  <2> QED BY <2>1
<1>8. (CHOOSE e \in longer : Place(longer, e) = size + 1) = n
  <2>1. ASSUME NEW e, e \in longer, Place(longer, e) = size + 1 PROVE e = n
    <3>1. e \notin lane
      BY <1>2, <1>3, <1>5, <2>1
    <3> QED BY <2>1, <3>1
  <2> HIDE DEF longer
  <2>2. \E e \in longer : Place(longer, e) = size + 1
    BY <1>2, <1>6 DEF Filled
  <2> QED BY <2>1, <2>2
<1> DEFINE s == InOrder(lane)
           t == InOrder(longer)
<1> HIDE DEF longer
<1>9. /\ t = [i \in 1 .. size + 1 |-> (CHOOSE e \in longer : Place(longer, e) = i).job]
      /\ s = [i \in 1 .. size |-> (CHOOSE e \in lane : Place(lane, e) = i).job]
      /\ DOMAIN t = 1 .. size + 1
  BY <1>2 DEF InOrder
<1>10. t[size + 1] = n.job /\ \A i \in 1 .. size : t[i] = s[i]
  BY <1>2, <1>7, <1>8, <1>9
<1>11. s \in Seq({e.job : e \in lane}) /\ Len(s) = size
  BY LaneInOrder
<1>12. t \in Seq({e.job : e \in longer}) /\ Len(t) = size + 1
  BY <1>2, <1>6, LaneInOrder
<1> HIDE DEF s, t
<1> DEFINE all == {e.job : e \in lane} \cup {e.job : e \in longer} \cup {n.job}
<1>13. s \in Seq(all) /\ t \in Seq(all) /\ n.job \in all
  BY <1>11, <1>12
<1> HIDE DEF all
<1>14. t = Append(s, n.job)
  BY <1>2, <1>10, <1>11, <1>12, <1>13
<1> QED BY <1>2, <1>6, <1>14 DEF longer, s, t

(* The entry with the lowest number is the first, and the others move up.  *)
LEMMA FirstLeaves ==
  ASSUME NEW lane, Numbered(lane), Filled(lane),
         NEW m \in lane, \A e \in lane \ {m} : m.seq < e.seq
  PROVE  /\ Numbered(lane \ {m}) /\ Filled(lane \ {m})
         /\ InOrder(lane) # <<>> /\ Head(InOrder(lane)) = m.job
         /\ InOrder(lane \ {m}) = Tail(InOrder(lane))
<1> DEFINE rest == lane \ {m}
           size == Cardinality(lane)
<1>1. /\ Numbered(rest) /\ Cardinality(rest) = size - 1 /\ size \in Nat \ {0}
  BY FS_RemoveElement, FS_CardinalityType, FS_EmptySet DEF Numbered
<1>2. ASSUME NEW e \in rest PROVE Place(lane, e) = Place(rest, e) + 1
  <2> DEFINE upTo == {f \in lane : f.seq <= e.seq}
  <2>1. m \in upTo /\ upTo \in SUBSET lane /\ {f \in rest : f.seq <= e.seq} = upTo \ {m}
    BY DEF Numbered
  <2> HIDE DEF upTo
  <2>2. IsFiniteSet(upTo) /\ Cardinality(upTo) \in Nat
    BY <2>1, FS_Subset, FS_CardinalityType DEF Numbered
  <2>3. Cardinality(upTo \ {m}) = Cardinality(upTo) - 1
    BY <2>1, <2>2, FS_RemoveElement
  <2>4. Place(lane, e) = Cardinality(upTo)
    BY DEF Place, upTo
  <2>5. Place(rest, e) = Cardinality(upTo \ {m})
    BY <2>1 DEF Place
  <2> QED BY <2>2, <2>3, <2>4, <2>5
<1>3. Place(lane, m) = 1
  <2>1. {f \in lane : f.seq <= m.seq} = {m}
    BY DEF Numbered
  <2> QED BY <2>1, FS_Singleton DEF Place
<1>4. \A e \in rest : Place(rest, e) \in 1 .. size - 1
  BY <1>1, PlaceInLane
<1>5. ASSUME NEW i \in 1 .. size - 1
      PROVE  \A e : (e \in rest /\ Place(rest, e) = i) <=> (e \in lane /\ Place(lane, e) = i + 1)
  BY <1>1, <1>2, <1>3, <1>4
<1>6. Filled(rest)
  <2> SUFFICES ASSUME NEW i \in 1 .. size - 1 PROVE \E e \in rest : Place(rest, e) = i
    BY <1>1 DEF Filled
  <2>1. i + 1 \in 1 .. size
    BY <1>1
  <2> QED BY <1>5, <2>1 DEF Filled
<1>7. ASSUME NEW i \in 1 .. size - 1
      PROVE  (CHOOSE e \in rest : Place(rest, e) = i) = (CHOOSE e \in lane : Place(lane, e) = i + 1)
  <2>1. \A e : (e \in rest /\ Place(rest, e) = i) <=> (e \in lane /\ Place(lane, e) = i + 1)
    BY <1>5
  <2> HIDE DEF rest
  <2> QED BY <2>1
<1>8. (CHOOSE e \in lane : Place(lane, e) = 1) = m
  <2>1. \A e : (e \in lane /\ Place(lane, e) = 1) => e = m
    BY <1>1, <1>2, <1>4
  <2> QED BY <1>3, <2>1
<1> DEFINE s == InOrder(lane)
           t == InOrder(rest)
<1> HIDE DEF rest
<1>9. /\ t = [i \in 1 .. size - 1 |-> (CHOOSE e \in rest : Place(rest, e) = i).job]
      /\ s = [i \in 1 .. size |-> (CHOOSE e \in lane : Place(lane, e) = i).job]
  BY <1>1 DEF InOrder
<1>10. s[1] = m.job /\ \A i \in 1 .. size - 1 : t[i] = s[i + 1]
  BY <1>1, <1>7, <1>8, <1>9
<1>11. s \in Seq({e.job : e \in lane}) /\ Len(s) = size
  BY LaneInOrder
<1>12. t \in Seq({e.job : e \in rest}) /\ Len(t) = size - 1
  BY <1>1, <1>6, LaneInOrder
<1> HIDE DEF s, t
<1> DEFINE all == {e.job : e \in lane} \cup {e.job : e \in rest}
<1>13. s \in Seq(all) /\ t \in Seq(all)
  BY <1>11, <1>12
<1> HIDE DEF all
<1>14. s # <<>> /\ Head(s) = m.job /\ t = Tail(s)
  BY <1>1, <1>10, <1>11, <1>12, <1>13
<1> QED BY <1>1, <1>6, <1>14 DEF rest, s, t

(* What the mapping needs to know of the queue: the heap is finite, a new  *)
(* number is higher than any in it, and no lane has gaps.                  *)
LaneState ==
  /\ IsFiniteSet(heap)
  /\ \A e \in heap : e.seq <= seq
  /\ \A p \in Priorities : Filled(InLane(p))

LaneInv == IInv /\ LaneState

LEMMA LanesNumbered ==
  ASSUME LaneInv, NEW p \in Priorities
  PROVE  /\ Numbered(InLane(p)) /\ Filled(InLane(p)) /\ InLane(p) \subseteq heap
         /\ \A e \in heap : /\ e.seq \in Nat /\ e.priority \in Priorities
                            /\ e \in InLane(e.priority)
<1>1. \A e \in heap : e.seq \in Nat /\ e.priority \in Priorities
  BY QueueAssumption DEF LaneInv, IInv, TypeOK, Entry
<1>2. InLane(p) \in SUBSET heap
  BY DEF InLane
<1>3. IsFiniteSet(InLane(p))
  BY <1>2, FS_Subset DEF LaneInv, LaneState
<1> QED BY <1>1, <1>2, <1>3 DEF LaneInv, LaneState, InLane, Numbered

(* The jobs in the lanes are the waiting ones.                             *)
LEMMA WaitingInLanes == LaneInv => Lanes!Waiting \subseteq pending
<1> SUFFICES ASSUME LaneInv, NEW p \in Priorities, NEW j \in Lanes!ToSet(LanesOfHeap[p])
             PROVE  j \in pending
  BY DEF Lanes!Waiting, Lanes!Priorities, Priorities
<1>1. LanesOfHeap[p] = InOrder(InLane(p))
  BY DEF LanesOfHeap
<1>2. /\ InOrder(InLane(p)) \in Seq({e.job : e \in InLane(p)})
      /\ InLane(p) \subseteq heap
  BY LanesNumbered, LaneInOrder
<1>3. PICK i \in DOMAIN InOrder(InLane(p)) : j = InOrder(InLane(p))[i]
  BY <1>1 DEF Lanes!ToSet
<1>4. j \in {e.job : e \in InLane(p)}
  BY <1>2, <1>3
<1> QED BY <1>2, <1>4 DEF LaneInv, IInv, PendingMirrorsHeap

LEMMA InitLanes == Init => LaneInv /\ Lanes!Init
<1> SUFFICES ASSUME Init PROVE LaneInv /\ Lanes!Init
  OBVIOUS
<1>1. IInv
  BY InitIInv
<1>2. IsFiniteSet({}) /\ Cardinality({}) = 0 /\ \A p : InLane(p) = {}
  BY FS_EmptySet DEF Init, InLane
<1>3. Filled({}) /\ InOrder({}) = <<>>
  BY <1>2 DEF Filled, InOrder
<1>4. LaneState
  BY <1>2, <1>3 DEF LaneState, Init
<1>5. LanesOfHeap = [p \in Priorities |-> <<>>]
  BY <1>2, <1>3 DEF LanesOfHeap
<1> QED BY <1>1, <1>4, <1>5 DEF LaneInv, Lanes!Init, Lanes!Priorities, Priorities, Init

(* A request joins the lane of its priority.                               *)
LEMMA RequestJoins ==
  ASSUME LaneInv, NEW p \in Producers, NEW j \in Jobs, NEW pr \in Priorities,
         EnqueueNew(p, j, pr)
  PROVE  LaneState' /\ Lanes!Next
<1>1. PICK n : n = [priority |-> pr, seq |-> seq + 1, job |-> j]
  OBVIOUS
<1>2. /\ n.seq = seq + 1 /\ n.job = j /\ n.priority = pr /\ n.seq \in Nat
      /\ heap' = heap \cup {n} /\ seq' = seq + 1 /\ seq \in Nat /\ j \notin pending
      /\ current' = current
  BY <1>1, QueueAssumption DEF EnqueueNew, LaneInv, IInv, TypeOK
<1>3. \A e \in heap : e.seq < n.seq /\ e.seq \in Nat
  BY <1>2, LanesNumbered DEF LaneInv, LaneState
<1>4. /\ InLane(pr)' = InLane(pr) \cup {n}
      /\ \A q \in Priorities : q # pr => InLane(q)' = InLane(q)
  BY <1>2 DEF InLane
<1>5. Numbered(InLane(pr)) /\ Filled(InLane(pr)) /\ InLane(pr) \subseteq heap
  BY LanesNumbered
<1>6. /\ Filled(InLane(pr) \cup {n})
      /\ InOrder(InLane(pr) \cup {n}) = Append(InOrder(InLane(pr)), j)
  BY <1>2, <1>3, <1>5, LateJoins
<1>7. LaneState'
  <2>1. IsFiniteSet(heap')
    BY <1>2, FS_AddElement DEF LaneInv, LaneState
  <2>2. \A e \in heap' : e.seq <= seq'
    BY <1>2, <1>3
  <2>3. \A q \in Priorities : Filled(InLane(q))'
    <3> SUFFICES ASSUME NEW q \in Priorities PROVE Filled(InLane(q))'
      OBVIOUS
    <3>1. Filled(InLane(q)')
      BY <1>4, <1>6 DEF LaneInv, LaneState
    <3> QED BY <3>1
  <2> QED BY <2>1, <2>2, <2>3 DEF LaneState
<1>8. LanesOfHeap' = [LanesOfHeap EXCEPT ![pr] = Append(@, j)]
  <2>1. LanesOfHeap' = [q \in Priorities |-> InOrder(InLane(q)')]
    BY DEF LanesOfHeap, InOrder, Place
  <2>2. /\ InOrder(InLane(pr)') = Append(LanesOfHeap[pr], j)
        /\ \A q \in Priorities : q # pr => InOrder(InLane(q)') = LanesOfHeap[q]
    BY <1>4, <1>6 DEF LanesOfHeap
  <2>3. LanesOfHeap = [q \in Priorities |-> LanesOfHeap[q]]
    BY DEF LanesOfHeap
  <2> HIDE DEF LanesOfHeap
  <2> QED BY <2>1, <2>2, <2>3
<1>9. Lanes!Request(j, pr)
  BY <1>2, <1>8, WaitingInLanes DEF Lanes!Request
<1> QED BY <1>7, <1>9 DEF Lanes!Next, Lanes!Priorities, Priorities

(* The worker takes the head of the most urgent lane.                      *)
LEMMA TakesHead ==
  ASSUME LaneInv, TakeJob
  PROVE  LaneState' /\ Lanes!Next
<1>1. PICK m \in heap : /\ \A f \in heap \ {m} : Before(m, f)
                        /\ heap' = heap \ {m} /\ current' = m.job
  BY DEF TakeJob
<1>2. PICK pr \in Priorities : pr = m.priority
  BY LanesNumbered DEF Priorities
<1>3. /\ seq' = seq /\ worker = "polling" /\ current = None
  BY DEF TakeJob, LaneInv, IInv, FlightMirrorsWorker
<1>4. /\ Numbered(InLane(pr)) /\ Filled(InLane(pr)) /\ InLane(pr) \subseteq heap
      /\ m \in InLane(pr)
  BY <1>2, LanesNumbered
<1>5. \A e \in InLane(pr) \ {m} : m.seq < e.seq
  BY <1>1, <1>2, LanesNumbered DEF Before, InLane, Priorities
<1>6. /\ InLane(pr)' = InLane(pr) \ {m}
      /\ \A q \in Priorities : q # pr => InLane(q)' = InLane(q)
  BY <1>1, <1>2 DEF InLane
<1>7. /\ Filled(InLane(pr) \ {m}) /\ InOrder(InLane(pr)) # <<>>
      /\ Head(InOrder(InLane(pr))) = m.job
      /\ InOrder(InLane(pr) \ {m}) = Tail(InOrder(InLane(pr)))
  BY <1>4, <1>5, FirstLeaves
<1>8. LaneState'
  <2>1. IsFiniteSet(heap')
    BY <1>1, FS_RemoveElement DEF LaneInv, LaneState
  <2>2. \A e \in heap' : e.seq <= seq'
    BY <1>1, <1>3 DEF LaneInv, LaneState
  <2>3. \A q \in Priorities : Filled(InLane(q))'
    <3> SUFFICES ASSUME NEW q \in Priorities PROVE Filled(InLane(q))'
      OBVIOUS
    <3>1. Filled(InLane(q)')
      BY <1>6, <1>7 DEF LaneInv, LaneState
    <3> QED BY <3>1
  <2> QED BY <2>1, <2>2, <2>3 DEF LaneState
<1>9. LanesOfHeap' = [LanesOfHeap EXCEPT ![pr] = Tail(@)]
  <2>1. LanesOfHeap' = [q \in Priorities |-> InOrder(InLane(q)')]
    BY DEF LanesOfHeap, InOrder, Place
  <2>2. /\ InOrder(InLane(pr)') = Tail(LanesOfHeap[pr])
        /\ \A q \in Priorities : q # pr => InOrder(InLane(q)') = LanesOfHeap[q]
    BY <1>6, <1>7 DEF LanesOfHeap
  <2>3. LanesOfHeap = [q \in Priorities |-> LanesOfHeap[q]]
    BY DEF LanesOfHeap
  <2> HIDE DEF LanesOfHeap
  <2> QED BY <2>1, <2>2, <2>3
<1>10. ASSUME NEW q \in Priorities, q > pr PROVE LanesOfHeap[q] = <<>>
  <2>1. InLane(q) = {}
    BY <1>1, <1>2, <1>10, LanesNumbered DEF InLane, Before, Priorities
  <2>2. Numbered(InLane(q)) /\ Filled(InLane(q))
    BY LanesNumbered
  <2>3. InOrder(InLane(q)) = <<>>
    BY <2>1, <2>2, LaneInOrder
  <2> QED BY <2>3 DEF LanesOfHeap
<1>11. LanesOfHeap[pr] = InOrder(InLane(pr))
  BY DEF LanesOfHeap
<1>12. Lanes!Take(pr)
  BY <1>1, <1>3, <1>7, <1>9, <1>10, <1>11 DEF Lanes!Take, Lanes!Priorities, Priorities
<1> QED BY <1>8, <1>12 DEF Lanes!Next, Lanes!Priorities, Priorities

(* A step that leaves the heap alone leaves the lanes.                     *)
LEMMA LanesStay ==
  ASSUME LaneState, UNCHANGED <<heap, seq>>
  PROVE  LaneState' /\ UNCHANGED LanesOfHeap
  BY DEF LaneState, LanesOfHeap, InLane, InOrder, Place, Filled

LEMMA StepLanes == LaneInv /\ [Next]_vars => LaneInv' /\ [Lanes!Next]_Lanes!vars
<1> SUFFICES ASSUME LaneInv, [Next]_vars PROVE LaneState' /\ [Lanes!Next]_Lanes!vars
  BY StepIInv DEF LaneInv
<1> USE DEF Lanes!vars
<1>1. ASSUME NEW p \in Producers, NEW j \in Jobs, EnqueueDuplicate(p, j)
      PROVE  LaneState' /\ UNCHANGED Lanes!vars
  BY <1>1, LanesStay DEF EnqueueDuplicate, queueVars, LaneInv
<1>2. ASSUME NEW p \in Producers, NEW j \in Jobs, NEW pr \in Priorities,
             EnqueueNew(p, j, pr)
      PROVE  LaneState' /\ Lanes!Next
  BY <1>2, RequestJoins
<1>3. ASSUME NEW p \in Producers, NotifyOne(p)
      PROVE  LaneState' /\ UNCHANGED Lanes!vars
  BY <1>3, LanesStay DEF NotifyOne, queueVars, LaneInv
<1>4. CASE TakeJob
  BY <1>4, TakesHead
<1>5. CASE FindNothing \/ AwaitNotified
  BY <1>5, LanesStay DEF FindNothing, AwaitNotified, queueVars, LaneInv
<1>6. CASE Complete
  <2>1. LaneState' /\ UNCHANGED LanesOfHeap /\ current' = None
    BY <1>6, LanesStay DEF Complete, LaneInv
  <2>2. current # None => Lanes!Finish
    BY <2>1 DEF Lanes!Finish
  <2> QED BY <2>1, <2>2 DEF Lanes!Next
<1>7. CASE UNCHANGED vars
  BY <1>7, LanesStay DEF vars, LaneInv
<1> QED BY <1>1, <1>2, <1>3, <1>4, <1>5, <1>6, <1>7 DEF Next, Consume

(* The heap with its sequence numbers, the pending set and the worker's    *)
(* loop are four first-in first-out lanes served most urgent first, for    *)
(* any jobs, producers and number of requests.                             *)
THEOREM QueueImplementsLanes == Spec => ImplementsLanes
  BY InitLanes, StepLanes, PTL DEF Spec, ImplementsLanes, Lanes!Spec

-----------------------------------------------------------------------------
(* ProgressReporting.                                                      *)

(* A queue q, what is written w, and the n reports told so far.            *)
Queued == {"report", "end"}
Written == {"begin", "report", "end"}
\* While the job works, what is queued and written is the begin and the reports.
Flow(q, w, n) ==
  /\ \A i \in 1 .. Len(q) : q[i] = "report"
  /\ \A i \in 1 .. Len(w) : w[i] # "end"
  /\ Len(w) + Len(q) = n + 1
\* After it, one end is queued, behind exactly the reports told before it.
EndQueued(q, w, n) ==
  /\ \A i \in 1 .. Len(w) : w[i] # "end"
  /\ \E k \in 1 .. Len(q) :
       /\ \A i \in 1 .. k - 1 : q[i] = "report"
       /\ q[k] = "end"
       /\ Len(w) + k = n + 2
\* And in the end it is the last word.
EndWritten(w, n) ==
  /\ \A i \in 1 .. Len(w) - 1 : w[i] # "end"
  /\ w[Len(w)] = "end"
  /\ Len(w) = n + 2

(* A report of a working job is counted.                                   *)
LEMMA ReportTold ==
  ASSUME NEW q \in Seq(Queued), NEW w \in Seq(Written), NEW n \in Nat,
         Flow(q, w, n)
  PROVE  Flow(Append(q, "report"), w, n + 1)
  BY DEF Flow, Queued, Written

(* A later one is queued behind the end.                                   *)
LEMMA ReportBehindEnd ==
  ASSUME NEW q \in Seq(Queued), NEW w \in Seq(Written), NEW n \in Nat,
         EndQueued(q, w, n)
  PROVE  EndQueued(Append(q, "report"), w, n)
  BY DEF EndQueued, Queued, Written

(* The end is queued behind all reports.                                   *)
LEMMA EndTold ==
  ASSUME NEW q \in Seq(Queued), NEW w \in Seq(Written), NEW n \in Nat,
         Flow(q, w, n)
  PROVE  EndQueued(Append(q, "end"), w, n)
<1>1. Len(q) + 1 \in 1 .. Len(Append(q, "end")) /\ Append(q, "end")[Len(q) + 1] = "end"
  BY DEF Queued
<1>2. \A i \in 1 .. Len(q) + 1 - 1 : Append(q, "end")[i] = "report"
  BY DEF Flow, Queued
<1>3. Len(w) + (Len(q) + 1) = n + 2
  BY DEF Flow
<1> QED BY <1>1, <1>2, <1>3 DEF Flow, EndQueued

(* The drain task writes a report.                                         *)
LEMMA ReportWritten ==
  ASSUME NEW q \in Seq(Queued), NEW w \in Seq(Written), NEW n \in Nat,
         Flow(q, w, n), q # <<>>
  PROVE  Head(q) = "report" /\ Flow(Tail(q), Append(w, Head(q)), n)
<1>1. Len(q) \in Nat \ {0} /\ Len(w) \in Nat /\ Head(q) = "report"
  BY DEF Flow, Queued
<1>2. Len(Tail(q)) = Len(q) - 1 /\ Len(Append(w, Head(q))) = Len(w) + 1
  BY <1>1
<1>3. \A i \in 1 .. Len(Tail(q)) : Tail(q)[i] = "report"
  BY <1>1, <1>2 DEF Flow
<1>4. \A i \in 1 .. Len(Append(w, Head(q))) : Append(w, Head(q))[i] # "end"
  BY <1>1, <1>2 DEF Flow
<1>5. Len(Append(w, Head(q))) + Len(Tail(q)) = n + 1
  BY <1>1, <1>2 DEF Flow
<1> QED BY <1>1, <1>3, <1>4, <1>5 DEF Flow

(* It writes a report that stands before the end.                          *)
LEMMA WrittenBeforeEnd ==
  ASSUME NEW q \in Seq(Queued), NEW w \in Seq(Written), NEW n \in Nat,
         EndQueued(q, w, n), Head(q) # "end"
  PROVE  EndQueued(Tail(q), Append(w, Head(q)), n)
<1>1. PICK k \in 1 .. Len(q) :
        (\A i \in 1 .. k - 1 : q[i] = "report") /\ q[k] = "end" /\ Len(w) + k = n + 2
  BY DEF EndQueued
<1>2. k # 1 /\ k \in Nat /\ Len(q) \in Nat /\ Len(w) \in Nat
  BY <1>1
<1>3. /\ Len(Tail(q)) = Len(q) - 1 /\ Len(Append(w, Head(q))) = Len(w) + 1
      /\ \A i \in 1 .. Len(q) - 1 : Tail(q)[i] = q[i + 1]
  BY <1>1, <1>2
<1>4. /\ k - 1 \in 1 .. Len(Tail(q)) /\ Tail(q)[k - 1] = "end"
      /\ Len(Append(w, Head(q))) + (k - 1) = n + 2
  BY <1>1, <1>2, <1>3
<1>5. \A i \in 1 .. (k - 1) - 1 : Tail(q)[i] = "report"
  BY <1>1, <1>2, <1>3
<1>6. \A i \in 1 .. Len(Append(w, Head(q))) : Append(w, Head(q))[i] # "end"
  BY <1>2, <1>3 DEF EndQueued
<1> QED BY <1>4, <1>5, <1>6 DEF EndQueued

(* It writes the end, after the reports told before it.                    *)
LEMMA EndLast ==
  ASSUME NEW q \in Seq(Queued), NEW w \in Seq(Written), NEW n \in Nat,
         EndQueued(q, w, n), Head(q) = "end"
  PROVE  EndWritten(Append(w, Head(q)), n)
<1>1. PICK k \in 1 .. Len(q) :
        (\A i \in 1 .. k - 1 : q[i] = "report") /\ q[k] = "end" /\ Len(w) + k = n + 2
  BY DEF EndQueued
<1>2. k = 1 /\ Len(w) \in Nat
  BY <1>1
<1>3. Len(Append(w, Head(q))) = Len(w) + 1 
  BY <1>2
<1> QED BY <1>1, <1>2, <1>3 DEF EndQueued, EndWritten

-----------------------------------------------------------------------------
(* The inductive invariant, token by token.                                *)
Orderly(t) ==
  /\ drain[t] = "none" =>
       /\ owner[t] \in {"idle", "asking", "working", "done", "dropped"}
       /\ tx[t] = <<>> /\ wire[t] = <<>> /\ told[t] = 0
  /\ drain[t] # "none" =>
       /\ owner[t] \in {"working", "ending", "done", "dropped"}
       /\ wire[t] # <<>> /\ wire[t][1] = "begin" /\ answer[t] = "accepted"
  /\ drain[t] = "open" =>
       \/ owner[t] = "working" /\ Flow(tx[t], wire[t], told[t])
       \/ owner[t] \in {"ending", "dropped"} /\ EndQueued(tx[t], wire[t], told[t])
  /\ drain[t] = "closed" =>
       /\ owner[t] # "working"
       /\ EndWritten(wire[t], told[t])

Tidy == ProgressTypeOK /\ \A t \in Tokens : Orderly(t)

(* What the types say of one token.                                        *)
LEMMA TokenTypes ==
  ASSUME ProgressTypeOK, NEW t \in Tokens
  PROVE  /\ owner[t] \in {"idle", "asking", "working", "ending", "done", "dropped"}
         /\ drain[t] \in {"none", "open", "closed"}
         /\ tx[t] \in Seq(Queued) /\ wire[t] \in Seq(Written) /\ told[t] \in Nat
  BY DEF ProgressTypeOK, Queued, Written

LEMMA InitTidy == ProgressInit => Tidy
  BY DEF ProgressInit, Tidy, ProgressTypeOK, Orderly

(* A token that a step leaves alone stays orderly.                         *)
LEMMA OthersOrderly ==
  ASSUME Tidy, NEW t \in Tokens, ProgressTypeOK', Orderly(t)',
         \A u \in Tokens \ {t} :
            /\ owner'[u] = owner[u] /\ answer'[u] = answer[u] /\ drain'[u] = drain[u]
            /\ tx'[u] = tx[u] /\ wire'[u] = wire[u] /\ told'[u] = told[u]
  PROVE  Tidy'
<1>1. ASSUME NEW u \in Tokens, u # t PROVE Orderly(u)'
  <2>1. /\ owner'[u] = owner[u] /\ answer'[u] = answer[u] /\ drain'[u] = drain[u]
        /\ tx'[u] = tx[u] /\ wire'[u] = wire[u] /\ told'[u] = told[u]
    BY <1>1
  <2> QED BY <2>1 DEF Tidy, Orderly
<1> QED BY <1>1 DEF Tidy

-----------------------------------------------------------------------------
(* One lemma per action.                                                   *)

LEMMA AskTidy == ASSUME Tidy, NEW t \in Tokens, AskForToken(t) PROVE Tidy'
<1>1. ProgressTypeOK'
  BY DEF Tidy, ProgressTypeOK, AskForToken
<1>2. drain[t] = "none"
  BY DEF Tidy, Orderly, AskForToken
<1>3. Orderly(t)'
  BY <1>2 DEF Tidy, ProgressTypeOK, Orderly, AskForToken
<1> QED BY <1>1, <1>3, OthersOrderly DEF Tidy, ProgressTypeOK, AskForToken

LEMMA AnswerTidy == ASSUME Tidy, NEW t \in Tokens, ClientAnswers(t) PROVE Tidy'
<1>1. ProgressTypeOK'
  BY DEF Tidy, ProgressTypeOK, ClientAnswers
<1>2. drain[t] = "none"
  BY DEF Tidy, Orderly, ClientAnswers
<1>3. Orderly(t)'
  BY <1>2 DEF Tidy, ProgressTypeOK, Orderly, ClientAnswers
<1> QED BY <1>1, <1>3, OthersOrderly DEF Tidy, ProgressTypeOK, ClientAnswers

LEMMA BeginTidy == ASSUME Tidy, NEW t \in Tokens, BeginReporting(t) PROVE Tidy'
<1>1. ProgressTypeOK'
  BY DEF Tidy, ProgressTypeOK, BeginReporting
<1>2. drain[t] = "none"
  BY DEF Tidy, Orderly, BeginReporting
<1>3. /\ drain'[t] = "open" /\ owner'[t] = "working" /\ wire'[t] = <<"begin">>
      /\ answer'[t] = "accepted" /\ tx'[t] = <<>> /\ told'[t] = 0
  BY <1>2 DEF Tidy, ProgressTypeOK, Orderly, BeginReporting
<1>4. Flow(<<>>, <<"begin">>, 0)
  BY DEF Flow
<1>5. Orderly(t)'
  BY <1>3, <1>4 DEF Orderly
<1> QED BY <1>1, <1>5, OthersOrderly DEF Tidy, ProgressTypeOK, BeginReporting

LEMMA GiveUpTidy == ASSUME Tidy, NEW t \in Tokens, GiveUp(t) PROVE Tidy'
<1>1. ProgressTypeOK'
  BY DEF Tidy, ProgressTypeOK, GiveUp
<1>2. drain[t] = "none"
  BY DEF Tidy, Orderly, GiveUp
<1>3. Orderly(t)'
  BY <1>2 DEF Tidy, ProgressTypeOK, Orderly, GiveUp
<1> QED BY <1>1, <1>3, OthersOrderly DEF Tidy, ProgressTypeOK, GiveUp

LEMMA ReportTidy == ASSUME Tidy, NEW t \in Tokens, Report(t) PROVE Tidy'
<1>1. ProgressTypeOK'
  BY DEF Tidy, ProgressTypeOK, Report
<1>2. /\ drain[t] = "open" /\ tx'[t] = Append(tx[t], "report")
      /\ told'[t] = IF owner[t] = "working" THEN told[t] + 1 ELSE told[t]
      /\ UNCHANGED <<owner, answer, drain, wire>>
  BY DEF Tidy, ProgressTypeOK, Report
<1>3. Orderly(t)
  BY DEF Tidy
<1>4. CASE owner[t] = "working"
  <2>1. Flow(tx'[t], wire[t], told'[t])
    BY <1>2, <1>3, <1>4, TokenTypes, ReportTold DEF Tidy, Orderly
  <2> QED BY <1>1, <1>2, <1>3, <1>4, <2>1, OthersOrderly DEF Tidy, ProgressTypeOK, Orderly, Report
<1>5. CASE owner[t] # "working"
  <2>1. EndQueued(tx'[t], wire[t], told'[t])
    BY <1>2, <1>3, <1>5, TokenTypes, ReportBehindEnd DEF Tidy, Orderly
  <2> QED BY <1>1, <1>2, <1>3, <1>5, <2>1, OthersOrderly DEF Tidy, ProgressTypeOK, Orderly, Report
<1> QED BY <1>4, <1>5

(* end() and the drop of a reporter.                                       *)
LEMMA FinishTidy ==
  ASSUME Tidy, NEW t \in Tokens, owner[t] = "working", ProgressTypeOK',
         tx' = QueueEnd(t), UNCHANGED <<answer, drain, wire, told>>,
         NEW o \in {"ending", "done", "dropped"}, owner' = [owner EXCEPT ![t] = o],
         drain[t] = "open" => o # "done", drain[t] = "none" => o # "ending"
  PROVE  Tidy'
<1>1. owner'[t] = o /\ drain[t] \in {"none", "open"} /\ Orderly(t)
  BY TokenTypes DEF Tidy, ProgressTypeOK, Orderly
<1>2. CASE drain[t] = "none"
  <2>1. Orderly(t)'
    BY <1>1, <1>2 DEF QueueEnd, Orderly
  <2> QED BY <1>2, <2>1, OthersOrderly DEF Tidy, ProgressTypeOK, QueueEnd
<1>3. CASE drain[t] = "open"
  <2>1. tx' = [tx EXCEPT ![t] = Append(tx[t], "end")] /\ tx'[t] = Append(tx[t], "end")
    BY <1>3 DEF QueueEnd, Tidy, ProgressTypeOK
  <2>2. EndQueued(tx'[t], wire[t], told[t])
    BY <1>1, <1>3, <2>1, TokenTypes, EndTold DEF Tidy, Orderly
  <2>3. Orderly(t)'
    BY <1>1, <1>3, <2>2 DEF Orderly
  <2> QED BY <2>1, <2>3, OthersOrderly DEF Tidy, ProgressTypeOK
<1> QED BY <1>1, <1>2, <1>3

LEMMA EndTidy == ASSUME Tidy, NEW t \in Tokens, End(t) PROVE Tidy'
<1>1. ProgressTypeOK'
  BY DEF Tidy, ProgressTypeOK, End, QueueEnd
<1>2. drain[t] \in {"none", "open"}
  BY TokenTypes DEF Tidy, Orderly, End
<1> QED BY <1>1, <1>2, FinishTidy DEF End

LEMMA DropTidy == ASSUME Tidy, NEW t \in Tokens, Drop(t) PROVE Tidy'
<1>1. ProgressTypeOK'
  BY DEF Tidy, ProgressTypeOK, Drop, QueueEnd
<1> QED BY <1>1, FinishTidy DEF Drop

LEMMA ReturnTidy == ASSUME Tidy, NEW t \in Tokens, EndReturns(t) PROVE Tidy'
<1>1. ProgressTypeOK'
  BY DEF Tidy, ProgressTypeOK, EndReturns
<1>2. Orderly(t) /\ owner'[t] = "done" /\ UNCHANGED <<answer, drain, tx, wire, told>>
  BY DEF Tidy, ProgressTypeOK, EndReturns
<1>3. Orderly(t)'
  BY <1>2 DEF Orderly, EndReturns
<1> QED BY <1>1, <1>3, OthersOrderly DEF Tidy, ProgressTypeOK, EndReturns

LEMMA WriteTypeOK == ASSUME ProgressTypeOK, NEW t \in Tokens, Write(t) PROVE ProgressTypeOK'
<1>1. /\ Head(tx[t]) \in Queued /\ Tail(tx[t]) \in Seq(Queued) /\ <<>> \in Seq(Queued)
      /\ wire[t] \in Seq(Written)
  BY TokenTypes DEF Write
<1>2. Append(wire[t], Head(tx[t])) \in Seq(Written)
  BY <1>1 DEF Queued, Written
<1>3. wire' \in [Tokens -> Seq(Written)]
  BY <1>2 DEF Write, ProgressTypeOK, Written
<1>4. tx' \in [Tokens -> Seq(Queued)]
  BY <1>1 DEF Write, ProgressTypeOK, Queued
<1>5. drain' \in [Tokens -> {"none", "open", "closed"}]
  BY DEF Write, ProgressTypeOK
<1> QED BY <1>3, <1>4, <1>5 DEF Write, ProgressTypeOK, Queued, Written

LEMMA WriteTidy == ASSUME Tidy, NEW t \in Tokens, Write(t) PROVE Tidy'
<1>1. ProgressTypeOK'
  BY WriteTypeOK DEF Tidy
<1>2. /\ tx[t] \in Seq(Queued) /\ tx[t] # <<>> /\ drain[t] = "open"
      /\ wire[t] \in Seq(Written) /\ told[t] \in Nat
      /\ wire'[t] = Append(wire[t], Head(tx[t])) /\ UNCHANGED <<owner, answer, told>>
  BY TokenTypes DEF Tidy, ProgressTypeOK, Write
<1>3. Orderly(t)
  BY DEF Tidy
<1>4. wire'[t] # <<>> /\ wire'[t][1] = "begin"
  <2>1. wire[t] # <<>> /\ wire[t][1] = "begin" /\ Head(tx[t]) \in Written
    BY <1>2, <1>3 DEF Orderly, Queued, Written
  <2> QED BY <1>2, <2>1
<1>5. CASE Head(tx[t]) = "end"
  <2>1. drain'[t] = "closed"
    BY <1>2, <1>5 DEF Tidy, ProgressTypeOK, Write
  <2>2. owner[t] \in {"ending", "dropped"} /\ EndQueued(tx[t], wire[t], told[t])
    BY <1>2, <1>3, <1>5, ReportWritten DEF Orderly
  <2>3. EndWritten(wire'[t], told[t])
    BY <1>2, <1>5, <2>2, EndLast
  <2>4. Orderly(t)'
    BY <1>2, <1>3, <1>4, <2>1, <2>2, <2>3 DEF Orderly
  <2> QED BY <1>1, <2>4, OthersOrderly DEF Tidy, ProgressTypeOK, Write
<1>6. CASE Head(tx[t]) # "end"
  <2>1. drain'[t] = "open" /\ tx'[t] = Tail(tx[t])
    BY <1>2, <1>6 DEF Tidy, ProgressTypeOK, Write
  <2>2. Flow(tx[t], wire[t], told[t]) => Flow(tx'[t], wire'[t], told[t])
    BY <1>2, <2>1, ReportWritten
  <2>3. EndQueued(tx[t], wire[t], told[t]) => EndQueued(tx'[t], wire'[t], told[t])
    BY <1>2, <1>6, <2>1, WrittenBeforeEnd
  <2>4. Orderly(t)'
    BY <1>2, <1>3, <1>4, <2>1, <2>2, <2>3 DEF Orderly
  <2> QED BY <1>1, <2>4, OthersOrderly DEF Tidy, ProgressTypeOK, Write
<1> QED BY <1>5, <1>6

LEMMA StepTidy == Tidy /\ [ProgressNext]_progressVars => Tidy'
<1> SUFFICES ASSUME Tidy, [ProgressNext]_progressVars PROVE Tidy'
  OBVIOUS
<1>1. CASE UNCHANGED progressVars
  BY <1>1 DEF progressVars, Tidy, ProgressTypeOK, Orderly
<1>2. CASE ProgressNext
  BY <1>2, AskTidy, AnswerTidy, BeginTidy, GiveUpTidy, EndTidy, ReturnTidy, DropTidy,
     ReportTidy, WriteTidy DEF ProgressNext, OwnerStep
<1> QED BY <1>1, <1>2

LEMMA AlwaysTidy == ProgressSpec => []Tidy
  BY InitTidy, StepTidy, PTL DEF ProgressSpec

-----------------------------------------------------------------------------
(* Tokens, requests, queues and what is written stay well-formed.          *)
THEOREM TokensTypeCorrect == ProgressSpec => []ProgressTypeOK
<1>1. Tidy => ProgressTypeOK
  BY DEF Tidy
<1> QED BY <1>1, AlwaysTidy, PTL

(* For any tokens, number of reports and interleaving, the client sees the *)
(* begin, the reports told before the end, and the end, in that order; and *)
(* it has seen the end when end() returns.                                 *)
THEOREM TokenStreamsAreWhole == ProgressSpec => []StreamIsWhole
<1>1. ASSUME Tidy PROVE StreamIsWhole
  <2> SUFFICES ASSUME NEW t \in Tokens
      PROVE  /\ wire[t] # <<>> => wire[t][1] = "begin" /\ answer[t] = "accepted"
             /\ \A i \in DOMAIN wire[t] : wire[t][i] = "end" => i = Len(wire[t])
             /\ Ended(t) => Len(wire[t]) = told[t] + 2
             /\ owner[t] = "done" /\ drain[t] # "none" => Ended(t)
    BY DEF StreamIsWhole
  <2>1. /\ wire[t] \in Seq(Written) /\ DOMAIN wire[t] = 1 .. Len(wire[t])
        /\ wire[t] # <<>> => Len(wire[t]) \in 1 .. Len(wire[t])
        /\ drain[t] \in {"none", "open", "closed"} /\ told[t] \in Nat /\ Orderly(t)
    BY <1>1, TokenTypes DEF Tidy
  <2>2. CASE drain[t] = "none"
    BY <2>1, <2>2 DEF Orderly, Ended
  <2>3. CASE drain[t] = "open"
    BY <2>1, <2>3 DEF Orderly, Flow, EndQueued, Ended
  <2>4. CASE drain[t] = "closed"
    BY <2>1, <2>4 DEF Orderly, EndWritten, Ended
  <2> QED BY <2>1, <2>2, <2>3, <2>4
<1> QED BY <1>1, AlwaysTidy, PTL

-----------------------------------------------------------------------------
(* IndexWorker.  The worker with its reporting jobs is still a consumer of *)
(* the queue, and every token it uses still one that ProgressReporting     *)
(* describes: so what is proved of the two holds of the composition.       *)

(* A step of the worker, a producer or the client is one of the queue's,   *)
(* or leaves the queue alone.                                              *)
LEMMA QueueStep == [WorkerNext]_workerVars => [Next]_vars
<1>1. StartJob => Next
  BY DEF StartJob, Next, Consume
<1>2. FinishJob => Next
  BY DEF FinishJob, Next, Consume
<1>3. RunJob => UNCHANGED vars
  BY DEF RunJob
<1>4. Worker => Next \/ UNCHANGED vars
  BY <1>1, <1>2, <1>3 DEF Worker, Next, Consume
<1>5. Produce => Next
  BY DEF Produce, Next
<1>6. Others => UNCHANGED vars
  BY DEF Others
<1> QED BY <1>4, <1>5, <1>6 DEF WorkerNext, workerVars

(* And one of a single token's, or leaves the tokens alone.                *)
LEMMA ProgressStep == [WorkerNext]_workerVars => [ProgressNext]_progressVars
<1>1. StartJob => ProgressNext \/ UNCHANGED progressVars
  BY DEF StartJob, ProgressNext
<1>2. RunJob => ProgressNext
  BY DEF RunJob, ProgressNext
<1>3. Worker => ProgressNext \/ UNCHANGED progressVars
  BY <1>1, <1>2 DEF Worker, FinishJob
<1>4. Produce => UNCHANGED progressVars
  BY DEF Produce
<1>5. Others => ProgressNext
  BY DEF Others, ProgressNext
<1> QED BY <1>3, <1>4, <1>5 DEF WorkerNext, workerVars

-----------------------------------------------------------------------------
(* The worker that waits for its client while a job runs, and whose jobs   *)
(* may panic at their reports, implements the queue and the progress       *)
(* streams.                                                                *)
THEOREM WorkerImplements == WorkerSpec => Spec /\ ProgressSpec
  BY QueueStep, ProgressStep, PTL DEF WorkerSpec, WorkerInit, Spec, ProgressSpec

(* is_idle never answers true with a request unserved, jobs in the middle  *)
(* of their reports included.                                              *)
THEOREM WorkerIdleIsServed == WorkerSpec => []IdleMeansServed
  BY WorkerImplements, IdleIsServed, PTL

(* The worker never sleeps beside a queued job without a wake-up under way. *)
THEOREM WorkerWakeupsAreNotLost == WorkerSpec => []NoLostWakeup
  BY WorkerImplements, WakeupsAreNotLost, PTL

(* So jobs are still served from four lanes, most urgent first, whatever   *)
(* the jobs report and the client answers.                                 *)
THEOREM WorkerImplementsLanes == WorkerSpec => ImplementsLanes
  BY WorkerImplements, QueueImplementsLanes, PTL

(* Every token of the worker's jobs is a whole stream.                     *)
THEOREM WorkerStreamsAreWhole == WorkerSpec => []StreamIsWhole
  BY WorkerImplements, TokenStreamsAreWhole, PTL
=============================================================================
