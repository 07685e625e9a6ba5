------------------------------ MODULE JobQueue ------------------------------
(***************************************************************************)
(* The priority queue of background work (crates/tfls-state/src/jobs.rs)   *)
(* and the worker task that drains it (spawn_worker in                     *)
(* crates/tfls-lsp/src/indexer.rs).                                        *)
(*                                                                         *)
(* An action is one critical section of the queue's mutex, or one          *)
(* operation on its Notify: a producer inserts under the mutex and         *)
(* notifies only after it has released it, and the consumer looks under    *)
(* the mutex before it goes to sleep.  Every interleaving of those steps   *)
(* is a behaviour of this module.                                          *)
(***************************************************************************)
EXTENDS Naturals, FiniteSets

CONSTANTS
  Jobs,        \* distinct jobs (Job is compared structurally)
  Producers,   \* tasks that enqueue: handlers, the watcher, the worker's own jobs
  None,        \* "no job"
  MaxSeq       \* bound on the number of accepted requests

ASSUME QueueAssumption == None \notin Jobs /\ MaxSeq \in Nat

Priorities == 0 .. 3      \* Low, Normal, High, Immediate
Entry == [priority : Priorities, seq : 1 .. MaxSeq, job : Jobs]

VARIABLES
  heap,        \* the waiting entries
  pending,     \* the waiting jobs, for de-duplication
  in_flight,   \* jobs taken and not completed
  seq,         \* sequence number of the last accepted request
  permit,      \* the permit a Notify stores when nobody waits on it
  producer,    \* "idle", or "notify" between the unlock and notify_one
  worker,      \* where the consumer is in next() or in its job
  current,     \* the job the consumer processes, or None
  owed         \* history: jobs with a request not yet followed by a run

queueVars == <<heap, pending, in_flight, seq>>
vars == <<heap, pending, in_flight, seq, permit, producer, worker, current, owed>>

TypeOK ==
  /\ heap \subseteq Entry
  /\ pending \subseteq Jobs
  /\ in_flight \in 0 .. 1
  /\ seq \in 0 .. MaxSeq
  /\ permit \in BOOLEAN
  /\ producer \in [Producers -> {"idle", "notify"}]
  /\ worker \in {"polling", "parking", "parked", "running"}
  /\ current \in Jobs \cup {None}
  /\ owed \subseteq Jobs

Init ==
  /\ heap = {}
  /\ pending = {}
  /\ in_flight = 0
  /\ seq = 0
  /\ permit = FALSE
  /\ producer = [p \in Producers |-> "idle"]
  /\ worker = "polling"
  /\ current = None
  /\ owed = {}

(* Faulty: the later request of a lane first.                              *)
BeforeNewestFirst(e, f) ==
  \/ e.priority > f.priority
  \/ e.priority = f.priority /\ e.seq > f.seq

(* Entry::cmp: the higher priority first, then the lower sequence number.  *)
Before(e, f) ==
  \/ e.priority > f.priority
  \/ e.priority = f.priority /\ e.seq < f.seq

-----------------------------------------------------------------------------
(* Producers.                                                              *)

(* A job that waits already is not queued again, and nobody is notified.   *)
EnqueueDuplicate(p, j) ==
  /\ producer[p] = "idle"
  /\ j \in pending
  /\ owed' = owed \cup {j}
  /\ UNCHANGED <<queueVars, permit, producer, worker, current>>

EnqueueNew(p, j, pr) ==
  /\ producer[p] = "idle"
  /\ j \notin pending
  /\ seq < MaxSeq
  /\ pending' = pending \cup {j}
  /\ seq' = seq + 1
  /\ heap' = heap \cup {[priority |-> pr, seq |-> seq', job |-> j]}
  /\ owed' = owed \cup {j}
  /\ producer' = [producer EXCEPT ![p] = "notify"]
  /\ UNCHANGED <<in_flight, permit, worker, current>>

(* Faulty: notify_waiters, which stores no permit.                         *)
NotifyWaiters(p) ==
  /\ producer[p] = "notify"
  /\ producer' = [producer EXCEPT ![p] = "idle"]
  /\ worker' = IF worker = "parked" THEN "polling" ELSE worker
  /\ UNCHANGED <<queueVars, permit, current, owed>>

(* Notify::notify_one: wake the waiter, or leave it a permit.              *)
NotifyOne(p) ==
  /\ producer[p] = "notify"
  /\ producer' = [producer EXCEPT ![p] = "idle"]
  /\ IF worker = "parked"
       THEN worker' = "polling" /\ UNCHANGED permit
       ELSE permit' = TRUE /\ UNCHANGED worker
  /\ UNCHANGED <<queueVars, current, owed>>

-----------------------------------------------------------------------------
(* The consumer.                                                           *)

(* try_next finds a job: it leaves the heap and counts as in flight.       *)
TakeJob ==
  /\ worker = "polling"
  /\ \E e \in heap :
       /\ \A f \in heap \ {e} : Before(e, f)
       /\ heap' = heap \ {e}
       /\ pending' = pending \ {e.job}
       /\ current' = e.job
       /\ owed' = owed \ {e.job}
  /\ in_flight' = in_flight + 1
  /\ worker' = "running"
  /\ UNCHANGED <<seq, permit, producer>>

(* try_next finds nothing; the mutex is released before the task waits.    *)
FindNothing ==
  /\ worker = "polling"
  /\ heap = {}
  /\ worker' = "parking"
  /\ UNCHANGED <<queueVars, permit, producer, current, owed>>

(* Notify::notified().await: use a stored permit, or register and sleep.   *)
AwaitNotified ==
  /\ worker = "parking"
  /\ IF permit
       THEN permit' = FALSE /\ worker' = "polling"
       ELSE worker' = "parked" /\ UNCHANGED permit
  /\ UNCHANGED <<queueVars, producer, current, owed>>

(* handle_job returned, failed or panicked: complete() runs in each case.  *)
Complete ==
  /\ worker = "running"
  /\ in_flight' = IF in_flight = 0 THEN 0 ELSE in_flight - 1
  /\ worker' = "polling"
  /\ current' = None
  /\ UNCHANGED <<heap, pending, seq, permit, producer, owed>>

Consume == TakeJob \/ FindNothing \/ AwaitNotified \/ Complete

Next ==
  \/ \E p \in Producers, j \in Jobs : EnqueueDuplicate(p, j)
  \/ \E p \in Producers, j \in Jobs, pr \in Priorities : EnqueueNew(p, j, pr)
  \/ \E p \in Producers : NotifyOne(p)
  \/ Consume

Spec == Init /\ [][Next]_vars

(* The consumer and a producer that owes a notification are tasks of a     *)
(* running executor; nobody has to enqueue.                                *)
Fairness == WF_vars(Consume) /\ \A p \in Producers : WF_vars(NotifyOne(p))
FairSpec == Spec /\ Fairness

-----------------------------------------------------------------------------
(* Properties.                                                             *)

(* Faulty: idle as soon as the queue is empty.                             *)
is_idle_when_empty == heap = {}

is_idle == heap = {} /\ in_flight = 0

(* An observer of is_idle() knows that every request ever made, duplicates *)
(* included, was followed by a run of its job that has finished: this is   *)
(* what in_flight and the removal from pending at the pop are for.         *)
IdleMeansServed == is_idle => owed = {} /\ current = None

(* The consumer never sleeps on a non-empty queue unless a producer is     *)
(* about to wake it: inserting before notifying, and looking before        *)
(* sleeping, leave no window for a lost wake-up.                           *)
NoLostWakeup ==
  heap # {} =>
    \/ worker \in {"polling", "running"}
    \/ worker = "parking" /\ permit
    \/ \E p \in Producers : producer[p] = "notify"

(* A requested job is eventually run.                                      *)
EventuallyTaken == \A j \in Jobs : j \in owed ~> j \notin owed

-----------------------------------------------------------------------------
(* The mapping under which the queue implements JobLanes: a lane is the    *)
(* entries of one priority, each at the place that its sequence number     *)
(* gives it among them.                                                    *)
InLane(p) == {e \in heap : e.priority = p}

Place(lane, e) == Cardinality({f \in lane : f.seq <= e.seq})

InOrder(lane) ==
  [i \in 1 .. Cardinality(lane) |-> (CHOOSE e \in lane : Place(lane, e) = i).job]

LanesOfHeap == [p \in Priorities |-> InOrder(InLane(p))]

Lanes == INSTANCE JobLanes WITH lanes <- LanesOfHeap, busy <- current

(* The heap with its sequence numbers, the pending set and the worker loop *)
(* behave as four FIFO lanes served by one consumer.                       *)
ImplementsLanes == Lanes!Spec
=============================================================================
