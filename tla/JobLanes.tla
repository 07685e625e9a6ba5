------------------------------ MODULE JobLanes ------------------------------
(***************************************************************************)
(* What the background job queue promises its callers, without the heap,   *)
(* the sequence numbers, the mutex or the wake-up: four first-in first-out *)
(* lanes, one per priority, in which a job waits at most once, and one     *)
(* consumer that always takes the head of the most urgent non-empty lane.  *)
(* JobQueue is shown to implement this module.                             *)
(***************************************************************************)
EXTENDS Naturals, Sequences, SequencesExt

CONSTANTS
  Jobs,        \* the jobs that can be asked for
  None         \* "no job": the consumer is not processing anything

Priorities == 0 .. 3      \* Low, Normal, High, Immediate

VARIABLES
  lanes,       \* lanes[p] is the queue of the jobs waiting at priority p
  busy         \* the job being processed, or None

vars == <<lanes, busy>>

Waiting == UNION {ToSet(lanes[p]) : p \in Priorities}

Init ==
  /\ lanes = [p \in Priorities |-> <<>>]
  /\ busy = None

(* A request joins the end of its lane, unless the job waits already.      *)
Request(j, p) ==
  /\ j \notin Waiting
  /\ lanes' = [lanes EXCEPT ![p] = Append(@, j)]
  /\ UNCHANGED busy

Take(p) ==
  /\ busy = None
  /\ lanes[p] # <<>>
  /\ \A q \in Priorities : q > p => lanes[q] = <<>>
  /\ busy' = Head(lanes[p])
  /\ lanes' = [lanes EXCEPT ![p] = Tail(@)]

Finish ==
  /\ busy # None
  /\ busy' = None
  /\ UNCHANGED lanes

Next ==
  \/ \E j \in Jobs, p \in Priorities : Request(j, p)
  \/ \E p \in Priorities : Take(p)
  \/ Finish

Spec == Init /\ [][Next]_vars
=============================================================================
