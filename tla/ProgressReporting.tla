-------------------------- MODULE ProgressReporting --------------------------
(***************************************************************************)
(* Work-done progress (crates/tfls-lsp/src/progress.rs): the token a job   *)
(* asks the client for, the notifications it goes with, and the drain task *)
(* that writes the reports and the end of one token in order.              *)
(*                                                                         *)
(* A token is used by one job, from begin() to end() or to the drop of a   *)
(* reporter whose job panics.  Reports come from the job and from          *)
(* callbacks that may outlive it; a report to a closed queue is dropped.   *)
(* The transport keeps the order of what one task writes; the client reads *)
(* what is written, and need not answer.                                   *)
(***************************************************************************)
EXTENDS Naturals, Sequences

CONSTANTS
  Tokens,
  MaxReports   \* bound on the reports queued for one token

ASSUME ProgressAssumption == MaxReports \in Nat

VARIABLES
  supported,   \* whether the client advertised window.workDoneProgress
  owner,       \* where the job that uses a token is
  answer,      \* the client's answer to window/workDoneProgress/create
  drain,       \* the drain task of a token
  tx,          \* the messages queued for it
  wire,        \* the $/progress notifications written
  told         \* history: reports queued before the end was

progressVars == <<supported, owner, answer, drain, tx, wire, told>>

ProgressTypeOK ==
  /\ supported \in BOOLEAN
  /\ owner \in [Tokens -> {"idle", "asking", "working", "ending", "done", "dropped"}]
  /\ answer \in [Tokens -> {"none", "asked", "accepted", "refused"}]
  /\ drain \in [Tokens -> {"none", "open", "closed"}]
  /\ tx \in [Tokens -> Seq({"report", "end"})]
  /\ wire \in [Tokens -> Seq({"begin", "report", "end"})]
  /\ told \in [Tokens -> Nat]

ProgressInit ==
  /\ supported \in BOOLEAN
  /\ owner = [t \in Tokens |-> "idle"]
  /\ answer = [t \in Tokens |-> "none"]
  /\ drain = [t \in Tokens |-> "none"]
  /\ tx = [t \in Tokens |-> <<>>]
  /\ wire = [t \in Tokens |-> <<>>]
  /\ told = [t \in Tokens |-> 0]

-----------------------------------------------------------------------------
(* ProgressReporter::begin.  Without the capability nothing is asked.      *)
AskForToken(t) ==
  /\ owner[t] = "idle"
  /\ owner' = [owner EXCEPT ![t] = IF supported THEN "asking" ELSE "working"]
  /\ answer' = IF supported THEN [answer EXCEPT ![t] = "asked"] ELSE answer
  /\ UNCHANGED <<supported, drain, tx, wire, told>>

(* The client, which may also answer too late or never.                    *)
ClientAnswers(t) ==
  /\ answer[t] = "asked"
  /\ \E a \in {"accepted", "refused"} : answer' = [answer EXCEPT ![t] = a]
  /\ UNCHANGED <<supported, owner, drain, tx, wire, told>>

BeginReporting(t) ==
  /\ owner[t] = "asking" /\ answer[t] = "accepted"
  /\ wire' = [wire EXCEPT ![t] = <<"begin">>]
  /\ drain' = [drain EXCEPT ![t] = "open"]
  /\ owner' = [owner EXCEPT ![t] = "working"]
  /\ UNCHANGED <<supported, answer, tx, told>>

(* Faulty: the create request has no bound.                                *)
GiveUpWhenRefused(t) ==
  /\ owner[t] = "asking" /\ answer[t] = "refused"
  /\ owner' = [owner EXCEPT ![t] = "working"]
  /\ UNCHANGED <<supported, answer, drain, tx, wire, told>>

(* bounded_request: the client refused, or the timeout expired, possibly   *)
(* with the answer on its way.  The job goes on without a reporter.        *)
GiveUp(t) ==
  /\ owner[t] = "asking"
  /\ owner' = [owner EXCEPT ![t] = "working"]
  /\ UNCHANGED <<supported, answer, drain, tx, wire, told>>

(* Faulty: a detached report is written by a task of its own.              *)
ReportDetached(t) ==
  /\ drain[t] # "none" /\ Len(wire[t]) <= MaxReports
  /\ wire' = [wire EXCEPT ![t] = Append(@, "report")]
  /\ told' = [told EXCEPT ![t] = IF owner[t] = "working" THEN @ + 1 ELSE @]
  /\ UNCHANGED <<supported, owner, answer, drain, tx>>

(* report(), ReportSender::send and send_detached.                         *)
Report(t) ==
  /\ drain[t] = "open" /\ Len(wire[t]) + Len(tx[t]) <= MaxReports
  /\ tx' = [tx EXCEPT ![t] = Append(@, "report")]
  /\ told' = [told EXCEPT ![t] = IF owner[t] = "working" THEN @ + 1 ELSE @]
  /\ UNCHANGED <<supported, owner, answer, drain, wire>>

(* The end is queued, if there is a reporter.                              *)
QueueEnd(t) == IF drain[t] = "open" THEN [tx EXCEPT ![t] = Append(@, "end")] ELSE tx

(* end(), whose caller waits for the drain task.                           *)
End(t) ==
  /\ owner[t] = "working"
  /\ tx' = QueueEnd(t)
  /\ owner' = [owner EXCEPT ![t] = IF drain[t] = "open" THEN "ending" ELSE "done"]
  /\ UNCHANGED <<supported, answer, drain, wire, told>>

EndReturns(t) ==
  /\ owner[t] = "ending" /\ drain[t] = "closed"
  /\ owner' = [owner EXCEPT ![t] = "done"]
  /\ UNCHANGED <<supported, answer, drain, tx, wire, told>>

(* Faulty: a dropped reporter says nothing.                                *)
DropSilently(t) ==
  /\ owner[t] = "working"
  /\ owner' = [owner EXCEPT ![t] = "dropped"]
  /\ UNCHANGED <<supported, answer, drain, tx, wire, told>>

(* The job panics and its reporter is dropped.                             *)
Drop(t) ==
  /\ owner[t] = "working"
  /\ tx' = QueueEnd(t)
  /\ owner' = [owner EXCEPT ![t] = "dropped"]
  /\ UNCHANGED <<supported, answer, drain, wire, told>>

(* The drain task writes one message after the other, and stops at the end. *)
Write(t) ==
  /\ drain[t] = "open" /\ tx[t] # <<>>
  /\ wire' = [wire EXCEPT ![t] = Append(@, Head(tx[t]))]
  /\ IF Head(tx[t]) = "end"
       THEN drain' = [drain EXCEPT ![t] = "closed"] /\ tx' = [tx EXCEPT ![t] = <<>>]
       ELSE tx' = [tx EXCEPT ![t] = Tail(@)] /\ UNCHANGED drain
  /\ UNCHANGED <<supported, owner, answer, told>>

-----------------------------------------------------------------------------
(* What the job itself does once it has a token.                           *)
OwnerStep(t) == BeginReporting(t) \/ GiveUp(t) \/ End(t) \/ EndReturns(t) \/ Drop(t)

ProgressNext ==
  \E t \in Tokens :
    AskForToken(t) \/ ClientAnswers(t) \/ OwnerStep(t) \/ Report(t) \/ Write(t)

ProgressSpec == ProgressInit /\ [][ProgressNext]_progressVars

-----------------------------------------------------------------------------
Ended(t) == wire[t] # <<>> /\ wire[t][Len(wire[t])] = "end"

(* The client sees, for a token it accepted, a begin, every report queued  *)
(* before the end was, and then the end as the last word, however reports  *)
(* of callbacks, the job's end or its panic and the drain task interleave; *)
(* and once end() has returned it has seen the end (progress.rs: "whoever  *)
(* sends a Report before End in program order will be observed that way on *)
(* the wire", "the caller can rely on 'End has been written'").            *)
StreamIsWhole ==
  \A t \in Tokens :
    /\ wire[t] # <<>> => wire[t][1] = "begin" /\ answer[t] = "accepted"
    /\ \A i \in DOMAIN wire[t] : wire[t][i] = "end" => i = Len(wire[t])
    /\ Ended(t) => Len(wire[t]) = told[t] + 2
    /\ owner[t] = "done" /\ drain[t] # "none" => Ended(t)

(* No token stays open in the editor: what has begun ends, when the job    *)
(* panics too ("even if the scan task unwinds halfway through, Fidget gets *)
(* a clean close").                                                        *)
BegunEnds == \A t \in Tokens : wire[t] # <<>> ~> Ended(t)
=============================================================================
