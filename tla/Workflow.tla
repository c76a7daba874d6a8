------------------------------ MODULE Workflow ------------------------------
(***************************************************************************)
(* One case in the hands of the people at the gates (HumanGates) and of    *)
(* the triggers of Agent 2 (Agent2): replies, the response timer, and the  *)
(* closing of resolved cases.  Procs of them run at the same time.         *)
(***************************************************************************)
EXTENDS HumanGates, Agent2

CONSTANT StartRows    \* the cases the story may begin with

\* Message ids are neither drafts nor the marks for the other resolutions.
ASSUME MessagesAssumption ==
  /\ Replies \cup Receipts \subseteq Messages
  /\ Messages \cap {"none", "settled", "legal"} = {}
  /\ Receipts \cap (Replies \cup Drafts) = {}
  /\ MaxFailures \in Nat

ASSUME StartRowsAssumption ==
  \A c \in StartRows : c \in Case /\ Orderly(c) /\ c.status # "CLOSED"

\* What is on the thread of such a case was recorded once and came from outside.
ASSUME ThreadsAssumption ==
  \A c \in StartRows : \A i \in DOMAIN c.thread :
    /\ c.thread[i] \in c.processed \ Receipts
    /\ \A j \in DOMAIN c.thread : c.thread[i] = c.thread[j] => i = j

\* External: what reached the counterparty before the story begins, from the draft
\* of a case that was sent.
SentBefore(c) == IF HasApprovedGate(c, "PRE_SEND_REVIEW") THEN << c.draft >> ELSE << >>

ArmedBefore(c) ==
  (UNION {GateTimers(c.gates[i].type) : i \in PendingGates(c, GateTypes)})
    \cup (IF HasApprovedGate(c, "PRE_SEND_REVIEW") THEN {"COUNTERPARTY_RESPONSE"} ELSE {})

\* A drafted case has Agent 1's last node, submit_gate1, about to run.
Init ==
  /\ row \in StartRows
  /\ timers = ArmedBefore(row)
  /\ sent = SentBefore(row)
  /\ booked = 0
  /\ snap = [p \in Procs |-> row]
  /\ \E first \in Procs :
       prog = [p \in Procs |-> IF p = first /\ row.status = "COMMS_DRAFTED"
                               THEN SubmitForApproval ELSE << >>]
  /\ failures = 0

\* The classifier and the auto-close check may answer anything; AutoClose says what
\* they really answer.
AnyJudge ==
  [intents  |-> [m \in Replies |-> DOMAIN IntentRoutes],
   eligible |-> BOOLEAN,
   priced   |-> Replies]

StepOf(p) == EngineStep(p) \/ GateStep(p) \/ AgentStep(p, AnyJudge)

Next == \E p \in Procs : HumanAction(p) \/ AgentCall(p) \/ StepOf(p) \/ BreakOff(p)

Spec == Init /\ [][Next]_vars

\* Handlers that run go on running; the sweep gets round to a timer that is due; the
\* closing of a resolved case is tried again and again, and booking does not fail for
\* ever (spec 10 s1: "retried with backoff").  Humans and the counterparty owe nothing.
Fairness ==
  /\ \A p \in Procs : WF_vars(StepOf(p)) /\ SF_vars(BookingSucceeds(p))
  /\ SF_vars(\E p \in Procs : HandleSlaExpiry(p))
  /\ SF_vars(\E p \in Procs : row.status = "RESOLVED" /\ CloseResolvedCase(p))

FairSpec == Spec /\ Fairness

----------------------------------------------------------------------------
CallSteps == {"cancel", "write", "attempt"}
MessageSteps ==
  {"dedupe_and_parse", "classify_and_record", "reconcile_agreement", "flag_dispute",
   "flag_partial"}
PlainSteps ==
  {"send", "reopen", "open_gate2",
   "write_booking_record", "book", "close_case", "verify_awaiting", "escalate",
   "mark_fired", "draft_clarification", "send_and_record", "verify_resolved"}

Steps ==
  [do : CallSteps, call : Calls] \cup [do : MessageSteps, message : Replies]
    \cup [do : PlainSteps] \cup [do : {"arm"}, kinds : SUBSET TimerKinds]

TypeOK ==
  /\ row \in Case
  /\ timers \in SUBSET TimerKinds
  /\ sent \in Seq(Drafts \cup Receipts)
  /\ booked \in Nat
  /\ snap \in [Procs -> Case]
  /\ \A p \in Procs : prog[p] \in Seq(Steps)
  /\ failures \in 0 .. MaxFailures

----------------------------------------------------------------------------
Notices == {i \in DOMAIN sent : sent[i] \in Drafts}

(* A break goes out at most once and only when gate 1 was approved for it,   *)
(* whoever else approves, edits, reassigns or rejects at the same time, and  *)
(* although approval, send and SENT are three steps (service.py:185-224,     *)
(* FR4).                                                                     *)
NoticeFollowsApproval ==
  /\ Cardinality(Notices) <= Cardinality(Approvals(row, "PRE_SEND_REVIEW"))
  /\ Cardinality(Approvals(row, "PRE_SEND_REVIEW")) <= 1

(* At most one gate waits for a human, and it holds the case in its status:  *)
(* nothing but the kill switch moves a case away from an open gate (spec 07: *)
(* "cannot transition past either without an explicit, recorded human        *)
(* action").                                                                 *)
OpenGateHoldsCase ==
  /\ Cardinality(PendingGates(row, GateTypes)) <= 1
  /\ HasOpenGate(row, {"PRE_SEND_REVIEW"}) =>
       row.status \in {"PENDING_ANALYST_APPROVAL", "CANCELLED"}
  /\ HasOpenGate(row, {"DISPUTE_ESCALATION"}) => row.status \in {"ESCALATED", "CANCELLED"}

(* No case is closed before its final price is in the booking system, and    *)
(* nothing is booked without one, whichever retries, failures and competing  *)
(* closings there were (agent2/graph.py:269-352).                            *)
ClosedIsBooked ==
  /\ row.status = "CLOSED" => booked > 0
  /\ booked > 0 => row.resolution \in Replies \cup {"settled"}

(* Every approval at gate 2 either resolved the case or was counted as a      *)
(* clarification loop, so no race between two people at the gate gets a loop  *)
(* past the cap uncounted (service.py:325-345, spec 10 s4).                   *)
LoopsAreCounted ==
  Cardinality(Approvals(row, "DISPUTE_ESCALATION")) =
    row.loops + (IF row.resolution \in {"settled", "legal"} THEN 1 ELSE 0)

(* While one handler runs after the other, a reply that is delivered again, in *)
(* whatever wait the case is then, is on the thread once (engine.py:433-437: no *)
(* "double-counted reply").                                                    *)
RepliesAreRecordedOnce ==
  \A i, j \in DOMAIN row.thread : row.thread[i] = row.thread[j] => i = j

(* Handlers work on copies and race each other, but every change of the case *)
(* is one operation that the engine allows on the case as it is stored, and  *)
(* no handler ever writes back a copy that went stale                        *)
(* (sqlite_store.py: ConcurrentModification).                                *)
CaseFollowsEngine == [][\E k \in Calls : Allowed(row, k) /\ row' = Result(row, k)]_row

----------------------------------------------------------------------------
(* While no handler fails or meets another one, a wait for the counterparty  *)
(* always ends (spec 10 s3: "not left in AWAITING_RESPONSE indefinitely").   *)
WaitsEnd == \A s \in AwaitingStatuses : row.status = s ~> row.status # s

(* What an agent has taken in hand it takes to a gate or to a resolution     *)
(* (FR7: "No case status SHALL exist without a defined next action").        *)
AgentHeld == {"RESPONSE_RECEIVED", "AGREED", "DISPUTED"}
RepliesMoveOn == row.status \in AgentHeld ~> row.status \notin AgentHeld

(* A case that waits at a gate has the gate open for someone to act on       *)
(* (spec 07: "none of them a dead end").                                     *)
Gated == row.status \in {"PENDING_ANALYST_APPROVAL", "ESCALATED"}
GateIsReachable ==
  Gated ~> (HasOpenGate(row, GateTypes) \/ ~Gated)

(* A case that an SME settled ends up CLOSED, or killed, when the booking    *)
(* write and the closing are retried (spec 10 s1).                           *)
SettledCloses ==
  row.status = "RESOLVED" /\ row.resolution = "settled" ~> row.status \in TerminalStatuses

----------------------------------------------------------------------------
(* What the repository's documents and tests say, and runs refute. *)

(* Once the kill switch was used nothing goes out to the counterparty any    *)
(* more (spec 10 s6: it "takes precedence over agent-initiated transitions   *)
(* in flight").                                                              *)
NothingSentAfterKill == [][row.status = "CANCELLED" => sent' = sent]_sent
=============================================================================
