------------------------------- MODULE Agent2 -------------------------------
(***************************************************************************)
(* agent2/graph.py and agent2/agent.py: the four graphs of Agent 2.  Each  *)
(* node reads the stored case, makes its operations and routes to the next *)
(* node; an invocation starts at the entry node and ends with the last.    *)
(***************************************************************************)
EXTENDS Runtime

CONSTANTS
  Replies,       \* the ids of the counterparty's replies
  MaxBookings    \* bound: no closing starts once booking was updated this often

AwaitingStatuses == {"AWAITING_RESPONSE", "AWAITING_CLARIFICATION"}

\* A node that handles a reply carries its message id.
MessageStep(kind, m) == [do |-> kind, message |-> m]

\* The intents that IntentClassifier.classify answers and where they lead.  A
\* `judge` says what may be answered about the case as stored: judge.intents[m],
\* the intents of reply m; judge.eligible, the answers of evaluate_auto_close; and
\* judge.priced, the replies that state a price.
IntentRoutes ==
  [AGREE |-> "reconcile_agreement", DISPUTE |-> "flag_dispute", PARTIAL |-> "flag_partial"]

----------------------------------------------------------------------------
(* handle_response *)

HandleResponse(p, m) == Call(p, << MessageStep("dedupe_and_parse", m) >>)

\* Mutant: only a case that does not wait is left alone.
DedupeForgetful(p) ==
  \E m \in Replies :
    /\ Doing(p, "dedupe_and_parse") /\ Head(prog[p]).message = m
    /\ Node(p, "dedupe_and_parse",
            IF row.status \notin AwaitingStatuses
            THEN << >>
            ELSE << MessageStep("classify_and_record", m) >>)

\* A reply that is on record already, or comes when nobody waits for it, ends here.
DedupeAndParse(p) ==
  \E m \in Replies :
    /\ Doing(p, "dedupe_and_parse") /\ Head(prog[p]).message = m
    /\ Node(p, "dedupe_and_parse",
            IF m \in row.processed \/ row.status \notin AwaitingStatuses
            THEN << >>
            ELSE << MessageStep("classify_and_record", m) >>)

ClassifyAndRecord(p, judge) ==
  \E m \in Replies :
    /\ Doing(p, "classify_and_record") /\ Head(prog[p]).message = m
    /\ \E intent \in judge.intents[m] :
         Node(p, "classify_and_record",
              Operation(Record(m)) \o Operation(Move("RESPONSE_RECEIVED", FALSE))
                \o << MessageStep(IntentRoutes[intent], m) >>)

\* The transition to RESOLVED that evaluate_auto_close decides, at the price that the
\* handler's reply states.
AutoResolve(eligible, m) ==
  [op |-> "transition", target |-> "RESOLVED", human |-> FALSE, eligible |-> eligible,
   resolution |-> m]

ReconcileAgreement(p, judge) ==
  \E m \in Replies, eligible \in judge.eligible :
    /\ Doing(p, "reconcile_agreement") /\ Head(prog[p]).message = m
    /\ Node(p, "reconcile_agreement",
            Operation(Move("AGREED", FALSE))
              \o << [do |-> "attempt", call |-> AutoResolve(eligible, m)],
                    Step("write_booking_record") >>)

\* The attempt succeeds like any write; a GuardrailViolation is caught and the case
\* goes to gate 2; what else the attempt raises is not caught.
Attempt(p) == CommitCase(p, "attempt")

\* Mutant: the violation is not caught.
AttemptRaises(p) ==
  /\ Doing(p, "attempt")
  /\ LET k == Head(prog[p]).call
     IN  ~Allowed(snap[p], k) \/ snap[p].version # row.version
  /\ Raise(p)
  /\ UNCHANGED << row, timers, sent, booked, snap, failures >>

AttemptRefused(p) ==
  /\ Doing(p, "attempt")
  /\ LET k == Head(prog[p]).call
         refuses == /\ ~IllegalTransition(snap[p], k.target)
                    /\ GuardrailRefuses(snap[p], k.target, Context(k.human, k.eligible))
     IN  /\ ~Allowed(snap[p], k) \/ snap[p].version # row.version
         /\ prog' = [prog EXCEPT ![p] =
                       IF refuses
                       THEN Operation(Move("ESCALATED", FALSE)) \o << Step("open_gate2") >>
                       ELSE << >>]
  /\ UNCHANGED << row, timers, sent, booked, snap, failures >>

FlagDispute(p) ==
  Node(p, "flag_dispute",
       Operation(Move("DISPUTED", FALSE)) \o Operation(Move("ESCALATED", FALSE))
         \o << Step("open_gate2") >>)

\* Mutant: the route from flag_partial to open_gate2 is missing.
FlagPartialUnrouted(p) == Node(p, "flag_partial", Operation(Move("ESCALATED", FALSE)))

FlagPartial(p) ==
  Node(p, "flag_partial", Operation(Move("ESCALATED", FALSE)) \o << Step("open_gate2") >>)

OpenGate2(p) == Node(p, "open_gate2", Operation(Open("DISPUTE_ESCALATION", "none")))

----------------------------------------------------------------------------
(* write_booking_record and close_case, shared by handle_response and close *)

HoldForBooking(c) ==
  IF "BOOKING_WRITE_FAILED" \in c.tasks THEN << >>
  ELSE Operation([op |-> "raiseTask", kind |-> "BOOKING_WRITE_FAILED"])

\* Without a resolution on file it raises, which ends the graph as well.
WriteBookingRecord(p, judge) ==
  Node(p, "write_booking_record",
       CASE row.resolution \in judge.priced \cup {"settled"} -> << Step("book") >>
         [] row.resolution = "none" -> << >>
         [] OTHER -> HoldForBooking(row))

\* Mutant: an old task is left open.
BookingKeepsTask(p) ==
  /\ Doing(p, "book")
  /\ booked' = booked + 1
  /\ Then(p, << Step("close_case") >>)
  /\ UNCHANGED << row, timers, sent, snap, failures >>

\* call_tool returned: the update is applied and its success clears an old task.
BookingSucceeds(p) ==
  /\ Doing(p, "book")
  /\ booked' = booked + 1
  /\ Then(p, (IF "BOOKING_WRITE_FAILED" \in snap[p].tasks
              THEN Operation([op |-> "resolveTask", kind |-> "BOOKING_WRITE_FAILED"])
              ELSE << >>) \o << Step("close_case") >>)
  /\ UNCHANGED << row, timers, sent, snap, failures >>

\* Mutant: the failed write goes on to close_case.
BookingFailsAndCloses(p) ==
  /\ Doing(p, "book")
  /\ Then(p, << Step("close_case") >>)
  /\ UNCHANGED << row, timers, sent, booked, snap, failures >>

\* ToolCallExhausted: the case is held at RESOLVED.
BookingFails(p) ==
  /\ Doing(p, "book")
  /\ Then(p, HoldForBooking(snap[p]))
  /\ UNCHANGED << row, timers, sent, booked, snap, failures >>

\* A closing move is attributed to the human who resolved the case; on behalf of the
\* agent alone it is subject to evaluate_auto_close (_close_actor).
CloseCall(c, eligible) ==
  LET human == c.resolution \in {"settled", "legal"}
  IN  [op |-> "transition", target |-> "CLOSED", human |-> human,
       eligible |-> eligible /\ ~human, resolution |-> "none"]

CloseCase(p, judge) ==
  \E eligible \in judge.eligible : Node(p, "close_case", Operation(CloseCall(row, eligible)))

----------------------------------------------------------------------------
(* handle_sla_expiry.  The sweep that calls it on a due timer, and marks the *)
(* timer fired when it returns, is outside of the repository's source.       *)

HandleSlaExpiry(p) ==
  /\ "COUNTERPARTY_RESPONSE" \in timers
  /\ Call(p, << Step("verify_awaiting"), Step("mark_fired") >>)

VerifyAwaiting(p) ==
  Node(p, "verify_awaiting",
       IF row.status \in AwaitingStatuses THEN << Step("escalate") >> ELSE << >>)

\* Mutant: the gate is opened before the escalation.
EscalateLast(p) ==
  Node(p, "escalate", Operation(Open("DISPUTE_ESCALATION", "none"))
                        \o Operation(Move("ESCALATED", FALSE)))

Escalate(p) ==
  Node(p, "escalate", Operation(Move("ESCALATED", FALSE)) \o << Step("open_gate2") >>)

\* TimerService.mark_fired: the timer, armed again or not, is done.
MarkFired(p) ==
  /\ Doing(p, "mark_fired")
  /\ timers' = timers \ {"COUNTERPARTY_RESPONSE"}
  /\ Then(p, << >>)
  /\ UNCHANGED << row, sent, booked, snap, failures >>

----------------------------------------------------------------------------
(* send_clarification_request, called when request_more_info has returned *)

Unused(receipt) == \A i \in DOMAIN sent : sent[i] # receipt

\* The model runs out of receipts, the comms service does not.
SendClarificationRequest(p) ==
  /\ row.status = "AWAITING_CLARIFICATION"
  /\ \E receipt \in Receipts : Unused(receipt)
  /\ Call(p, << Step("draft_clarification") >>)

DraftClarification(p) == Node(p, "draft_clarification", << Step("send_and_record") >>)

\* _gate2_actor_identity: whoever acted on gate 2 last, in whose name the request goes
\* out; nobody did: ValueError.  The receipt's id is the message that is recorded.
SendAndRecord(p) ==
  /\ Doing(p, "send_and_record")
  /\ snap' = [snap EXCEPT ![p] = row]
  /\ IF \E i \in DOMAIN row.gates : row.gates[i].type = "DISPUTE_ESCALATION"
                                    /\ row.gates[i].status # "pending"
     THEN \E receipt \in Receipts :
            /\ Unused(receipt)
            /\ sent' = Append(sent, receipt)
            /\ Then(p, Operation(Record(receipt)))
     ELSE Raise(p) /\ UNCHANGED sent
  /\ UNCHANGED << row, timers, booked, failures >>

----------------------------------------------------------------------------
(* close_resolved_case *)

CloseResolvedCase(p) == booked < MaxBookings /\ Call(p, << Step("verify_resolved") >>)

VerifyResolved(p) ==
  Node(p, "verify_resolved",
       IF row.status = "RESOLVED" THEN << Step("write_booking_record") >> ELSE << >>)

----------------------------------------------------------------------------
AgentCall(p) ==
  \/ \E m \in Replies : HandleResponse(p, m)
  \/ HandleSlaExpiry(p) \/ SendClarificationRequest(p) \/ CloseResolvedCase(p)

AgentStep(p, judge) ==
  \/ DedupeAndParse(p) \/ ClassifyAndRecord(p, judge) \/ ReconcileAgreement(p, judge)
  \/ Attempt(p) \/ AttemptRefused(p) \/ FlagDispute(p) \/ FlagPartial(p) \/ OpenGate2(p)
  \/ WriteBookingRecord(p, judge) \/ BookingSucceeds(p) \/ BookingFails(p)
  \/ CloseCase(p, judge) \/ VerifyAwaiting(p) \/ Escalate(p) \/ MarkFired(p)
  \/ DraftClarification(p) \/ SendAndRecord(p) \/ VerifyResolved(p)
=============================================================================
