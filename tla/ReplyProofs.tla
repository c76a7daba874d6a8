---------------------------- MODULE ReplyProofs -----------------------------
(***************************************************************************)
(* Proofs about what Agent 2 makes of a reply: that it is recorded once,   *)
(* and that a case which an agreement resolved deserved it.  The judge of  *)
(* the replies is again a parameter of the lemmas about steps, so that     *)
(* they serve Workflow and Agreement alike.                                *)
(***************************************************************************)
EXTENDS Agreement, WorkflowProofs, AutoCloseProofs

----------------------------------------------------------------------------
(* The invariants *)

\* The steps that a handler makes with nothing left to do after them.
SoloSteps ==
  {"dedupe_and_parse", "classify_and_record", "draft_clarification", "send_and_record"}

Records(s) == s.do = "write" /\ s.call.op = "record"

\* The steps that deal with a message.
Talks(s) ==
  s.do \in SoloSteps \cup {"reconcile_agreement", "attempt"} \/ Records(s)

OnThread(m) == \E i \in DOMAIN row.thread : row.thread[i] = m

\* A message is on the thread once and known to be, and a request that is on it was
\* sent.
ThreadIsClean ==
  \A i \in DOMAIN row.thread :
    /\ row.thread[i] \in row.processed
    /\ row.thread[i] \in Receipts => ~Unused(row.thread[i])
    /\ \A j \in DOMAIN row.thread : row.thread[i] = row.thread[j] => i = j

\* A handler records only as its next step, and only what is not on record.
RecordsOnce(p) ==
  \A i \in DOMAIN prog[p] :
    LET s == prog[p][i]
    IN  /\ s.do \in SoloSteps => Len(prog[p]) = 1
        /\ s.do = "classify_and_record" => s.message \notin row.processed
        /\ Records(s) => /\ i = 1
                         /\ ~OnThread(s.call.message)
                         /\ s.call.message \in Receipts => ~Unused(s.call.message)

SerialInv ==
  /\ WorkflowInv
  /\ ThreadIsClean
  /\ \A p \in Procs : RecordsOnce(p)

\* m is the newest reply on the thread.
IsNewest(m) ==
  \E i \in Inbound(row.thread) :
    row.thread[i] = m /\ \A j \in Inbound(row.thread) : j <= i

MayAttempt(m) == \E down \in SUBSET Tools : Eligible(deal, Classify(inbox[m]), down)

\* The reply that an agreement is about is the newest, or about to be, and the answer
\* about the attempt is the answer about its reply.
AgreesToNewest(p) ==
  \A i \in DOMAIN prog[p] :
    LET s == prog[p][i]
    IN  /\ s.do = "reconcile_agreement" =>
             IF Records(prog[p][1]) THEN prog[p][1].call.message = s.message
                                    ELSE IsNewest(s.message)
        /\ s.do = "attempt" /\ s.call.eligible => MayAttempt(s.call.resolution)

JudgedInv ==
  /\ SerialInv
  /\ inbox \in Inboxes /\ deal \in Deals
  /\ \A p \in Procs : AgreesToNewest(p)
  /\ row.resolution \in Replies => MayAttempt(row.resolution)

\* Agreements that the steps are about are agreements to replies in A.
AgreesTo(steps, A) ==
  \A i \in DOMAIN steps :
    /\ steps[i].do = "reconcile_agreement" => steps[i].message \in A
    /\ steps[i].do = "attempt" => steps[i].call.resolution \in A

\* The replies that are agreements, as the classifier reads them.
Agreeing == {m \in Replies : Classify(inbox[m]).intent = "AGREE"}

\* The same with any number of processes.
AgreedInv ==
  /\ WorkflowInv
  /\ inbox \in Inboxes /\ deal \in Deals
  /\ \A p \in Procs : AgreesTo(prog[p], Agreeing)
  /\ row.resolution \in Replies => row.resolution \in Agreeing

----------------------------------------------------------------------------
(* Steps that deal with no message *)

Silent(steps) == steps \in Seq(HandlerSteps) /\ \A i \in DOMAIN steps : ~Talks(steps[i])

LEMMA SilentEmpty == Silent(<< >>)
BY DEF Silent

LEMMA SilentStep ==
  ASSUME NEW s \in HandlerSteps, ~Talks(s)
  PROVE  Silent(<< s >>)
BY DEF Silent

LEMMA SilentJoin ==
  ASSUME NEW a, NEW b, Silent(a), Silent(b)
  PROVE  Silent(a \o b)
<1>1. /\ a \in Seq(HandlerSteps) /\ b \in Seq(HandlerSteps)
      /\ a \o b \in Seq(HandlerSteps) /\ DOMAIN (a \o b) = 1 .. Len(a) + Len(b)
      /\ DOMAIN a = 1 .. Len(a) /\ DOMAIN b = 1 .. Len(b)
      /\ Len(a) \in Nat /\ Len(b) \in Nat
      /\ \A i \in 1 .. Len(a) + Len(b) :
           (a \o b)[i] = IF i <= Len(a) THEN a[i] ELSE b[i - Len(a)]
  BY DEF Silent
<1>2. ASSUME NEW i \in 1 .. Len(a) + Len(b)
      PROVE  ~Talks((a \o b)[i])
  <2>1. i <= Len(a) => i \in DOMAIN a
    BY <1>1
  <2>2. ~(i <= Len(a)) => i - Len(a) \in DOMAIN b
    BY <1>1
  <2> QED BY <1>1, <2>1, <2>2 DEF Silent
<1> QED BY <1>1, <1>2 DEF Silent

LEMMA SilentOperation ==
  ASSUME NEW k \in HandlerCalls, k.op # "record"
  PROVE  Silent(Operation(k))
<1>1. Write(k) \in HandlerSteps /\ ~Talks(Write(k))
  BY DEF HandlerSteps, Write, Talks, Records, SoloSteps
<1>2. Cancel(k) \in HandlerSteps /\ ~Talks(Cancel(k))
  BY DEF HandlerSteps, Cancel, Talks, Records, SoloSteps
<1>3. Arm(GateTimers(k.gate)) \in HandlerSteps /\ ~Talks(Arm(GateTimers(k.gate)))
  BY DEF HandlerSteps, Arm, TimerKinds, AllGateTimers, GateTimers, GateTypes, Talks, Records,
         SoloSteps
<1>4. Silent(IF CancelsTimers(k) THEN << Cancel(k) >> ELSE << >>)
  BY <1>2, SilentStep, SilentEmpty
<1>5. Silent(IF k.op = "openGate" THEN << Arm(GateTimers(k.gate)) >> ELSE << >>)
  BY <1>3, SilentStep, SilentEmpty
<1>6. Silent(<< Write(k) >>)
  BY <1>1, SilentStep
<1> QED BY <1>4, <1>5, <1>6, SilentJoin DEF Operation

LEMMA SilentKinds ==
  /\ \A kind \in PlainSteps \ SoloSteps : Silent(<< Step(kind) >>)
  /\ \A kinds \in SUBSET TimerKinds : Silent(<< Arm(kinds) >>)
<1>1. ASSUME NEW kind \in PlainSteps \ SoloSteps
      PROVE  Silent(<< Step(kind) >>)
  <2>1. Step(kind) \in HandlerSteps /\ Step(kind).do = kind
    BY StepKinds
  <2>2. kind \notin {"write", "reconcile_agreement", "attempt"}
    BY DEF PlainSteps
  <2> QED BY <2>1, <2>2, SilentStep DEF Talks, Records
<1>2. ASSUME NEW kinds \in SUBSET TimerKinds
      PROVE  Silent(<< Arm(kinds) >>)
  BY StepKinds, SilentStep DEF Talks, Records, SoloSteps
<1> QED BY <1>1, <1>2

LEMMA SilentOperations ==
  /\ \A d \in {"keep", "agent", "edited"} : Silent(Operation(Update(d)))
  /\ \A t \in {"AWAITING_RESPONSE", "RESPONSE_RECEIVED", "AGREED", "DISPUTED", "ESCALATED"} :
       Silent(Operation(Move(t, FALSE)))
  /\ Silent(Operation(Move("SENT", TRUE)))
  /\ \A g \in GateTypes : Silent(Operation(Open(g, "none")))
  /\ \A g \in GateTypes : Silent(Operation(Close(g, "reassigned", "none", "none")))
  /\ \A v \in {"approved", "rejected"} :
       Silent(Operation(Close("PRE_SEND_REVIEW", v, "none", "none")))
  /\ \A r \in {"settled", "legal"} :
       Silent(Operation(Close("DISPUTE_ESCALATION", "approved", "RESOLVED", r)))
  /\ Silent(Operation(Close("DISPUTE_ESCALATION", "approved", "AWAITING_CLARIFICATION", "none")))
  /\ Silent(Operation(Kill))
  /\ \A o \in {"raiseTask", "resolveTask"} :
       Silent(Operation([op |-> o, kind |-> "BOOKING_WRITE_FAILED"]))
  /\ \A c : \A e \in BOOLEAN : Silent(Operation(CloseCall(c, e)))
<1>1. \A d : Update(d).op = "update"
  BY DEF Update
<1>2. \A t, h : Move(t, h).op = "transition"
  BY DEF Move
<1>3. \A g, t : Open(g, t).op = "openGate"
  BY DEF Open
<1>4. \A g, v, t, r : Close(g, v, t, r).op = "closeGate"
  BY DEF Close
<1>5. Kill.op = "kill"
  BY DEF Kill
<1>6. \A c, e : CloseCall(c, e).op = "transition"
  BY DEF CloseCall
<1>7. \A o : [op |-> o, kind |-> "BOOKING_WRITE_FAILED"].op = o
  OBVIOUS
<1> HIDE DEF Kill
<1>8. /\ \A d \in {"keep", "agent", "edited"} : Silent(Operation(Update(d)))
      /\ \A t \in {"AWAITING_RESPONSE", "RESPONSE_RECEIVED", "AGREED", "DISPUTED", "ESCALATED"} :
           Silent(Operation(Move(t, FALSE)))
      /\ Silent(Operation(Move("SENT", TRUE)))
      /\ \A g \in GateTypes : Silent(Operation(Open(g, "none")))
  BY <1>1, <1>2, <1>3, HandlerCallsMade, SilentOperation
<1>9. /\ \A g \in GateTypes : Silent(Operation(Close(g, "reassigned", "none", "none")))
      /\ \A v \in {"approved", "rejected"} :
           Silent(Operation(Close("PRE_SEND_REVIEW", v, "none", "none")))
      /\ \A r \in {"settled", "legal"} :
           Silent(Operation(Close("DISPUTE_ESCALATION", "approved", "RESOLVED", r)))
      /\ Silent(Operation(Close("DISPUTE_ESCALATION", "approved", "AWAITING_CLARIFICATION",
                                "none")))
  BY <1>4, HandlerCallsMade, SilentOperation
<1>10. /\ Silent(Operation(Kill))
       /\ \A c : \A e \in BOOLEAN : Silent(Operation(CloseCall(c, e)))
  BY <1>5, <1>6, HandlerCallsMade, SilentOperation
<1>11. ASSUME NEW o \in {"raiseTask", "resolveTask"}
       PROVE  Silent(Operation([op |-> o, kind |-> "BOOKING_WRITE_FAILED"]))
  <2>1. [op |-> o, kind |-> "BOOKING_WRITE_FAILED"] \in HandlerCalls
    BY HandlerCallsMade
  <2> QED BY <1>7, <2>1, SilentOperation
<1> QED BY <1>8, <1>9, <1>10, <1>11

SentGrows == \A i \in DOMAIN sent : i \in DOMAIN sent' /\ sent'[i] = sent[i]

\* A step of p that leaves the case alone and brings up nothing that talks.
Quiet(p) ==
  /\ row' = row /\ SentGrows
  /\ \A q \in Procs \ {p} : prog'[q] = prog[q]
  /\ \A i \in DOMAIN prog'[p] :
       Talks(prog'[p][i]) =>
         /\ prog[p][1].do # "write"
         /\ \E j \in DOMAIN prog[p] \ {1} : prog'[p][i] = prog[p][j]

LEMMA QuietPush ==
  ASSUME WorkflowInv, NEW p \in Procs, NEW kind, kind # "write", Doing(p, kind),
         NEW new, Silent(new), Then(p, new), row' = row, SentGrows
  PROVE  Quiet(p)
<1>1. new \in Seq(HandlerSteps) /\ \A i \in DOMAIN new : ~Talks(new[i])
  BY DEF Silent
<1> QED BY <1>1, PushedSteps DEF Quiet

LEMMA QuietReplace ==
  ASSUME WorkflowInv, NEW p \in Procs, NEW new, Silent(new),
         prog' = [prog EXCEPT ![p] = new], row' = row, SentGrows
  PROVE  Quiet(p)
<1>1. prog'[p] = new /\ \A q \in Procs \ {p} : prog'[q] = prog[q]
  BY DEF WorkflowInv, Types
<1> QED BY <1>1 DEF Quiet, Silent

LEMMA SentIsKept == sent' = sent => SentGrows
BY DEF SentGrows

LEMMA QuietNode ==
  ASSUME WorkflowInv, NEW p \in Procs, NEW kind, kind # "write", NEW new, Silent(new),
         Node(p, kind, new)
  PROVE  Quiet(p)
BY QuietPush, SentIsKept DEF Node

LEMMA QuietCall ==
  ASSUME WorkflowInv, NEW p \in Procs, NEW new, Silent(new), Call(p, new)
  PROVE  Quiet(p)
BY QuietReplace, SentIsKept DEF Call

LEMMA QuietRaise ==
  ASSUME WorkflowInv, NEW p \in Procs, Raise(p), row' = row, sent' = sent
  PROVE  Quiet(p)
BY QuietReplace, SentIsKept, SilentEmpty DEF Raise

\* What people do at the gates.
LEMMA QuietHumanAction ==
  ASSUME WorkflowInv, NEW p \in Procs, HumanAction(p)
  PROVE  Quiet(p)
<1>1. ASSUME NEW edited \in BOOLEAN, ApproveAndSend(p, edited)
      PROVE  Quiet(p)
  <2> DEFINE edit == IF edited THEN Operation(Update("edited")) ELSE << >>
             approve == Operation(Close("PRE_SEND_REVIEW", "approved", "none", "none"))
             sends == << Step("send") >>
             marks == Operation(Move("SENT", TRUE))
             waits == Operation(Move("AWAITING_RESPONSE", FALSE))
             arms == << Arm({"COUNTERPARTY_RESPONSE"}) >>
  <2>1. Silent(edit) /\ Silent(approve) /\ Silent(marks) /\ Silent(waits)
    BY SilentOperations, SilentEmpty
  <2>2. Silent(sends) /\ Silent(arms)
    BY SilentKinds DEF PlainSteps, SoloSteps, TimerKinds
  <2> HIDE DEF edit, approve, sends, marks, waits, arms
  <2>3. Silent(edit \o approve \o sends \o marks \o waits \o arms)
    BY <2>1, <2>2, SilentJoin
  <2>4. Call(p, edit \o approve \o sends \o marks \o waits \o arms)
    BY <1>1 DEF ApproveAndSend, HumanCall, edit, approve, sends, marks, waits, arms
  <2> QED BY <2>3, <2>4, QuietCall
<1>2. CASE Reject(p)
  <2>1. Silent(Operation(Close("PRE_SEND_REVIEW", "rejected", "none", "none"))
                 \o Operation(Kill))
    BY SilentOperations, SilentJoin
  <2> QED BY <1>2, <2>1, QuietCall DEF Reject, HumanCall
<1>3. CASE Reassign(p)
  <2>1. Silent(Operation(Close(CurrentGate(row), "reassigned", "none", "none")))
    BY CurrentGateIsGate, SilentOperations
  <2>2. Silent(<< Step("reopen") >>)
    BY SilentKinds DEF PlainSteps, SoloSteps
  <2>3. Silent(Operation(Close(CurrentGate(row), "reassigned", "none", "none"))
                 \o << Step("reopen") >>)
    BY <2>1, <2>2, SilentJoin
  <2> QED BY <1>3, <2>3, QuietCall DEF Reassign, HumanCall
<1>4. CASE ResolveManually(p) \/ EscalateToLegal(p)
  BY <1>4, SilentOperations, QuietCall DEF ResolveManually, EscalateToLegal, HumanCall
<1>5. CASE RequestMoreInfo(p)
  <2> DEFINE clarify == Operation(Close("DISPUTE_ESCALATION", "approved",
                                        "AWAITING_CLARIFICATION", "none"))
             keep == Operation(Update("keep"))
             arms == << Arm({"COUNTERPARTY_RESPONSE"}) >>
  <2>1. Silent(clarify) /\ Silent(keep)
    BY SilentOperations
  <2>2. Silent(arms)
    BY SilentKinds DEF TimerKinds
  <2> HIDE DEF clarify, keep, arms
  <2>3. Silent(clarify \o keep \o arms)
    BY <2>1, <2>2, SilentJoin
  <2>4. Call(p, clarify \o keep \o arms)
    BY <1>5 DEF RequestMoreInfo, HumanCall, clarify, keep, arms
  <2> QED BY <2>3, <2>4, QuietCall
<1>6. CASE KillSwitch(p)
  BY <1>6, SilentOperations, QuietCall DEF KillSwitch, HumanCall
<1> QED BY <1>1, <1>2, <1>3, <1>4, <1>5, <1>6 DEF HumanAction

\* Timers, refused writes, and the sending and the reassignment at gate 1.
LEMMA QuietEngineStep ==
  ASSUME WorkflowInv, NEW p \in Procs,
         \/ CancelTimers(p)
         \/ WriteRaises(p)
         \/ ArmTimers(p)
         \/ Send(p)
         \/ Reopen(p)
         \/ BreakOff(p)
  PROVE  Quiet(p)
<1>1. CASE CancelTimers(p)
  <2>1. Then(p, << >>) \/ Raise(p)
    BY <1>1 DEF CancelTimers
  <2>2. "cancel" # "write" /\ Doing(p, "cancel") /\ row' = row /\ sent' = sent
    BY <1>1 DEF CancelTimers
  <2> QED BY <2>1, <2>2, SilentEmpty, SentIsKept, QuietPush, QuietRaise
<1>2. CASE WriteRaises(p) \/ BreakOff(p)
  BY <1>2, QuietRaise DEF WriteRaises, BreakOff
<1>3. CASE ArmTimers(p)
  <2>1. "arm" # "write" /\ Doing(p, "arm") /\ row' = row /\ sent' = sent /\ Then(p, << >>)
    BY <1>3 DEF ArmTimers
  <2> QED BY <2>1, SilentEmpty, SentIsKept, QuietPush
<1>4. CASE Send(p)
  <2>1. "send" # "write" /\ Doing(p, "send") /\ row' = row /\ Then(p, << >>)
        /\ sent' = Append(sent, snap[p].draft)
    BY <1>4 DEF Send
  <2>2. SentGrows
    <3>1. sent \in Seq(Drafts \cup Receipts) /\ snap[p].draft \in Drafts
      BY DEF WorkflowInv, Types, Case
    <3> QED BY <2>1, <3>1 DEF SentGrows
  <2> QED BY <2>1, <2>2, SilentEmpty, QuietPush
<1>5. CASE Reopen(p)
  <2> DEFINE gate == snap[p].gates[Len(snap[p].gates)].type
  <2>1. /\ "reopen" # "write" /\ Doing(p, "reopen") /\ row' = row /\ sent' = sent
        /\ Then(p, Operation(Open(gate, "none")))
    BY <1>5 DEF Reopen
  <2>2. gate \in GateTypes
    <3>1. At(p, "reopen")
      BY <2>1, CurrentStep
    <3>2. snap[p].gates # << >> /\ snap[p].gates \in Seq(GateRecord)
      BY <3>1 DEF WorkflowInv, Prepared, Types, Case
    <3>3. snap[p].gates[Len(snap[p].gates)] \in GateRecord
      BY <3>2
    <3> QED BY <3>3 DEF GateRecord
  <2> HIDE DEF gate
  <2>3. Silent(Operation(Open(gate, "none")))
    BY <2>2, SilentOperations
  <2> QED BY <2>1, <2>3, SentIsKept, QuietPush
<1> QED BY <1>1, <1>2, <1>3, <1>4, <1>5

LEMMA SilentEscalation ==
  Silent(Operation(Move("ESCALATED", FALSE)) \o << Step("open_gate2") >>)
<1>1. Silent(<< Step("open_gate2") >>)
  BY SilentKinds DEF PlainSteps, SoloSteps
<1> QED BY <1>1, SilentOperations, SilentJoin

LEMMA SilentHold == \A c : Silent(HoldForBooking(c))
BY SilentOperations, SilentEmpty DEF HoldForBooking

\* The steps of Agent 2 that deal with no message.
LEMMA QuietAgentStep ==
  ASSUME WorkflowInv, NEW p \in Procs, NEW judge, IsJudge(judge),
         \/ AttemptRefused(p)
         \/ FlagDispute(p)
         \/ FlagPartial(p)
         \/ OpenGate2(p)
         \/ WriteBookingRecord(p, judge)
         \/ BookingSucceeds(p)
         \/ BookingFails(p)
         \/ CloseCase(p, judge)
         \/ VerifyAwaiting(p)
         \/ Escalate(p)
         \/ MarkFired(p)
         \/ VerifyResolved(p)
  PROVE  Quiet(p)
<1>1. CASE AttemptRefused(p)
  <2>1. PICK new : prog' = [prog EXCEPT ![p] = new] /\ Silent(new)
    BY <1>1, SilentEscalation, SilentEmpty DEF AttemptRefused
  <2> QED BY <1>1, <2>1, SentIsKept, QuietReplace DEF AttemptRefused
<1>2. CASE FlagDispute(p)
  <2>1. Silent(<< Step("open_gate2") >>)
    BY SilentKinds DEF PlainSteps, SoloSteps
  <2>2. Silent(Operation(Move("DISPUTED", FALSE)) \o Operation(Move("ESCALATED", FALSE))
                 \o << Step("open_gate2") >>)
    BY <2>1, SilentOperations, SilentJoin
  <2>3. "flag_dispute" # "write"
    OBVIOUS
  <2> QED BY <1>2, <2>2, <2>3, QuietNode DEF FlagDispute
<1>3. CASE FlagPartial(p) \/ Escalate(p)
  <2>1. "flag_partial" # "write" /\ "escalate" # "write"
    OBVIOUS
  <2> QED BY <1>3, <2>1, SilentEscalation, QuietNode DEF FlagPartial, Escalate
<1>4. CASE OpenGate2(p)
  <2>1. Silent(Operation(Open("DISPUTE_ESCALATION", "none"))) /\ "open_gate2" # "write"
    BY SilentOperations DEF GateTypes
  <2> QED BY <1>4, <2>1, QuietNode DEF OpenGate2
<1>5. CASE WriteBookingRecord(p, judge)
  <2>1. PICK new : Node(p, "write_booking_record", new)
                   /\ new \in {<< Step("book") >>, << >>, HoldForBooking(row)}
    <3> DEFINE new == CASE row.resolution \in judge.priced \cup {"settled"} -> << Step("book") >>
                        [] row.resolution = "none" -> << >>
                        [] OTHER -> HoldForBooking(row)
    <3>1. new \in {<< Step("book") >>, << >>, HoldForBooking(row)}
      <4>1. "none" \notin Replies \cup {"settled"}
        BY MessagesAssumption
      <4> QED BY <4>1 DEF IsJudge
    <3>2. Node(p, "write_booking_record", new)
      BY <1>5 DEF WriteBookingRecord
    <3> HIDE DEF new
    <3> QED BY <3>1, <3>2
  <2>2. Silent(<< Step("book") >>)
    BY SilentKinds DEF PlainSteps, SoloSteps
  <2>3. Silent(new) /\ "write_booking_record" # "write"
    BY <2>1, <2>2, SilentEmpty, SilentHold
  <2> QED BY <2>1, <2>3, QuietNode
<1>6. CASE BookingSucceeds(p)
  <2> DEFINE clears == IF "BOOKING_WRITE_FAILED" \in snap[p].tasks
                       THEN Operation([op |-> "resolveTask", kind |-> "BOOKING_WRITE_FAILED"])
                       ELSE << >>
  <2>1. Silent(clears)
    BY SilentOperations, SilentEmpty
  <2>2. Silent(<< Step("close_case") >>)
    BY SilentKinds DEF PlainSteps, SoloSteps
  <2>3. /\ Doing(p, "book") /\ Then(p, clears \o << Step("close_case") >>)
        /\ row' = row /\ sent' = sent /\ "book" # "write"
    BY <1>6 DEF BookingSucceeds
  <2> HIDE DEF clears
  <2> QED BY <2>1, <2>2, <2>3, SilentJoin, SentIsKept, QuietPush
<1>7. CASE BookingFails(p)
  <2>1. /\ Doing(p, "book") /\ Then(p, HoldForBooking(snap[p])) /\ row' = row /\ sent' = sent
        /\ "book" # "write"
    BY <1>7 DEF BookingFails
  <2> QED BY <2>1, SilentHold, SentIsKept, QuietPush
<1>8. CASE CloseCase(p, judge)
  <2>1. PICK eligible \in BOOLEAN : Node(p, "close_case", Operation(CloseCall(row, eligible)))
    BY <1>8 DEF CloseCase, IsJudge
  <2>2. Silent(Operation(CloseCall(row, eligible))) /\ "close_case" # "write"
    BY SilentOperations
  <2> QED BY <2>1, <2>2, QuietNode
<1>9. CASE VerifyAwaiting(p) \/ VerifyResolved(p)
  <2>1. Silent(<< Step("escalate") >>) /\ Silent(<< Step("write_booking_record") >>)
    BY SilentKinds DEF PlainSteps, SoloSteps
  <2>2. "verify_awaiting" # "write" /\ "verify_resolved" # "write"
    OBVIOUS
  <2>3. ASSUME VerifyAwaiting(p) PROVE Quiet(p)
    BY <2>1, <2>2, <2>3, SilentEmpty, QuietNode DEF VerifyAwaiting
  <2>4. ASSUME VerifyResolved(p) PROVE Quiet(p)
    BY <2>1, <2>2, <2>4, SilentEmpty, QuietNode DEF VerifyResolved
  <2> QED BY <1>9, <2>3, <2>4
<1>10. CASE MarkFired(p)
  <2>1. /\ Doing(p, "mark_fired") /\ Then(p, << >>) /\ row' = row /\ sent' = sent
        /\ "mark_fired" # "write"
    BY <1>10 DEF MarkFired
  <2> QED BY <2>1, SilentEmpty, SentIsKept, QuietPush
<1> QED BY <1>1, <1>2, <1>3, <1>4, <1>5, <1>6, <1>7, <1>8, <1>9, <1>10

\* The timer's handler and the closing of a resolved case start with no message.
LEMMA QuietAgentCall ==
  ASSUME WorkflowInv, NEW p \in Procs, HandleSlaExpiry(p) \/ CloseResolvedCase(p)
  PROVE  Quiet(p)
<1>1. CASE HandleSlaExpiry(p)
  <2> DEFINE a == Step("verify_awaiting")
             b == Step("mark_fired")
  <2>1. a \in HandlerSteps /\ b \in HandlerSteps /\ ~Talks(a) /\ ~Talks(b)
    BY StepKinds DEF PlainSteps, Talks, Records, SoloSteps
  <2> HIDE DEF a, b
  <2>2. Silent(<< a, b >>)
    BY <2>1 DEF Silent
  <2> QED BY <1>1, <2>2, QuietCall DEF HandleSlaExpiry, a, b
<1>2. CASE CloseResolvedCase(p)
  <2>1. Silent(<< Step("verify_resolved") >>)
    BY SilentKinds DEF PlainSteps, SoloSteps
  <2> QED BY <1>2, <2>1, QuietCall DEF CloseResolvedCase
<1> QED BY <1>1, <1>2

\* Every step is quiet, but for those that deal with a message and those that commit.
LEMMA StepsThatTalk ==
  ASSUME WorkflowInv, NEW p \in Procs, NEW judge, IsJudge(judge),
         \/ HumanAction(p) \/ AgentCall(p) \/ BreakOff(p)
         \/ EngineStep(p) \/ GateStep(p) \/ AgentStep(p, judge)
  PROVE  \/ Quiet(p)
         \/ \E m \in Replies : HandleResponse(p, m)
         \/ SendClarificationRequest(p)
         \/ DedupeAndParse(p)
         \/ ClassifyAndRecord(p, judge)
         \/ ReconcileAgreement(p, judge)
         \/ DraftClarification(p)
         \/ SendAndRecord(p)
         \/ \E kind \in {"write", "attempt"} : CommitCase(p, kind)
<1>1. CASE HumanAction(p)
  BY <1>1, QuietHumanAction
<1>2. CASE AgentCall(p)
  BY <1>2, QuietAgentCall DEF AgentCall
<1>3. CASE BreakOff(p) \/ GateStep(p)
  BY <1>3, QuietEngineStep DEF GateStep
<1>4. CASE EngineStep(p)
  BY <1>4, QuietEngineStep DEF EngineStep, WriteCase
<1>5. CASE AgentStep(p, judge)
  BY <1>5, QuietAgentStep DEF AgentStep, Attempt
<1> QED BY <1>1, <1>2, <1>3, <1>4, <1>5

----------------------------------------------------------------------------
(* Steps that deal with a message *)

\* What the classification of a reply leads to.
LEMMA ClassifiedSteps ==
  ASSUME NEW m \in Replies, NEW intent \in DOMAIN IntentRoutes
  PROVE  LET new == Operation(Record(m)) \o Operation(Move("RESPONSE_RECEIVED", FALSE))
                      \o << MessageStep(IntentRoutes[intent], m) >>
         IN  /\ new \in Seq(HandlerSteps) /\ Len(new) = 3 /\ new # << >>
             /\ new[1] = Write(Record(m))
             /\ new[2] = Write(Move("RESPONSE_RECEIVED", FALSE))
             /\ new[3] = MessageStep(IntentRoutes[intent], m)
<1> DEFINE a == Write(Record(m))
           b == Write(Move("RESPONSE_RECEIVED", FALSE))
           s == MessageStep(IntentRoutes[intent], m)
<1>1. Operation(Record(m)) = << a >> /\ Operation(Move("RESPONSE_RECEIVED", FALSE)) = << b >>
  BY DEF Operation, CancelsTimers, Record, Move
<1>2. a \in HandlerSteps /\ b \in HandlerSteps
  BY HandlerCallsMade DEF HandlerSteps, Write
<1>3. s \in HandlerSteps
  BY StepKinds DEF IntentRoutes, MessageSteps
<1> HIDE DEF a, b, s
<1>4. LET new == << a >> \o << b >> \o << s >>
      IN  /\ new \in Seq(HandlerSteps) /\ Len(new) = 3 /\ new # << >>
          /\ new[1] = a /\ new[2] = b /\ new[3] = s
  BY <1>2, <1>3
<1> QED BY <1>1, <1>4 DEF a, b, s

\* What an agreement leads to.
LEMMA ReconcilingSteps ==
  ASSUME NEW m \in Replies, NEW eligible \in BOOLEAN
  PROVE  LET new == Operation(Move("AGREED", FALSE))
                      \o << [do |-> "attempt", call |-> AutoResolve(eligible, m)],
                            Step("write_booking_record") >>
         IN  /\ new \in Seq(HandlerSteps) /\ Len(new) = 3 /\ new # << >>
             /\ new[1] = Write(Move("AGREED", FALSE))
             /\ new[2] = [do |-> "attempt", call |-> AutoResolve(eligible, m)]
             /\ new[3] = Step("write_booking_record")
<1> DEFINE a == Write(Move("AGREED", FALSE))
           b == [do |-> "attempt", call |-> AutoResolve(eligible, m)]
           s == Step("write_booking_record")
<1>1. Operation(Move("AGREED", FALSE)) = << a >>
  BY DEF Operation, CancelsTimers, Move
<1>2. a \in HandlerSteps /\ b \in HandlerSteps
  <2>1. AutoResolve(eligible, m) \in Attempts
    BY DEF Attempts
  <2> QED BY <2>1, HandlerCallsMade DEF HandlerSteps, Write
<1>3. s \in HandlerSteps
  BY StepKinds DEF PlainSteps
<1> HIDE DEF a, b, s
<1>4. LET new == << a >> \o << b, s >>
      IN  /\ new \in Seq(HandlerSteps) /\ Len(new) = 3 /\ new # << >>
          /\ new[1] = a /\ new[2] = b /\ new[3] = s
  BY <1>2, <1>3
<1> QED BY <1>1, <1>4 DEF a, b, s

\* What is recorded of a request that went out.
LEMMA RecordingSteps ==
  ASSUME NEW m \in Replies \cup Receipts
  PROVE  /\ Operation(Record(m)) = << Write(Record(m)) >>
         /\ << Write(Record(m)) >> \in Seq(HandlerSteps)
<1>1. Write(Record(m)) \in HandlerSteps
  BY HandlerCallsMade DEF HandlerSteps, Write
<1> QED BY <1>1 DEF Operation, CancelsTimers, Record

LEMMA SoloStepsMade ==
  /\ \A m \in Replies : /\ << MessageStep("dedupe_and_parse", m) >> \in Seq(HandlerSteps)
                        /\ << MessageStep("classify_and_record", m) >> \in Seq(HandlerSteps)
  /\ << Step("draft_clarification") >> \in Seq(HandlerSteps)
  /\ << Step("send_and_record") >> \in Seq(HandlerSteps)
<1>1. \A m \in Replies : MessageStep("dedupe_and_parse", m) \in HandlerSteps
                         /\ MessageStep("classify_and_record", m) \in HandlerSteps
  BY StepKinds DEF MessageSteps
<1>2. Step("draft_clarification") \in HandlerSteps /\ Step("send_and_record") \in HandlerSteps
  BY StepKinds DEF PlainSteps
<1> QED BY <1>1, <1>2

\* A handler that is called while its process is idle.
LEMMA CalledSteps ==
  ASSUME WorkflowInv, NEW p \in Procs, NEW new, Call(p, new)
  PROVE  prog'[p] = new /\ (\A q \in Procs \ {p} : prog'[q] = prog[q]) /\ row' = row /\ sent' = sent
BY DEF WorkflowInv, Types, Call

----------------------------------------------------------------------------
(* Agreements, with any number of processes *)

LEMMA AgreesAfterPush ==
  ASSUME WorkflowInv, NEW p \in Procs, NEW kind, Doing(p, kind),
         NEW new \in Seq(HandlerSteps), Then(p, new),
         NEW A, AgreesTo(prog[p], A), AgreesTo(new, A)
  PROVE  AgreesTo(prog'[p], A)
<1>1. \A i \in DOMAIN prog'[p] :
        \/ i \in DOMAIN new /\ prog'[p][i] = new[i]
        \/ \E j \in DOMAIN prog[p] \ {1} : prog'[p][i] = prog[p][j]
  BY PushedSteps
<1> QED BY <1>1 DEF AgreesTo

LEMMA NoAgreement ==
  ASSUME NEW s, s.do \notin {"reconcile_agreement", "attempt"}, NEW A
  PROVE  AgreesTo(<< s >>, A)
BY DEF AgreesTo

\* Whatever a step does, it agrees to nothing but what the judge calls an agreement.
LEMMA AgreesAfterStep ==
  ASSUME WorkflowInv, NEW p \in Procs, NEW judge, IsJudge(judge),
         \/ HumanAction(p) \/ AgentCall(p) \/ BreakOff(p)
         \/ EngineStep(p) \/ GateStep(p) \/ AgentStep(p, judge),
         NEW A, \A m \in Replies : "AGREE" \in judge.intents[m] => m \in A,
         \A q \in Procs : AgreesTo(prog[q], A)
  PROVE  \A q \in Procs : AgreesTo(prog'[q], A)
<1>1. CASE Quiet(p)
  <2>1. AgreesTo(prog'[p], A)
    BY <1>1 DEF Quiet, AgreesTo, Talks
  <2> QED BY <1>1, <2>1 DEF Quiet
<1>2. ASSUME NEW m \in Replies, HandleResponse(p, m)
      PROVE  \A q \in Procs : AgreesTo(prog'[q], A)
  <2>1. AgreesTo(<< MessageStep("dedupe_and_parse", m) >>, A)
    BY NoAgreement DEF MessageStep
  <2> QED BY <1>2, <2>1, CalledSteps DEF HandleResponse
<1>3. CASE SendClarificationRequest(p)
  <2>1. AgreesTo(<< Step("draft_clarification") >>, A)
    BY NoAgreement DEF Step
  <2> QED BY <1>3, <2>1, CalledSteps DEF SendClarificationRequest
<1>4. AgreesTo(<< >>, A)
  BY DEF AgreesTo
<1> << >> \in Seq(HandlerSteps)
  OBVIOUS
<1>5. ASSUME NEW kind, Doing(p, kind), NEW new \in Seq(HandlerSteps), Then(p, new),
             AgreesTo(new, A)
      PROVE  \A q \in Procs : AgreesTo(prog'[q], A)
  BY <1>5, AgreesAfterPush, PushedSteps
<1>6. CASE DedupeAndParse(p)
  <2>1. PICK new : /\ \/ new = << >>
                      \/ \E m \in Replies : new = << MessageStep("classify_and_record", m) >>
                   /\ Doing(p, "dedupe_and_parse") /\ Then(p, new)
    BY <1>6 DEF DedupeAndParse, Node
  <2>2. new \in Seq(HandlerSteps)
    BY <2>1, SoloStepsMade
  <2>3. AgreesTo(new, A)
    BY <1>4, <2>1, NoAgreement DEF MessageStep
  <2> QED BY <1>5, <2>1, <2>2, <2>3
<1>7. CASE ClassifyAndRecord(p, judge)
  <2> DEFINE steps(m, intent) ==
               Operation(Record(m)) \o Operation(Move("RESPONSE_RECEIVED", FALSE))
                 \o << MessageStep(IntentRoutes[intent], m) >>
  <2>1. PICK m \in Replies : \E intent \in judge.intents[m] :
          Doing(p, "classify_and_record") /\ Then(p, steps(m, intent))
    BY <1>7 DEF ClassifyAndRecord, Node
  <2>2. PICK intent \in judge.intents[m] :
          Doing(p, "classify_and_record") /\ Then(p, steps(m, intent))
    BY <2>1
  <2>3. intent \in DOMAIN IntentRoutes
    BY <2>2 DEF IsJudge
  <2> DEFINE new == steps(m, intent)
  <2>4. /\ new \in Seq(HandlerSteps) /\ Len(new) = 3
        /\ new[1] = Write(Record(m))
        /\ new[2] = Write(Move("RESPONSE_RECEIVED", FALSE))
        /\ new[3] = MessageStep(IntentRoutes[intent], m)
    BY <2>3, ClassifiedSteps
  <2>5. Then(p, new) /\ Doing(p, "classify_and_record")
    BY <2>2
  <2>6. IntentRoutes[intent] = "reconcile_agreement" => intent = "AGREE"
    BY <2>3 DEF IntentRoutes
  <2>7. IntentRoutes[intent] # "attempt"
    BY <2>3 DEF IntentRoutes
  <2> HIDE DEF new
  <2>8. new[1].do = "write" /\ new[2].do = "write" /\ new[3].do = IntentRoutes[intent]
        /\ new[3].message = m
    BY <2>4 DEF Write, MessageStep
  <2>9. DOMAIN new = 1 .. 3
    BY <2>4
  <2>10. AgreesTo(new, A)
    BY <2>2, <2>6, <2>7, <2>8, <2>9 DEF AgreesTo
  <2> QED BY <1>5, <2>4, <2>5, <2>10
<1>8. CASE ReconcileAgreement(p, judge)
  <2> DEFINE steps(m, eligible) ==
               Operation(Move("AGREED", FALSE))
                 \o << [do |-> "attempt", call |-> AutoResolve(eligible, m)],
                       Step("write_booking_record") >>
  <2>1. PICK m \in Replies, eligible \in judge.eligible :
          /\ Doing(p, "reconcile_agreement") /\ Head(prog[p]).message = m
          /\ Then(p, steps(m, eligible))
    BY <1>8 DEF ReconcileAgreement, Node
  <2> DEFINE new == steps(m, eligible)
  <2>2. /\ new \in Seq(HandlerSteps) /\ Len(new) = 3
        /\ new[1] = Write(Move("AGREED", FALSE))
        /\ new[2] = [do |-> "attempt", call |-> AutoResolve(eligible, m)]
        /\ new[3] = Step("write_booking_record")
    <3>1. eligible \in BOOLEAN
      BY <2>1 DEF IsJudge
    <3> QED BY <3>1, ReconcilingSteps
  <2>3. Then(p, new)
    BY <2>1
  <2> HIDE DEF new
  <2>4. m \in A
    <3>1. prog[p] # << >> /\ prog[p][1] = Head(prog[p]) /\ prog[p][1].do = "reconcile_agreement"
          /\ 1 \in DOMAIN prog[p]
      BY <2>1, <2>2, <2>3, PushedSteps
    <3> QED BY <2>1, <3>1 DEF AgreesTo
  <2>5. /\ new[1].do = "write" /\ new[2].do = "attempt" /\ new[2].call.resolution = m
        /\ new[3].do = "write_booking_record"
    BY <2>2 DEF Write, Step, AutoResolve
  <2>6. DOMAIN new = 1 .. 3
    BY <2>2
  <2>7. AgreesTo(new, A)
    BY <2>4, <2>5, <2>6 DEF AgreesTo
  <2> QED BY <1>5, <2>1, <2>2, <2>3, <2>7
<1>9. CASE DraftClarification(p)
  <2>1. Doing(p, "draft_clarification") /\ Then(p, << Step("send_and_record") >>)
    BY <1>9 DEF DraftClarification, Node
  <2>2. AgreesTo(<< Step("send_and_record") >>, A)
    BY NoAgreement DEF Step
  <2> QED BY <1>5, <2>1, <2>2, SoloStepsMade
<1>10. CASE SendAndRecord(p)
  <2>1. CASE Raise(p)
    <3>1. prog'[p] = << >> /\ \A q \in Procs \ {p} : prog'[q] = prog[q]
      BY <2>1 DEF Raise, WorkflowInv, Types
    <3> QED BY <1>4, <3>1
  <2>2. ASSUME NEW receipt \in Receipts, Then(p, Operation(Record(receipt)))
        PROVE  \A q \in Procs : AgreesTo(prog'[q], A)
    <3>1. AgreesTo(<< Write(Record(receipt)) >>, A)
      BY NoAgreement DEF Write
    <3>2. Doing(p, "send_and_record")
      BY <1>10 DEF SendAndRecord
    <3> QED BY <1>5, <2>2, <3>1, <3>2, RecordingSteps
  <2> QED BY <1>10, <2>1, <2>2 DEF SendAndRecord
<1>11. ASSUME NEW kind \in {"write", "attempt"}, CommitCase(p, kind)
       PROVE  \A q \in Procs : AgreesTo(prog'[q], A)
  <2>1. Doing(p, kind) /\ Then(p, << >>)
    BY <1>11 DEF CommitCase
  <2> QED BY <1>4, <1>5, <2>1
<1> QED BY <1>1, <1>2, <1>3, <1>6, <1>7, <1>8, <1>9, <1>10, <1>11, StepsThatTalk

\* A case gets a reply for its resolution from an attempt to close it, on behalf of the
\* agent and found to be eligible.
LEMMA ResolvedByAttempt ==
  ASSUME WorkflowInv, NEW p \in Procs, NEW kind \in {"write", "attempt"}, CommitCase(p, kind),
         row'.resolution \in Replies, row'.resolution # row.resolution
  PROVE  /\ 1 \in DOMAIN prog[p] /\ prog[p][1].do = "attempt"
         /\ prog[p][1].call.eligible /\ row'.resolution = prog[p][1].call.resolution
<1> DEFINE s == Head(prog[p])
           k == s.call
<1>1. /\ s.do = kind /\ row \in Case /\ Orderly(row) /\ k \in Calls /\ Allowed(row, k)
      /\ k \in HandlerCalls \cup Attempts /\ (k \in Attempts => row.status = "AGREED")
      /\ (kind = "write" => k \in HandlerCalls) /\ row' = Result(row, k)
  BY Committed
<1>2. s = prog[p][1] /\ prog[p] # << >> /\ s \in HandlerSteps
  BY CurrentStep DEF CommitCase
<1>3. row'.resolution \notin {"none", "settled", "legal"}
  BY MessagesAssumption
<1>4. k \notin HandlerCalls
  <2> SUFFICES ASSUME k \in HandlerCalls PROVE FALSE
    OBVIOUS
  <2>1. k.op \in {"transition", "closeGate"}
    BY <1>1, ResultFields
  <2>2. row'.resolution = WrittenResolution(row, k.resolution)
    BY <1>1, <2>1, ResultFields
  <2>3. k.resolution \in {"none", "settled", "legal"}
    <3>1. CASE k.op = "transition"
      <4>1. k \in TransitionCalls /\ k.target # "RESOLVED"
        BY <1>1, <3>1, CallKinds DEF HandlerCalls
      <4> QED BY <4>1 DEF TransitionCalls, TransitionCall
    <3>2. CASE k.op = "closeGate"
      <4>1. k \in CloseGateCalls
        BY <1>1, <3>2, CallKinds
      <4> QED BY <4>1 DEF CloseGateCalls
    <3> QED BY <2>1, <3>1, <3>2
  <2> QED BY <1>3, <2>2, <2>3 DEF WrittenResolution
<1>5. kind = "attempt" /\ k \in Attempts
  BY <1>1, <1>4
<1>6. k.op = "transition" /\ k.target = "RESOLVED" /\ k.human = FALSE /\ k.resolution \in Replies
      /\ k.eligible \in BOOLEAN
  BY <1>5, AttemptCalls DEF Attempts, AutoResolve
<1>7. k.eligible
  <2>1. MayTransition(row, "RESOLVED", Context(FALSE, k.eligible))
    BY <1>1, <1>6 DEF Allowed, TransitionAllowed
  <2> QED BY <1>1, <1>5, <2>1 DEF MayTransition, GuardrailRefuses, Guardrails, Context
<1>8. row'.resolution = k.resolution
  <2>1. row'.resolution = WrittenResolution(row, k.resolution)
    BY <1>1, <1>6, ResultFields
  <2>2. k.resolution # "none"
    BY <1>6, MessagesAssumption
  <2> QED BY <2>1, <2>2 DEF WrittenResolution
<1>9. 1 \in DOMAIN prog[p]
  BY <1>2, RestOfHandler
<1> QED BY <1>1, <1>2, <1>5, <1>7, <1>8, <1>9

LEMMA JudgeIsJudge == IsJudge(Judge)
<1>1. ASSUME NEW m \in Replies
      PROVE  Judge.intents[m] = {Classify(inbox[m]).intent}
             /\ Classify(inbox[m]).intent \in DOMAIN IntentRoutes
  <2>1. RawIntent(inbox[m]) \in {"AGREE", "DISPUTE", "PARTIAL"}
    BY DEF RawIntent
  <2> QED BY <2>1 DEF Judge, Classify, IntentRoutes
<1>2. \A down : Eligible(deal, NewestAnswer(row.thread), down) \in BOOLEAN
  BY DEF Eligible
<1>3. Judge.eligible \subseteq BOOLEAN /\ Judge.priced \subseteq Replies
  BY <1>2 DEF Judge
<1> QED BY <1>1, <1>3 DEF IsJudge

\* What a process does in Agreement.
LEMMA AgreementSteps ==
  ASSUME AgreementNext
  PROVE  /\ inbox' = inbox /\ deal' = deal
         /\ \E p \in Procs :
              \/ HumanAction(p) \/ AgentCall(p) \/ BreakOff(p)
              \/ EngineStep(p) \/ GateStep(p) \/ AgentStep(p, Judge)
BY DEF AgreementNext, JudgedStep

\* Agent 1's last node, which the story may begin with, says nothing.
LEMMA SilentSubmission == Silent(SubmitForApproval)
<1>1. Open("PRE_SEND_REVIEW", "PENDING_ANALYST_APPROVAL").op = "openGate"
  BY DEF Open
<1>2. Silent(Operation(Open("PRE_SEND_REVIEW", "PENDING_ANALYST_APPROVAL")))
  BY <1>1, HandlerCallsMade, SilentOperation
<1> QED BY <1>2, SilentOperations, SilentJoin DEF SubmitForApproval

LEMMA SilentStart ==
  ASSUME Init
  PROVE  \A p \in Procs : Silent(prog[p])
BY SilentSubmission, SilentEmpty DEF Init

LEMMA AgreementStart ==
  ASSUME AgreementInit
  PROVE  AgreedInv
<1>1. WorkflowInv
  BY InitialState DEF AgreementInit
<1>2. row.resolution \notin Replies
  BY AgreementAssumption DEF AgreementInit, Init
<1>3. \A p \in Procs : AgreesTo(prog[p], Agreeing)
  BY SilentStart DEF AgreementInit, Silent, Talks, AgreesTo
<1> QED BY <1>1, <1>2, <1>3 DEF AgreedInv, AgreementInit

\* The resolution of a case that a process changed.
LEMMA ResolutionIsAgreed ==
  ASSUME AgreedInv, NEW p \in Procs,
         \/ HumanAction(p) \/ AgentCall(p) \/ BreakOff(p)
         \/ EngineStep(p) \/ GateStep(p) \/ AgentStep(p, Judge),
         row'.resolution \in Replies
  PROVE  row'.resolution \in Agreeing
<1>1. CASE row'.resolution = row.resolution
  BY <1>1 DEF AgreedInv
<1>2. CASE row'.resolution # row.resolution
  <2>1. PICK kind \in {"write", "attempt"} : CommitCase(p, kind)
    BY <1>2, OnlyCommitsChange
  <2>2. /\ 1 \in DOMAIN prog[p] /\ prog[p][1].do = "attempt"
        /\ row'.resolution = prog[p][1].call.resolution
    BY <1>2, <2>1, ResolvedByAttempt DEF AgreedInv
  <2> QED BY <2>2 DEF AgreedInv, AgreesTo
<1> QED BY <1>1, <1>2

(* With the classifier and the check that the code has: everything that the  *)
(* workflow keeps true, and whichever processes run, an attempt to close a   *)
(* case, and a resolution it leaves, rest on a reply that was classified as  *)
(* an agreement.                                                             *)
THEOREM AgreementInvariant == AgreementSpec => []AgreedInv
<1>1. AgreementInit => AgreedInv
  BY AgreementStart
<1>2. AgreedInv /\ [AgreementNext]_agreementVars => AgreedInv'
  <2>1. ASSUME AgreedInv, AgreementNext
        PROVE  AgreedInv'
    <3>1. PICK p \in Procs :
            \/ HumanAction(p) \/ AgentCall(p) \/ BreakOff(p)
            \/ EngineStep(p) \/ GateStep(p) \/ AgentStep(p, Judge)
      BY <2>1, AgreementSteps
    <3>2. inbox' = inbox /\ deal' = deal /\ Agreeing' = Agreeing
      BY <2>1, AgreementSteps DEF Agreeing
    <3>3. WorkflowInv'
      BY <2>1, <3>1, JudgeIsJudge, ProcessStep DEF AgreedInv
    <3>4. \A m \in Replies : "AGREE" \in Judge.intents[m] => m \in Agreeing
      BY DEF Judge, Agreeing
    <3>5. \A q \in Procs : AgreesTo(prog'[q], Agreeing)
      BY <2>1, <3>1, <3>4, JudgeIsJudge, AgreesAfterStep DEF AgreedInv
    <3>6. row'.resolution \in Replies => row'.resolution \in Agreeing
      BY <2>1, <3>1, ResolutionIsAgreed
    <3> QED BY <2>1, <3>2, <3>3, <3>5, <3>6 DEF AgreedInv
  <2>2. ASSUME AgreedInv, UNCHANGED agreementVars
        PROVE  AgreedInv'
    <3>1. UNCHANGED vars /\ row' = row /\ prog' = prog /\ inbox' = inbox /\ deal' = deal
      BY <2>2 DEF agreementVars, vars
    <3>2. WorkflowInv'
      BY <2>2, <3>1, StutteringStep DEF AgreedInv
    <3> QED BY <2>2, <3>1, <3>2 DEF AgreedInv, Agreeing
  <2> QED BY <2>1, <2>2
<1> QED BY <1>1, <1>2, PTL DEF AgreementSpec

(* A mail that looks like an injection resolves no case without a human,     *)
(* whatever else is on the thread and whichever handlers run at the same     *)
(* time: where the classifier asks for more than half of the confidence that *)
(* a parser can report.                                                      *)
THEOREM SuspectMailIsPowerless ==
  ASSUME MinIntentConfidence > 500,
         \A mails \in Inboxes : \A m \in Replies :
           mails[m].positionConfidence = NoValue \/ mails[m].positionConfidence <= 1000
  PROVE  AgreementSpec => []SuspectMailClosesNothing
<1>1. AgreedInv => SuspectMailClosesNothing
  <2> SUFFICES ASSUME AgreedInv, row.resolution \in Replies, inbox[row.resolution].injection
               PROVE  FALSE
    BY DEF SuspectMailClosesNothing
  <2> DEFINE mail == inbox[row.resolution]
  <2>1. mail \in Mail
    BY AgreementAssumption DEF AgreedInv
  <2>2. mail.positionConfidence = NoValue \/ mail.positionConfidence <= 1000
    BY DEF AgreedInv
  <2>3. Classify(mail).intent = "AGREE"
    BY DEF AgreedInv, Agreeing
  <2> HIDE DEF mail
  <2>4. mail.injection
    BY DEF mail
  <2> QED BY <2>1, <2>2, <2>3, <2>4, SuspectMailNeverAgrees
<1> QED BY <1>1, AgreementInvariant, PTL

----------------------------------------------------------------------------
(* One handler after the other *)

\* A quiet step leaves nothing of what a handler had to do with a message, unless it
\* is about an agreement.
LEMMA QuietDropsSolo ==
  ASSUME SerialInv, NEW p \in Procs, Quiet(p)
  PROVE  \A i \in DOMAIN prog'[p] : prog'[p][i].do \notin SoloSteps /\ ~Records(prog'[p][i])
<1> SUFFICES ASSUME NEW i \in DOMAIN prog'[p],
                    prog'[p][i].do \in SoloSteps \/ Records(prog'[p][i])
             PROVE  FALSE
  OBVIOUS
<1>1. PICK j \in DOMAIN prog[p] \ {1} : prog'[p][i] = prog[p][j]
  BY DEF Quiet, Talks
<1>2. prog[p] \in Seq(HandlerSteps)
  BY DEF SerialInv, WorkflowInv, Types
<1>3. prog[p][j].do \in SoloSteps => Len(prog[p]) = 1
  BY <1>1 DEF SerialInv, RecordsOnce
<1>4. Records(prog[p][j]) => j = 1
  BY <1>1 DEF SerialInv, RecordsOnce
<1> QED BY <1>1, <1>2, <1>3, <1>4

\* The steps after the first deal with no message, unless about an agreement.
LEMMA RestIsNotSolo ==
  ASSUME SerialInv, NEW p \in Procs, NEW j \in DOMAIN prog[p] \ {1}
  PROVE  prog[p][j].do \notin SoloSteps /\ ~Records(prog[p][j])
<1>1. prog[p] \in Seq(HandlerSteps)
  BY DEF SerialInv, WorkflowInv, Types
<1>2. prog[p][j].do \in SoloSteps => Len(prog[p]) = 1
  BY DEF SerialInv, RecordsOnce
<1>3. Records(prog[p][j]) => j = 1
  BY DEF SerialInv, RecordsOnce
<1> QED BY <1>1, <1>2, <1>3

\* A handler that does one of the solo steps has nothing else to do.
LEMMA SoloIsAlone ==
  ASSUME SerialInv, NEW p \in Procs, NEW kind \in SoloSteps, Doing(p, kind)
  PROVE  Len(prog[p]) = 1 /\ DOMAIN prog[p] = {1} /\ Head(prog[p]) = prog[p][1]
         /\ prog[p][1].do = kind
<1>1. prog[p] # << >> /\ Head(prog[p]).do = kind /\ WorkflowInv
  BY DEF Doing, Idle, SerialInv
<1>2. 1 \in DOMAIN prog[p] /\ prog[p][1].do = kind /\ Head(prog[p]) = prog[p][1]
      /\ DOMAIN prog[p] = 1 .. Len(prog[p])
  BY <1>1, RestOfHandler
<1>3. Len(prog[p]) = 1
  BY <1>2 DEF SerialInv, RecordsOnce
<1> QED BY <1>2, <1>3

\* Its step is followed by the steps it puts in its place, and no others.
LEMMA SoloPush ==
  ASSUME SerialInv, NEW p \in Procs, NEW kind \in SoloSteps, Doing(p, kind),
         NEW new \in Seq(HandlerSteps), Then(p, new)
  PROVE  /\ Len(prog'[p]) = Len(new) /\ prog'[p] \in Seq(HandlerSteps)
         /\ \A i \in DOMAIN prog'[p] : i \in DOMAIN new /\ prog'[p][i] = new[i]
<1>1. WorkflowInv /\ Len(prog[p]) = 1 /\ DOMAIN prog[p] = {1}
  BY SoloIsAlone DEF SerialInv
<1> QED BY <1>1, PushedSteps

LEMMA SoloNext ==
  ASSUME SerialInv, NEW p \in Procs, NEW kind \in SoloSteps, Doing(p, kind),
         NEW s, << s >> \in Seq(HandlerSteps), Then(p, << s >>)
  PROVE  Len(prog'[p]) = 1 /\ \A i \in DOMAIN prog'[p] : i = 1 /\ prog'[p][i] = s
<1> DEFINE new == << s >>
<1>1. Len(new) = 1 /\ new[1] = s /\ DOMAIN new = {1}
  OBVIOUS
<1>2. new \in Seq(HandlerSteps) /\ Then(p, new)
  OBVIOUS
<1> HIDE DEF new
<1> QED BY <1>1, <1>2, SoloPush

LEMMA SoloEnds ==
  ASSUME SerialInv, NEW p \in Procs, NEW kind \in SoloSteps, Doing(p, kind), Then(p, << >>)
  PROVE  DOMAIN prog'[p] = {}
<1>1. << >> \in Seq(HandlerSteps) /\ DOMAIN << >> = {}
  OBVIOUS
<1>2. \A i \in DOMAIN prog'[p] : i \in DOMAIN << >>
  BY <1>1, SoloPush
<1> QED BY <1>1, <1>2

\* Requests that were sent stay sent.
LEMMA UsedStaysUsed ==
  ASSUME NEW x, ~Unused(x), SentGrows
  PROVE  ~Unused(x)'
BY DEF Unused, SentGrows

LEMMA ThreadStaysClean ==
  ASSUME SerialInv, row' = row, SentGrows
  PROVE  ThreadIsClean'
BY UsedStaysUsed DEF SerialInv, ThreadIsClean

\* A process that makes a step without a commit.
LEMMA SerialLocal ==
  ASSUME SerialInv, \A q, r \in Procs : q = r, NEW p \in Procs, WorkflowInv', row' = row, SentGrows,
         RecordsOnce(p)'
  PROVE  SerialInv'
BY ThreadStaysClean DEF SerialInv

\* What the commit of an operation does to the thread.
LEMMA ThreadResult ==
  ASSUME NEW c \in Case, NEW k \in Calls
  PROVE  LET d == Result(c, k)
         IN  /\ k.op = "record" => /\ d.thread = Append(c.thread, k.message)
                                   /\ d.processed = c.processed \cup {k.message}
             /\ k.op # "record" => d.thread = c.thread /\ d.processed = c.processed
BY CallKinds DEF Result, WithTransition, WithUpdate, WithOpenGate, WithClosedGate, WithKill,
                 WithTask, WithMessage, Case

LEMMA SerialCommit ==
  ASSUME SerialInv, \A q, r \in Procs : q = r, NEW p \in Procs, WorkflowInv',
         NEW kind \in {"write", "attempt"}, CommitCase(p, kind)
  PROVE  SerialInv'
<1> DEFINE s == Head(prog[p])
           k == s.call
<1>1. /\ s.do = kind /\ row \in Case /\ k \in Calls /\ row' = Result(row, k)
      /\ sent' = sent /\ Doing(p, kind) /\ Then(p, << >>)
  BY Committed DEF SerialInv, CommitCase, Outside
<1>2. << >> \in Seq(HandlerSteps)
  OBVIOUS
<1>3. /\ s = prog[p][1] /\ 1 \in DOMAIN prog[p]
      /\ \A i \in DOMAIN prog'[p] : i + 1 \in DOMAIN prog[p] /\ prog'[p][i] = prog[p][i + 1]
      /\ prog'[p] \in Seq(HandlerSteps)
  BY <1>1, <1>2, PushedSteps DEF SerialInv
<1>4. \A i \in DOMAIN prog'[p] : prog'[p][i].do \notin SoloSteps /\ ~Records(prog'[p][i])
  <2> SUFFICES ASSUME NEW i \in DOMAIN prog'[p]
               PROVE  prog'[p][i].do \notin SoloSteps /\ ~Records(prog'[p][i])
    OBVIOUS
  <2>1. i + 1 \in DOMAIN prog[p] \ {1}
    BY <1>3
  <2> QED BY <1>3, <2>1, RestIsNotSolo
<1>5. RecordsOnce(p)'
  BY <1>4 DEF RecordsOnce, SoloSteps
<1>6. Unused(row.thread[1]) \in BOOLEAN /\ \A x : Unused(x)' <=> Unused(x)
  BY <1>1 DEF Unused
<1>7. row.thread \in Seq(Messages)
  BY <1>1 DEF Case
<1>8. CASE k.op # "record"
  <2>1. row'.thread = row.thread /\ row'.processed = row.processed
    BY <1>1, <1>8, ThreadResult
  <2>2. ThreadIsClean'
    BY <1>6, <2>1 DEF SerialInv, ThreadIsClean
  <2> QED BY <1>5, <2>2 DEF SerialInv
<1>9. CASE k.op = "record"
  <2>1. row'.thread = Append(row.thread, k.message)
        /\ row'.processed = row.processed \cup {k.message}
    BY <1>1, <1>9, ThreadResult
  <2>2. Records(s)
    <3>1. s \in HandlerSteps
      BY <1>1, CurrentStep DEF SerialInv
    <3>2. kind = "attempt" => k \in Attempts
      BY <1>1, <3>1 DEF HandlerSteps, MessageSteps, PlainSteps
    <3>3. kind = "write"
      BY <1>9, <3>2, AttemptCalls
    <3> QED BY <1>1, <1>9, <3>3 DEF Records
  <2>3. ~OnThread(k.message) /\ (k.message \in Receipts => ~Unused(k.message))
    BY <1>3, <2>2 DEF SerialInv, RecordsOnce
  <2> DEFINE n == Len(row.thread)
  <2>4. /\ DOMAIN row.thread = 1 .. n /\ DOMAIN row'.thread = 1 .. n + 1 /\ n \in Nat
        /\ \A i \in 1 .. n : row'.thread[i] = row.thread[i]
        /\ row'.thread[n + 1] = k.message
    BY <1>7, <2>1
  <2> HIDE DEF n
  <2>5. ASSUME NEW i \in 1 .. n + 1
        PROVE  /\ row'.thread[i] \in row'.processed
               /\ (row.thread[i] \in Receipts => ~Unused(row.thread[i]))'
    <3>1. CASE i \in 1 .. n
      BY <1>6, <2>1, <2>4, <3>1 DEF SerialInv, ThreadIsClean
    <3>2. CASE i = n + 1
      BY <1>6, <2>1, <2>3, <2>4, <3>2
    <3> QED BY <2>4, <3>1, <3>2
  <2>6. ASSUME NEW i \in 1 .. n + 1, NEW j \in 1 .. n + 1, row'.thread[i] = row'.thread[j]
        PROVE  i = j
    <3>1. \A l \in 1 .. n : row'.thread[l] # k.message
      BY <2>3, <2>4 DEF OnThread
    <3>2. CASE i \in 1 .. n /\ j \in 1 .. n
      BY <2>4, <2>6, <3>2 DEF SerialInv, ThreadIsClean
    <3> QED BY <2>4, <2>6, <3>1, <3>2
  <2>7. ThreadIsClean'
    BY <2>4, <2>5, <2>6 DEF ThreadIsClean
  <2> QED BY <1>5, <2>7 DEF SerialInv
<1> QED BY <1>8, <1>9

\* While no other handler runs, no step of a handler records twice.
LEMMA SerialStep ==
  ASSUME SerialInv, \A q, r \in Procs : q = r, NEW p \in Procs, NEW judge, IsJudge(judge),
         \/ HumanAction(p) \/ AgentCall(p) \/ BreakOff(p)
         \/ EngineStep(p) \/ GateStep(p) \/ AgentStep(p, judge)
  PROVE  SerialInv'
<1>1. WorkflowInv /\ WorkflowInv'
  BY ProcessStep DEF SerialInv
<1>2. CASE Quiet(p)
  <2>1. RecordsOnce(p)'
    BY <1>2, QuietDropsSolo DEF RecordsOnce, SoloSteps
  <2> QED BY <1>1, <1>2, <2>1, SerialLocal DEF Quiet
<1>3. ASSUME NEW m \in Replies, HandleResponse(p, m)
      PROVE  SerialInv'
  <2>1. prog'[p] = << MessageStep("dedupe_and_parse", m) >> /\ row' = row /\ sent' = sent
    BY <1>1, <1>3, CalledSteps DEF HandleResponse
  <2>2. MessageStep("dedupe_and_parse", m).do = "dedupe_and_parse"
    BY DEF MessageStep
  <2>3. RecordsOnce(p)'
    BY <2>1, <2>2 DEF RecordsOnce, Records
  <2> QED BY <1>1, <2>1, <2>3, SentIsKept, SerialLocal
<1>4. CASE SendClarificationRequest(p)
  <2>1. prog'[p] = << Step("draft_clarification") >> /\ row' = row /\ sent' = sent
    BY <1>1, <1>4, CalledSteps DEF SendClarificationRequest
  <2>2. Step("draft_clarification").do = "draft_clarification"
    BY DEF Step
  <2>3. RecordsOnce(p)'
    BY <2>1, <2>2 DEF RecordsOnce, Records
  <2> QED BY <1>1, <2>1, <2>3, SentIsKept, SerialLocal
<1>5. CASE DedupeAndParse(p)
  <2>1. PICK m \in Replies :
          Node(p, "dedupe_and_parse",
               IF m \in row.processed \/ row.status \notin AwaitingStatuses
               THEN << >>
               ELSE << MessageStep("classify_and_record", m) >>)
    BY <1>5 DEF DedupeAndParse
  <2> DEFINE s == MessageStep("classify_and_record", m)
  <2>2. s.do = "classify_and_record" /\ s.message = m /\ << s >> \in Seq(HandlerSteps)
    BY SoloStepsMade DEF MessageStep
  <2>3. "dedupe_and_parse" \in SoloSteps
    BY DEF SoloSteps
  <2> HIDE DEF s
  <2>4. Doing(p, "dedupe_and_parse") /\ row' = row /\ sent' = sent
    BY <2>1 DEF Node
  <2>5. CASE m \in row.processed \/ row.status \notin AwaitingStatuses
    <3>1. Then(p, << >>)
      BY <2>1, <2>5 DEF Node
    <3>2. RecordsOnce(p)'
      BY <2>3, <2>4, <3>1, SoloEnds DEF RecordsOnce
    <3> QED BY <1>1, <2>4, <3>2, SentIsKept, SerialLocal
  <2>6. CASE ~(m \in row.processed \/ row.status \notin AwaitingStatuses)
    <3>1. Then(p, << s >>)
      BY <2>1, <2>6 DEF Node, s
    <3>2. Len(prog'[p]) = 1 /\ \A i \in DOMAIN prog'[p] : i = 1 /\ prog'[p][i] = s
      BY <2>2, <2>3, <2>4, <3>1, SoloNext
    <3>3. RecordsOnce(p)'
      BY <2>2, <2>4, <2>6, <3>2 DEF RecordsOnce, Records
    <3> QED BY <1>1, <2>4, <3>3, SentIsKept, SerialLocal
  <2> QED BY <2>5, <2>6
<1>6. CASE ClassifyAndRecord(p, judge)
  <2> DEFINE steps(m, intent) ==
               Operation(Record(m)) \o Operation(Move("RESPONSE_RECEIVED", FALSE))
                 \o << MessageStep(IntentRoutes[intent], m) >>
  <2>1. PICK m \in Replies : \E intent \in judge.intents[m] :
          /\ Doing(p, "classify_and_record") /\ Head(prog[p]).message = m
          /\ Then(p, steps(m, intent)) /\ row' = row /\ sent' = sent
    BY <1>6 DEF ClassifyAndRecord, Node
  <2>2. PICK intent \in judge.intents[m] :
          /\ Doing(p, "classify_and_record") /\ Head(prog[p]).message = m
          /\ Then(p, steps(m, intent)) /\ row' = row /\ sent' = sent
    BY <2>1
  <2>3. intent \in DOMAIN IntentRoutes
    BY <2>2 DEF IsJudge
  <2> DEFINE new == steps(m, intent)
  <2>4. /\ new \in Seq(HandlerSteps) /\ Len(new) = 3
        /\ new[1] = Write(Record(m))
        /\ new[2] = Write(Move("RESPONSE_RECEIVED", FALSE))
        /\ new[3] = MessageStep(IntentRoutes[intent], m)
    BY <2>3, ClassifiedSteps
  <2>5. Then(p, new)
    BY <2>2
  <2> HIDE DEF new
  <2>6. "classify_and_record" \in SoloSteps
    BY DEF SoloSteps
  <2>7. m \notin row.processed
    <3>1. DOMAIN prog[p] = {1} /\ Head(prog[p]) = prog[p][1]
          /\ prog[p][1].do = "classify_and_record"
      BY <2>2, <2>6, SoloIsAlone
    <3> QED BY <2>2, <3>1 DEF SerialInv, RecordsOnce
  <2>8. ~OnThread(m) /\ m \notin Receipts
    BY <2>7, MessagesAssumption DEF SerialInv, ThreadIsClean, OnThread
  <2>9. /\ new[1].do = "write" /\ new[1].call.message = m
        /\ new[2].do = "write" /\ new[2].call.op # "record"
        /\ new[3].do = IntentRoutes[intent]
    BY <2>4 DEF Write, Record, Move, MessageStep
  <2>10. IntentRoutes[intent] \notin SoloSteps \cup {"write"}
    BY <2>3 DEF IntentRoutes, SoloSteps
  <2>11. \A i \in DOMAIN prog'[p] : i \in {1, 2, 3} /\ prog'[p][i] = new[i]
    BY <2>2, <2>4, <2>5, <2>6, SoloPush
  <2>12. RecordsOnce(p)'
    BY <2>2, <2>8, <2>9, <2>10, <2>11 DEF RecordsOnce, Records, SoloSteps, OnThread
  <2> QED BY <1>1, <2>2, <2>12, SentIsKept, SerialLocal
<1>7. CASE ReconcileAgreement(p, judge)
  <2> DEFINE steps(m, eligible) ==
               Operation(Move("AGREED", FALSE))
                 \o << [do |-> "attempt", call |-> AutoResolve(eligible, m)],
                       Step("write_booking_record") >>
  <2>1. PICK m \in Replies, eligible \in judge.eligible :
          /\ Doing(p, "reconcile_agreement") /\ row' = row /\ sent' = sent
          /\ Then(p, steps(m, eligible))
    BY <1>7 DEF ReconcileAgreement, Node
  <2> DEFINE new == steps(m, eligible)
  <2>2. /\ new \in Seq(HandlerSteps) /\ Len(new) = 3
        /\ new[1] = Write(Move("AGREED", FALSE))
        /\ new[2] = [do |-> "attempt", call |-> AutoResolve(eligible, m)]
        /\ new[3] = Step("write_booking_record")
    BY <2>1, ReconcilingSteps DEF IsJudge
  <2>3. Then(p, new)
    BY <2>1
  <2> HIDE DEF new
  <2>4. \A i \in DOMAIN new : new[i].do \notin SoloSteps /\ ~Records(new[i])
    <3>1. /\ new[1].do = "write" /\ new[1].call.op # "record"
          /\ new[2].do = "attempt" /\ new[3].do = "write_booking_record"
      BY <2>2 DEF Write, Move, Step
    <3>2. DOMAIN new = 1 .. 3
      BY <2>2
    <3> QED BY <3>1, <3>2 DEF SoloSteps, Records
  <2>5. Doing(p, "reconcile_agreement")
    BY <2>1
  <2>6. \A i \in DOMAIN prog'[p] :
          \/ i \in DOMAIN new /\ prog'[p][i] = new[i]
          \/ \E j \in DOMAIN prog[p] \ {1} : prog'[p][i] = prog[p][j]
    BY <1>1, <2>2, <2>3, <2>5, PushedSteps
  <2>7. \A i \in DOMAIN prog'[p] : prog'[p][i].do \notin SoloSteps /\ ~Records(prog'[p][i])
    BY <2>4, <2>6, RestIsNotSolo
  <2>8. RecordsOnce(p)'
    BY <2>7 DEF RecordsOnce, SoloSteps
  <2> QED BY <1>1, <2>1, <2>8, SentIsKept, SerialLocal
<1>8. CASE DraftClarification(p)
  <2> DEFINE s == Step("send_and_record")
  <2>1. Doing(p, "draft_clarification") /\ Then(p, << s >>) /\ row' = row /\ sent' = sent
    BY <1>8 DEF DraftClarification, Node
  <2>2. s.do = "send_and_record" /\ << s >> \in Seq(HandlerSteps)
        /\ "draft_clarification" \in SoloSteps
    BY SoloStepsMade DEF Step, SoloSteps
  <2> HIDE DEF s
  <2>3. Len(prog'[p]) = 1 /\ \A i \in DOMAIN prog'[p] : i = 1 /\ prog'[p][i] = s
    BY <2>1, <2>2, SoloNext
  <2>4. RecordsOnce(p)'
    BY <2>2, <2>3 DEF RecordsOnce, Records
  <2> QED BY <1>1, <2>1, <2>4, SentIsKept, SerialLocal
<1>9. CASE SendAndRecord(p)
  <2>1. Doing(p, "send_and_record") /\ row' = row /\ "send_and_record" \in SoloSteps
    BY <1>9 DEF SendAndRecord, SoloSteps
  <2>2. CASE Raise(p) /\ UNCHANGED sent
    <3>1. prog'[p] = << >>
      BY <1>1, <2>2 DEF Raise, WorkflowInv, Types
    <3>2. RecordsOnce(p)'
      BY <3>1 DEF RecordsOnce
    <3> QED BY <1>1, <2>1, <2>2, <3>2, SentIsKept, SerialLocal
  <2>3. ASSUME NEW receipt \in Receipts, Unused(receipt), sent' = Append(sent, receipt),
               Then(p, Operation(Record(receipt)))
        PROVE  SerialInv'
    <3> DEFINE s == Write(Record(receipt))
    <3>1. Then(p, << s >>) /\ << s >> \in Seq(HandlerSteps)
      BY <2>3, RecordingSteps
    <3>2. s.do = "write" /\ s.call.message = receipt
      BY DEF Write, Record
    <3> HIDE DEF s
    <3>3. Len(prog'[p]) = 1 /\ \A i \in DOMAIN prog'[p] : i = 1 /\ prog'[p][i] = s
      BY <2>1, <3>1, SoloNext
    <3>4. SentGrows /\ ~Unused(receipt)'
      <4>1. sent \in Seq(Drafts \cup Receipts)
        BY <1>1 DEF WorkflowInv, Types
      <4>2. /\ DOMAIN sent' = 1 .. Len(sent) + 1 /\ DOMAIN sent = 1 .. Len(sent)
            /\ Len(sent) \in Nat /\ sent'[Len(sent) + 1] = receipt
            /\ \A i \in DOMAIN sent : sent'[i] = sent[i]
        BY <2>3, <4>1
      <4> QED BY <4>2 DEF SentGrows, Unused
    <3>5. ~OnThread(receipt)
      BY <2>3 DEF SerialInv, ThreadIsClean, OnThread
    <3>6. RecordsOnce(p)'
      BY <2>1, <3>2, <3>3, <3>4, <3>5 DEF RecordsOnce, SoloSteps, OnThread
    <3> QED BY <1>1, <2>1, <3>4, <3>6, SerialLocal
  <2> QED BY <1>9, <2>2, <2>3 DEF SendAndRecord
<1>10. ASSUME NEW kind \in {"write", "attempt"}, CommitCase(p, kind)
       PROVE  SerialInv'
  BY <1>1, <1>10, SerialCommit
<1> QED BY <1>1, <1>2, <1>3, <1>4, <1>5, <1>6, <1>7, <1>8, <1>9, <1>10, StepsThatTalk

LEMMA SerialStart ==
  ASSUME Init
  PROVE  SerialInv
<1>1. WorkflowInv
  BY InitialState
<1>2. ThreadIsClean
  BY ThreadsAssumption DEF Init, ThreadIsClean
<1>3. \A p \in Procs : RecordsOnce(p)
  BY SilentStart DEF Silent, Talks, RecordsOnce, SoloSteps
<1> QED BY <1>1, <1>2, <1>3 DEF SerialInv

(* A reply that is delivered again and again is put on the thread once, in   *)
(* whatever wait of the case it comes and wherever its handlers broke off,   *)
(* as long as one handler runs after the other: the check on the ids that    *)
(* were processed, the reading of the reply and its recording are steps of   *)
(* their own.                                                                *)
THEOREM RepliesAreNotRepeated ==
  ASSUME \A p, q \in Procs : p = q
  PROVE  Spec => []RepliesAreRecordedOnce
<1>1. Init => SerialInv
  BY SerialStart
<1>2. SerialInv /\ [Next]_vars => SerialInv'
  <2>1. ASSUME SerialInv, NEW p \in Procs,
               HumanAction(p) \/ AgentCall(p) \/ StepOf(p) \/ BreakOff(p)
        PROVE  SerialInv'
    BY <2>1, AnyJudgeIsJudge, SerialStep DEF StepOf
  <2>2. ASSUME SerialInv, UNCHANGED vars
        PROVE  SerialInv'
    BY <2>2, StutteringStep DEF SerialInv, vars, ThreadIsClean, Unused, RecordsOnce, OnThread
  <2> QED BY <2>1, <2>2 DEF Next
<1>3. SerialInv => RepliesAreRecordedOnce
  BY DEF SerialInv, ThreadIsClean, RepliesAreRecordedOnce
<1> QED BY <1>1, <1>2, <1>3, PTL DEF Spec

----------------------------------------------------------------------------
(* The reply that an agreement is about *)

\* The check reads the newest reply.
LEMMA NewestIsRead ==
  ASSUME row \in Case, NEW m, IsNewest(m)
  PROVE  NewestAnswer(row.thread) = Classify(inbox[m])
<1> DEFINE replies == Inbound(row.thread)
           newest == CHOOSE i \in replies : \A j \in replies : j <= i
<1>1. PICK i \in replies : row.thread[i] = m /\ \A j \in replies : j <= i
  BY DEF IsNewest
<1>2. replies \subseteq Nat
  BY DEF Inbound, Case
<1> HIDE DEF replies
<1>3. newest \in replies /\ \A j \in replies : j <= newest
  BY <1>1
<1> HIDE DEF newest
<1>4. newest = i
  BY <1>1, <1>2, <1>3
<1>5. replies # {}
  BY <1>1
<1> QED BY <1>1, <1>4, <1>5 DEF NewestAnswer, newest, replies

\* A reply that was just recorded is the newest.
LEMMA RecordedIsNewest ==
  ASSUME row \in Case, NEW m \in Replies, row'.thread = Append(row.thread, m)
  PROVE  IsNewest(m)'
<1> DEFINE n == Len(row.thread)
<1>1. row.thread \in Seq(Messages)
  BY DEF Case
<1>2. DOMAIN row'.thread = 1 .. n + 1 /\ n \in Nat /\ row'.thread[n + 1] = m
  BY <1>1
<1> HIDE DEF n
<1>3. n + 1 \in Inbound(row'.thread) /\ \A j \in Inbound(row'.thread) : j <= n + 1
  BY <1>2 DEF Inbound
<1> QED BY <1>2, <1>3 DEF IsNewest

LEMMA AttemptsStay ==
  ASSUME inbox' = inbox, deal' = deal
  PROVE  \A m : MayAttempt(m)' <=> MayAttempt(m)
BY DEF MayAttempt, Eligible, PriceCriterion, NotionalCriterion, FlagCriterion, MatchesCitedSource,
       CitedSource

\* Steps that leave the case alone and bring up no agreement.
LEMMA NewestStays ==
  ASSUME JudgedInv, NEW p \in Procs, row' = row, inbox' = inbox, deal' = deal,
         \A i \in DOMAIN prog'[p] :
           /\ prog'[p][i].do = "reconcile_agreement" =>
                /\ ~Records(prog'[p][1]) /\ ~Records(prog[p][1])
                /\ \E j \in DOMAIN prog[p] : prog'[p][i] = prog[p][j]
           /\ prog'[p][i].do = "attempt" =>
                \E j \in DOMAIN prog[p] : prog'[p][i] = prog[p][j]
  PROVE  AgreesToNewest(p)'
<1>1. \A m : (MayAttempt(m)' <=> MayAttempt(m)) /\ (IsNewest(m)' <=> IsNewest(m))
  BY AttemptsStay DEF IsNewest
<1>2. ASSUME NEW i \in DOMAIN prog'[p], prog'[p][i].do = "reconcile_agreement"
      PROVE  ~Records(prog'[p][1]) /\ IsNewest(prog'[p][i].message)
  <2>1. PICK j \in DOMAIN prog[p] : prog'[p][i] = prog[p][j]
    BY <1>2
  <2> QED BY <1>2, <2>1 DEF JudgedInv, AgreesToNewest
<1>3. ASSUME NEW i \in DOMAIN prog'[p], prog'[p][i].do = "attempt", prog'[p][i].call.eligible
      PROVE  MayAttempt(prog'[p][i].call.resolution)
  <2>1. PICK j \in DOMAIN prog[p] : prog'[p][i] = prog[p][j]
    BY <1>3
  <2> QED BY <1>3, <2>1 DEF JudgedInv, AgreesToNewest
<1> QED BY <1>1, <1>2, <1>3 DEF AgreesToNewest

\* Of an agreement that is being handled, with the answer about the reply it is to.
LEMMA ReconciledIsNewest ==
  ASSUME JudgedInv, NEW p \in Procs, ReconcileAgreement(p, Judge), inbox' = inbox, deal' = deal
  PROVE  AgreesToNewest(p)'
<1> DEFINE steps(m, eligible) ==
             Operation(Move("AGREED", FALSE))
               \o << [do |-> "attempt", call |-> AutoResolve(eligible, m)],
                     Step("write_booking_record") >>
<1>1. PICK m \in Replies, eligible \in Judge.eligible :
        /\ Doing(p, "reconcile_agreement") /\ Head(prog[p]).message = m /\ row' = row
        /\ Then(p, steps(m, eligible))
  BY DEF ReconcileAgreement, Node
<1> DEFINE new == steps(m, eligible)
<1>2. eligible \in BOOLEAN
  BY JudgeIsJudge DEF IsJudge
<1>3. /\ new \in Seq(HandlerSteps) /\ Len(new) = 3 /\ new # << >>
      /\ new[1] = Write(Move("AGREED", FALSE))
      /\ new[2] = [do |-> "attempt", call |-> AutoResolve(eligible, m)]
      /\ new[3] = Step("write_booking_record")
  BY <1>2, ReconcilingSteps
<1>4. Then(p, new) /\ Doing(p, "reconcile_agreement")
  BY <1>1
<1> HIDE DEF new
<1>5. WorkflowInv /\ SerialInv
  BY DEF JudgedInv, SerialInv
<1>6. /\ prog[p][1].do = "reconcile_agreement" /\ prog[p][1] = Head(prog[p])
      /\ 1 \in DOMAIN prog[p] /\ prog'[p][1] = new[1]
      /\ \A i \in DOMAIN prog'[p] :
           \/ i \in DOMAIN new /\ prog'[p][i] = new[i]
           \/ \E j \in DOMAIN prog[p] \ {1} : prog'[p][i] = prog[p][j]
  <2>0. new \in Seq(HandlerSteps) /\ new # << >>
    BY <1>3
  <2>1. /\ prog[p][1].do = "reconcile_agreement" /\ prog[p][1] = Head(prog[p])
        /\ 1 \in DOMAIN prog[p]
    BY <1>4, <1>5, <2>0, PushedSteps
  <2>2. prog'[p][1] = new[1]
    BY <1>4, <1>5, <2>0, PushedSteps
  <2>3. \A i \in DOMAIN prog'[p] :
          \/ i \in DOMAIN new /\ prog'[p][i] = new[i]
          \/ \E j \in DOMAIN prog[p] \ {1} : prog'[p][i] = prog[p][j]
    BY <1>4, <1>5, <2>0, PushedEntries
  <2> QED BY <2>1, <2>2, <2>3
<1>7. /\ new[1].do = "write" /\ new[1].call.op = "transition"
      /\ new[2].do = "attempt" /\ new[2].call.resolution = m /\ new[2].call.eligible = eligible
      /\ new[3].do = "write_booking_record"
      /\ DOMAIN new = {1, 2, 3}
  BY <1>3 DEF Write, Move, Step, AutoResolve
<1>8. ~Records(prog'[p][1]) /\ ~Records(prog[p][1])
  BY <1>6, <1>7 DEF Records
<1>9. eligible => MayAttempt(m)
  <2>1. IsNewest(m)
    BY <1>1, <1>6, <1>8 DEF JudgedInv, AgreesToNewest
  <2>2. row \in Case
    BY <1>5 DEF WorkflowInv, Types
  <2>3. PICK down \in SUBSET Tools : eligible = Eligible(deal, NewestAnswer(row.thread), down)
    BY DEF Judge
  <2> QED BY <2>1, <2>2, <2>3, NewestIsRead DEF MayAttempt
<1>10. \A x : (MayAttempt(x)' <=> MayAttempt(x)) /\ (IsNewest(x)' <=> IsNewest(x))
  BY <1>1, AttemptsStay DEF IsNewest
<1>11. ASSUME NEW i \in DOMAIN prog'[p], prog'[p][i].do = "reconcile_agreement"
       PROVE  IsNewest(prog'[p][i].message)
  <2>1. PICK j \in DOMAIN prog[p] : prog'[p][i] = prog[p][j]
    BY <1>6, <1>7, <1>11
  <2> QED BY <1>8, <1>11, <2>1 DEF JudgedInv, AgreesToNewest
<1>12. ASSUME NEW i \in DOMAIN prog'[p], prog'[p][i].do = "attempt", prog'[p][i].call.eligible
       PROVE  MayAttempt(prog'[p][i].call.resolution)
  <2>1. CASE i \in DOMAIN new /\ prog'[p][i] = new[i]
    BY <1>7, <1>9, <1>12, <2>1
  <2>2. CASE \E j \in DOMAIN prog[p] \ {1} : prog'[p][i] = prog[p][j]
    BY <1>12, <2>2 DEF JudgedInv, AgreesToNewest
  <2> QED BY <1>6, <2>1, <2>2
<1> QED BY <1>8, <1>10, <1>11, <1>12 DEF AgreesToNewest

\* The commit of an operation.
LEMMA JudgedCommit ==
  ASSUME JudgedInv, NEW p \in Procs, NEW kind \in {"write", "attempt"}, CommitCase(p, kind),
         inbox' = inbox, deal' = deal
  PROVE  AgreesToNewest(p)'
<1> DEFINE s == Head(prog[p])
           k == s.call
<1>1. WorkflowInv /\ SerialInv
  BY DEF JudgedInv, SerialInv
<1>2. /\ s.do = kind /\ row \in Case /\ k \in Calls /\ row' = Result(row, k)
      /\ Doing(p, kind) /\ Then(p, << >>)
  BY <1>1, Committed DEF CommitCase
<1>3. << >> \in Seq(HandlerSteps)
  OBVIOUS
<1>4. /\ s = prog[p][1] /\ prog[p] # << >>
      /\ \A i \in DOMAIN prog'[p] : i + 1 \in DOMAIN prog[p] /\ prog'[p][i] = prog[p][i + 1]
  BY <1>1, <1>2, <1>3, PushedSteps
<1>5. prog[p] \in Seq(HandlerSteps) /\ prog'[p] \in Seq(HandlerSteps)
  BY <1>1, <1>2, <1>3, PushedSteps DEF WorkflowInv, Types
<1>6. ASSUME NEW i \in DOMAIN prog'[p]
      PROVE  ~Records(prog'[p][1])
  <2>1. 1 \in DOMAIN prog'[p]
    BY <1>5
  <2>2. 1 + 1 \in DOMAIN prog[p] \ {1} /\ prog'[p][1] = prog[p][1 + 1]
    BY <1>4, <2>1
  <2> QED BY <1>1, <2>2, RestIsNotSolo
<1>7. \A m : MayAttempt(m)' <=> MayAttempt(m)
  BY AttemptsStay
<1>8. ASSUME NEW m, NEW i \in DOMAIN prog'[p], prog'[p][i].do = "reconcile_agreement",
             prog'[p][i].message = m
      PROVE  IsNewest(m)'
  <2>1. i + 1 \in DOMAIN prog[p] /\ prog[p][i + 1] = prog'[p][i]
    BY <1>4, <1>8
  <2>2. prog[p][i + 1].do = "reconcile_agreement" /\ prog[p][i + 1].message = m
    BY <1>8, <2>1
  <2>3. m \in Replies
    <3>1. prog[p][i + 1] \in HandlerSteps
      BY <1>5, <2>1
    <3> QED BY <2>2, <3>1 DEF HandlerSteps, MessageSteps, PlainSteps
  <2>4. IF Records(prog[p][1]) THEN prog[p][1].call.message = m ELSE IsNewest(m)
    BY <2>1, <2>2 DEF JudgedInv, AgreesToNewest
  <2>5. CASE Records(prog[p][1])
    <3>1. k.op = "record" /\ k.message = m
      BY <1>4, <2>4, <2>5 DEF Records
    <3>2. row'.thread = Append(row.thread, m)
      BY <1>2, <3>1, ThreadResult
    <3> QED BY <1>2, <2>3, <3>2, RecordedIsNewest
  <2>6. CASE ~Records(prog[p][1])
    <3>1. k.op # "record"
      <4>1. s \in HandlerSteps
        BY <1>1, <1>2, CurrentStep
      <4>2. kind = "attempt" => k \in Attempts
        BY <1>2, <4>1 DEF HandlerSteps, MessageSteps, PlainSteps
      <4> QED BY <1>2, <1>4, <2>6, <4>2, AttemptCalls DEF Records
    <3>2. row'.thread = row.thread
      BY <1>2, <3>1, ThreadResult
    <3> QED BY <2>4, <2>6, <3>2 DEF IsNewest
  <2> QED BY <2>5, <2>6
<1>9. ASSUME NEW i \in DOMAIN prog'[p], prog'[p][i].do = "attempt", prog'[p][i].call.eligible
      PROVE  MayAttempt(prog'[p][i].call.resolution)
  <2>1. i + 1 \in DOMAIN prog[p] /\ prog'[p][i] = prog[p][i + 1]
    BY <1>4
  <2> QED BY <1>9, <2>1 DEF JudgedInv, AgreesToNewest
<1> QED BY <1>6, <1>7, <1>8, <1>9 DEF AgreesToNewest

\* A handler that has nothing to do with an agreement.
LEMMA NothingAgreed ==
  ASSUME NEW p \in Procs,
         \A i \in DOMAIN prog'[p] : prog'[p][i].do \notin {"reconcile_agreement", "attempt"}
  PROVE  AgreesToNewest(p)'
BY DEF AgreesToNewest

\* A step that deals with no message.
LEMMA JudgedQuiet ==
  ASSUME JudgedInv, WorkflowInv', NEW p \in Procs, Quiet(p), inbox' = inbox, deal' = deal
  PROVE  AgreesToNewest(p)'
<1>1. SerialInv /\ prog'[p] \in Seq(HandlerSteps)
  BY DEF JudgedInv, WorkflowInv, Types
<1>2. ASSUME NEW i \in DOMAIN prog'[p], prog'[p][i].do = "reconcile_agreement"
      PROVE  /\ ~Records(prog'[p][1]) /\ ~Records(prog[p][1])
             /\ \E j \in DOMAIN prog[p] : prog'[p][i] = prog[p][j]
  <2>1. 1 \in DOMAIN prog'[p]
    BY <1>1, <1>2
  <2>2. prog[p][1].do # "write" /\ \E j \in DOMAIN prog[p] : prog'[p][i] = prog[p][j]
    BY <1>2 DEF Quiet, Talks
  <2> QED BY <1>1, <2>1, <2>2, QuietDropsSolo DEF Records
<1>3. ASSUME NEW i \in DOMAIN prog'[p], prog'[p][i].do = "attempt"
      PROVE  \E j \in DOMAIN prog[p] : prog'[p][i] = prog[p][j]
  BY <1>3 DEF Quiet, Talks
<1>4. row' = row
  BY DEF Quiet
<1> QED BY <1>2, <1>3, <1>4, NewestStays

\* A reply that was classified is recorded before it is agreed to.
LEMMA JudgedRecording ==
  ASSUME JudgedInv, NEW p \in Procs, ClassifyAndRecord(p, Judge)
  PROVE  AgreesToNewest(p)'
<1> DEFINE steps(m, intent) ==
             Operation(Record(m)) \o Operation(Move("RESPONSE_RECEIVED", FALSE))
               \o << MessageStep(IntentRoutes[intent], m) >>
<1>1. PICK m \in Replies : \E intent \in Judge.intents[m] :
        Doing(p, "classify_and_record") /\ Then(p, steps(m, intent))
  BY DEF ClassifyAndRecord, Node
<1>2. PICK intent \in Judge.intents[m] :
        Doing(p, "classify_and_record") /\ Then(p, steps(m, intent))
  BY <1>1
<1>3. intent \in DOMAIN IntentRoutes
  BY <1>2, JudgeIsJudge DEF IsJudge
<1> DEFINE new == steps(m, intent)
<1>4. /\ new \in Seq(HandlerSteps) /\ Len(new) = 3
      /\ new[1] = Write(Record(m))
      /\ new[2] = Write(Move("RESPONSE_RECEIVED", FALSE))
      /\ new[3] = MessageStep(IntentRoutes[intent], m)
  BY <1>3, ClassifiedSteps
<1>5. Then(p, new) /\ Doing(p, "classify_and_record")
  BY <1>2
<1> HIDE DEF new
<1>6. "classify_and_record" \in SoloSteps /\ SerialInv
  BY DEF SoloSteps, JudgedInv
<1>7. /\ Len(prog'[p]) = 3 /\ prog'[p] \in Seq(HandlerSteps)
      /\ \A i \in DOMAIN prog'[p] : prog'[p][i] = new[i]
  BY <1>4, <1>5, <1>6, SoloPush
<1>8. /\ new[1].do = "write" /\ new[1].call.op = "record" /\ new[1].call.message = m
      /\ new[2].do = "write" /\ new[3].message = m /\ new[3].do # "attempt"
  BY <1>3, <1>4 DEF Write, Record, MessageStep, IntentRoutes
<1>9. DOMAIN prog'[p] = {1, 2, 3} /\ prog'[p][1] = new[1] /\ prog'[p][2] = new[2]
      /\ prog'[p][3] = new[3]
  BY <1>7
<1>10. Records(prog'[p][1]) /\ prog'[p][1].call.message = m
  BY <1>8, <1>9 DEF Records
<1>11. \A i \in DOMAIN prog'[p] :
         /\ prog'[p][i].do = "reconcile_agreement" => prog'[p][i].message = m
         /\ prog'[p][i].do # "attempt"
  BY <1>8, <1>9
<1> QED BY <1>10, <1>11 DEF AgreesToNewest

\* While no other handler runs, the answer about an attempt is about its reply.
LEMMA JudgedAgrees ==
  ASSUME JudgedInv, \A q, r \in Procs : q = r, NEW p \in Procs,
         inbox' = inbox, deal' = deal,
         \/ HumanAction(p) \/ AgentCall(p) \/ BreakOff(p)
         \/ EngineStep(p) \/ GateStep(p) \/ AgentStep(p, Judge)
  PROVE  AgreesToNewest(p)'
<1>1. WorkflowInv /\ SerialInv /\ WorkflowInv'
  BY JudgeIsJudge, ProcessStep DEF JudgedInv, SerialInv
<1>2. CASE Quiet(p)
  BY <1>1, <1>2, JudgedQuiet
<1>3. ASSUME NEW m \in Replies, HandleResponse(p, m)
      PROVE  AgreesToNewest(p)'
  <2>1. prog'[p] = << MessageStep("dedupe_and_parse", m) >>
    BY <1>1, <1>3, CalledSteps DEF HandleResponse
  <2>2. MessageStep("dedupe_and_parse", m).do = "dedupe_and_parse"
    BY DEF MessageStep
  <2> QED BY <2>1, <2>2, NothingAgreed
<1>4. CASE SendClarificationRequest(p)
  <2>1. prog'[p] = << Step("draft_clarification") >>
    BY <1>1, <1>4, CalledSteps DEF SendClarificationRequest
  <2>2. Step("draft_clarification").do = "draft_clarification"
    BY DEF Step
  <2> QED BY <2>1, <2>2, NothingAgreed
<1>5. CASE DedupeAndParse(p)
  <2>1. PICK m \in Replies :
          /\ Doing(p, "dedupe_and_parse")
          /\ Then(p, << >>) \/ Then(p, << MessageStep("classify_and_record", m) >>)
    BY <1>5 DEF DedupeAndParse, Node
  <2> DEFINE s == MessageStep("classify_and_record", m)
  <2>2. s.do = "classify_and_record" /\ << s >> \in Seq(HandlerSteps)
        /\ "dedupe_and_parse" \in SoloSteps
    BY SoloStepsMade DEF MessageStep, SoloSteps
  <2>3. Then(p, << >>) \/ Then(p, << s >>)
    BY <2>1
  <2> HIDE DEF s
  <2>4. CASE Then(p, << >>)
    BY <1>1, <2>1, <2>2, <2>4, SoloEnds, NothingAgreed
  <2>5. CASE Then(p, << s >>)
    <3>1. \A i \in DOMAIN prog'[p] : prog'[p][i] = s
      BY <1>1, <2>1, <2>2, <2>5, SoloNext
    <3> QED BY <2>2, <3>1, NothingAgreed
  <2> QED BY <2>3, <2>4, <2>5
<1>6. CASE ClassifyAndRecord(p, Judge)
  BY <1>6, JudgedRecording
<1>7. CASE ReconcileAgreement(p, Judge)
  BY <1>7, ReconciledIsNewest
<1>8. CASE DraftClarification(p)
  <2> DEFINE s == Step("send_and_record")
  <2>1. Doing(p, "draft_clarification") /\ Then(p, << s >>)
    BY <1>8 DEF DraftClarification, Node
  <2>2. s.do = "send_and_record" /\ << s >> \in Seq(HandlerSteps)
        /\ "draft_clarification" \in SoloSteps
    BY SoloStepsMade DEF Step, SoloSteps
  <2> HIDE DEF s
  <2>3. \A i \in DOMAIN prog'[p] : prog'[p][i] = s
    BY <1>1, <2>1, <2>2, SoloNext
  <2> QED BY <2>2, <2>3, NothingAgreed
<1>9. CASE SendAndRecord(p)
  <2>1. Doing(p, "send_and_record") /\ "send_and_record" \in SoloSteps
    BY <1>9 DEF SendAndRecord, SoloSteps
  <2>2. CASE Raise(p)
    <3>1. prog'[p] = << >>
      BY <1>1, <2>2 DEF Raise, WorkflowInv, Types
    <3> QED BY <3>1, NothingAgreed
  <2>3. ASSUME NEW receipt \in Receipts, Then(p, Operation(Record(receipt)))
        PROVE  AgreesToNewest(p)'
    <3> DEFINE s == Write(Record(receipt))
    <3>1. Then(p, << s >>) /\ << s >> \in Seq(HandlerSteps) /\ s.do = "write"
      BY <2>3, RecordingSteps DEF Write
    <3> HIDE DEF s
    <3>2. \A i \in DOMAIN prog'[p] : prog'[p][i] = s
      BY <1>1, <2>1, <3>1, SoloNext
    <3> QED BY <3>1, <3>2, NothingAgreed
  <2> QED BY <1>9, <2>2, <2>3 DEF SendAndRecord
<1>10. ASSUME NEW kind \in {"write", "attempt"}, CommitCase(p, kind)
       PROVE  AgreesToNewest(p)'
  BY <1>10, JudgedCommit
<1> QED BY <1>1, <1>2, <1>3, <1>4, <1>5, <1>6, <1>7, <1>8, <1>9, <1>10, JudgeIsJudge,
           StepsThatTalk

LEMMA JudgedProcessStep ==
  ASSUME JudgedInv, \A q, r \in Procs : q = r, NEW p \in Procs,
         inbox' = inbox, deal' = deal,
         \/ HumanAction(p) \/ AgentCall(p) \/ BreakOff(p)
         \/ EngineStep(p) \/ GateStep(p) \/ AgentStep(p, Judge)
  PROVE  JudgedInv'
<1>1. SerialInv'
  BY JudgeIsJudge, SerialStep DEF JudgedInv
<1>2. \A q \in Procs : AgreesToNewest(q)'
  BY JudgedAgrees
<1>3. \A m : MayAttempt(m)' <=> MayAttempt(m)
  BY AttemptsStay
<1>4. ASSUME NEW m \in Replies, row'.resolution = m
      PROVE  MayAttempt(m)
  <2>1. CASE row'.resolution = row.resolution
    BY <1>4, <2>1 DEF JudgedInv
  <2>2. CASE row'.resolution # row.resolution
    <3>1. PICK kind \in {"write", "attempt"} : CommitCase(p, kind)
      BY <2>2, OnlyCommitsChange
    <3>2. /\ 1 \in DOMAIN prog[p] /\ prog[p][1].do = "attempt" /\ prog[p][1].call.eligible
          /\ row'.resolution = prog[p][1].call.resolution
      BY <1>4, <2>2, <3>1, ResolvedByAttempt DEF JudgedInv, SerialInv
    <3> QED BY <1>4, <3>2 DEF JudgedInv, AgreesToNewest
  <2> QED BY <2>1, <2>2
<1>5. (row.resolution \in Replies => MayAttempt(row.resolution))'
  BY <1>3, <1>4
<1>6. inbox' \in Inboxes /\ deal' \in Deals
  BY DEF JudgedInv
<1> QED BY <1>1, <1>2, <1>5, <1>6 DEF JudgedInv

\* A case that an attempt may resolve meets the criteria.
LEMMA AttemptsMeetCriteria ==
  ASSUME MinAgreeConfidence > 0,
         \A d \in Deals : d.internal # NoValue => d.internal > 0,
         JudgedInv
  PROVE  AgreedWasJudged
<1> SUFFICES ASSUME row.resolution \in Replies
             PROVE  MayCloseUnattended(deal, inbox[row.resolution])
  BY DEF AgreedWasJudged
<1> DEFINE mail == inbox[row.resolution]
<1>1. mail \in Mail /\ deal \in Deal /\ (deal.internal # NoValue => deal.internal > 0)
  BY AgreementAssumption DEF JudgedInv
<1>2. PICK down \in SUBSET Tools : Eligible(deal, Classify(mail), down)
  BY DEF JudgedInv, MayAttempt
<1> HIDE DEF mail
<1>3. MayCloseUnattended(deal, mail)
  BY <1>1, <1>2, EligibleMeetsCriteria
<1> QED BY <1>3 DEF mail

(* A case that no human resolved was resolved at the price of a reply that   *)
(* meets every criterion of spec 06, with the classifier and the check that  *)
(* the code has, whatever else is on the thread, whichever tools were down   *)
(* and wherever the handlers broke off - as long as one handler runs after   *)
(* the other.  With two at a time it is false: the check reads the newest    *)
(* reply on the thread, which need not be the one that is being answered.    *)
THEOREM AgreementsAreJudged ==
  ASSUME \A p, q \in Procs : p = q,
         MinAgreeConfidence > 0,
         \A d \in Deals : d.internal # NoValue => d.internal > 0
  PROVE  AgreementSpec => []AgreedWasJudged
<1>1. AgreementInit => JudgedInv
  <2> SUFFICES ASSUME AgreementInit PROVE JudgedInv
    OBVIOUS
  <2>1. SerialInv
    BY SerialStart DEF AgreementInit
  <2>2. \A p \in Procs : AgreesToNewest(p)
    BY SilentStart DEF AgreementInit, Silent, Talks, AgreesToNewest
  <2>3. row.resolution \notin Replies
    BY AgreementAssumption DEF AgreementInit, Init
  <2> QED BY <2>1, <2>2, <2>3 DEF JudgedInv, AgreementInit
<1>2. JudgedInv /\ [AgreementNext]_agreementVars => JudgedInv'
  <2>1. ASSUME JudgedInv, AgreementNext
        PROVE  JudgedInv'
    <3>1. inbox' = inbox /\ deal' = deal
      BY <2>1, AgreementSteps
    <3>2. PICK p \in Procs :
            \/ HumanAction(p) \/ AgentCall(p) \/ BreakOff(p)
            \/ EngineStep(p) \/ GateStep(p) \/ AgentStep(p, Judge)
      BY <2>1, AgreementSteps
    <3> QED BY <2>1, <3>1, <3>2, JudgedProcessStep
  <2>2. ASSUME JudgedInv, UNCHANGED agreementVars
        PROVE  JudgedInv'
    <3>1. UNCHANGED vars /\ row' = row /\ prog' = prog /\ sent' = sent
          /\ inbox' = inbox /\ deal' = deal
      BY <2>2 DEF agreementVars, vars
    <3>2. SerialInv'
      BY <2>2, <3>1, StutteringStep
         DEF JudgedInv, SerialInv, ThreadIsClean, Unused, RecordsOnce, OnThread
    <3>3. \A p \in Procs : AgreesToNewest(p)'
      BY <2>2, <3>1, AttemptsStay DEF JudgedInv, AgreesToNewest, IsNewest
    <3>4. (row.resolution \in Replies => MayAttempt(row.resolution))'
      BY <2>2, <3>1, AttemptsStay DEF JudgedInv
    <3> QED BY <2>2, <3>1, <3>2, <3>3, <3>4 DEF JudgedInv
  <2> QED BY <2>1, <2>2
<1> QED BY <1>1, <1>2, AttemptsMeetCriteria, PTL DEF AgreementSpec

(* What the workflow keeps true under a judge that answers anything, it      *)
(* keeps true under the classifier and the check that the code has, which    *)
(* also tell which replies state a price: a booking without one is held.     *)
THEOREM AgreementKeepsWorkflow ==
  AgreementSpec => [](NoticeFollowsApproval /\ OpenGateHoldsCase /\ ClosedIsBooked
                        /\ LoopsAreCounted)
<1>1. AgreedInv => NoticeFollowsApproval /\ OpenGateHoldsCase
  BY NoticesAreApproved, OpenGatesHold DEF AgreedInv
<1>2. AgreedInv => ClosedIsBooked /\ LoopsAreCounted
  BY DEF AgreedInv, WorkflowInv, Orderly, LoopsAreCounted
<1> QED BY <1>1, <1>2, AgreementInvariant, PTL
=============================================================================
