--------------------------- MODULE WorkflowProofs ---------------------------
(***************************************************************************)
(* Proofs about Workflow: whatever handlers run at the same time, and      *)
(* wherever they break off, the gates, the notices, the booking and the    *)
(* loop count of a case stay consistent.  The judge of the replies is a    *)
(* parameter of the lemmas about steps.                                    *)
(***************************************************************************)
EXTENDS Workflow, CaseOpsProofs, FiniteSetTheorems

----------------------------------------------------------------------------
(* The invariant *)

\* What handlers ask of the engine, of all that may be asked of it.
HandlerCalls ==
  {k \in Calls :
     /\ k.op = "openGate" => k.target = "none" \/ k.gate = "PRE_SEND_REVIEW"
     /\ k.op = "closeGate" =>
          (k.target # "none" <=> k.gate = "DISPUTE_ESCALATION" /\ k.verdict = "approved")
     /\ k.op = "transition" => k.target \notin {"COMMS_DRAFTED", "RESOLVED"}}

\* The one transition to RESOLVED that is a handler's own is the attempt.
Attempts == {AutoResolve(eligible, m) : eligible \in BOOLEAN, m \in Replies}

HandlerSteps ==
  [do : {"cancel", "write"}, call : HandlerCalls] \cup [do : {"attempt"}, call : Attempts]
    \cup [do : MessageSteps, message : Replies] \cup [do : PlainSteps]
    \cup [do : {"arm"}, kinds : SUBSET TimerKinds]

\* The write that opens a gate without a transition, on the strength of what its
\* handler did before.
OpensGate(s) == s.do = "write" /\ s.call.op = "openGate" /\ s.call.target = "none"

\* Steps that are right only where the step before them has led.
Led(s) == s.do \in {"open_gate2", "reopen", "send", "attempt"} \/ OpensGate(s)

\* In a handler, s may be followed by t.
Leads(s, t) ==
  /\ t.do = "open_gate2" => s = Write(Move("ESCALATED", FALSE))
  /\ t.do = "reopen" =>
       \E g \in GateTypes : s = Write(Close(g, "reassigned", "none", "none"))
  /\ t.do = "send" => s = Write(Close("PRE_SEND_REVIEW", "approved", "none", "none"))
  /\ t.do = "attempt" => s = Write(Move("AGREED", FALSE))
  /\ ~OpensGate(t)

Chained(steps) == \A i \in 1 .. Len(steps) - 1 : Leads(steps[i], steps[i + 1])

\* Nothing is booked or closed ahead of what justifies it.
Settled(resolution) == resolution \in Replies \cup {"settled"}

Closes(s) ==
  \/ s.do = "close_case"
  \/ s.do = "write" /\ s.call.op = "transition" /\ s.call.target = "CLOSED"

Justified(s, c, bookings) ==
  /\ s.do = "book" => Settled(c.resolution)
  /\ Closes(s) => bookings > 0

\* The steps that a handler still has to make, while the case is c.
Good(steps, c, bookings) ==
  /\ steps \in Seq(HandlerSteps)
  /\ Chained(steps)
  /\ \A i \in DOMAIN steps : Justified(steps[i], c, bookings)

Handlers == \A p \in Procs : Good(prog[p], row, booked)

\* No gate of the case is open, and one of the type may be opened as it stands.
MayOpen(c, gate) ==
  /\ PendingGates(c, GateTypes) = {}
  /\ gate = "DISPUTE_ESCALATION" => c.status \in {"ESCALATED", "CANCELLED"}
  /\ gate = "PRE_SEND_REVIEW" =>
       /\ c.status \in {"PENDING_ANALYST_APPROVAL", "CANCELLED"}
       /\ c.gates # << >>
       /\ c.gates[Len(c.gates)] = [type |-> "PRE_SEND_REVIEW", status |-> "reassigned"]

At(p, kind) == prog[p] # << >> /\ prog[p][1].do = kind

\* What the handler of p that is at a step has established on its copy ...
Prepared(p) ==
  /\ At(p, "attempt") => snap[p].status = "AGREED"
  /\ At(p, "reopen") =>
       snap[p].gates # << >> /\ MayOpen(snap[p], snap[p].gates[Len(snap[p].gates)].type)
  /\ prog[p] # << >> /\ OpensGate(prog[p][1]) => MayOpen(snap[p], prog[p][1].call.gate)

\* ... and on the stored case, which no other handler undoes.
Holds(p) ==
  /\ At(p, "send") => HasApprovedGate(row, "PRE_SEND_REVIEW") /\ Notices = {}
  /\ At(p, "open_gate2") => MayOpen(row, "DISPUTE_ESCALATION")

AboutToOpen(p) ==
  /\ At(p, "reopen") \/ (prog[p] # << >> /\ OpensGate(prog[p][1]))
  /\ snap[p].version = row.version

\* One handler at a time is about to send, and one about to open a gate.
Alone ==
  \A p, q \in Procs :
    p # q => /\ At(p, "send") => ~At(q, "send")
             /\ At(p, "open_gate2") => ~At(q, "open_gate2") /\ ~AboutToOpen(q)

\* A copy is never ahead of the row, and is the row when it has its version.
CopiesAgree ==
  \A p \in Procs :
    /\ snap[p].version <= row.version
    /\ snap[p].version = row.version => snap[p] = row

NoticesApproved ==
  /\ Notices # {} => HasApprovedGate(row, "PRE_SEND_REVIEW")
  /\ \A i, j \in Notices : i = j

Types ==
  /\ row \in Case
  /\ timers \in SUBSET TimerKinds
  /\ sent \in Seq(Drafts \cup Receipts)
  /\ booked \in Nat
  /\ snap \in [Procs -> Case]
  /\ prog \in [Procs -> Seq(HandlerSteps)]
  /\ failures \in 0 .. MaxFailures

WorkflowInv ==
  /\ Types
  /\ CopiesAgree
  /\ Orderly(row)
  /\ NoticesApproved
  /\ ClosedIsBooked
  /\ Handlers
  /\ \A p \in Procs : Prepared(p) /\ Holds(p)
  /\ Alone

----------------------------------------------------------------------------
(* Single operations on an orderly case *)

LEMMA AttemptCalls ==
  ASSUME NEW k \in Attempts
  PROVE  /\ k \in TransitionCalls /\ k.op = "transition" /\ k.target = "RESOLVED"
         /\ k.human = FALSE /\ k.resolution \in Replies
<1>1. PICK eligible \in BOOLEAN, m \in Replies : k = AutoResolve(eligible, m)
  BY DEF Attempts
<1>2. m \in Messages
  BY MessagesAssumption
<1> QED BY <1>1, <1>2 DEF AutoResolve, TransitionCalls, TransitionCall

\* The fields that gates, guards and closings depend on, as each operation leaves them.
LEMMA ResultFields ==
  ASSUME NEW c \in Case, NEW k \in Calls
  PROVE  LET d == Result(c, k)
         IN  /\ k.op \notin {"openGate", "closeGate"} =>
                  d.gates = c.gates /\ d.loops = c.loops
             /\ k.op = "openGate" =>
                  /\ d.gates = Append(c.gates, [type |-> k.gate, status |-> "pending"])
                  /\ d.status = TargetStatus(c, k.target)
                  /\ d.loops = c.loops /\ d.resolution = c.resolution
             /\ k.op = "closeGate" =>
                  /\ d.gates = WithVerdict(c, k.gate, k.verdict)
                  /\ d.status = TargetStatus(c, k.target)
                  /\ d.loops = IF k.target = "AWAITING_CLARIFICATION" THEN c.loops + 1
                                                                       ELSE c.loops
                  /\ d.resolution = WrittenResolution(c, k.resolution)
             /\ k.op = "transition" =>
                  /\ d.status = k.target
                  /\ d.resolution = WrittenResolution(c, k.resolution)
             /\ k.op = "kill" => d.status = "CANCELLED" /\ d.resolution = c.resolution
             /\ k.op \notin {"openGate", "closeGate", "transition", "kill"} =>
                  d.status = c.status /\ d.resolution = c.resolution
<1>1. CASE k.op = "transition"
  BY <1>1 DEF Result, WithTransition, Case
<1>2. CASE k.op = "openGate"
  BY <1>2 DEF Result, WithOpenGate, Case
<1>3. CASE k.op = "closeGate"
  BY <1>3 DEF Result, WithClosedGate, Case
<1>4. CASE k.op = "kill"
  BY <1>4 DEF Result, WithKill, Case
<1>5. CASE k.op \notin {"openGate", "closeGate", "transition", "kill"}
  BY <1>5, CallKinds DEF Result, WithUpdate, WithTask, WithMessage, Case
<1> QED BY <1>1, <1>2, <1>3, <1>4, <1>5

\* Where gates are in order only the last one can be open.
LEMMA OpenIsLast ==
  ASSUME NEW c \in Case, GatesInOrder(c), NEW types
  PROVE  PendingGates(c, types) \subseteq {Len(c.gates)}
<1>1. c.gates \in Seq(GateRecord)
  BY DEF Case
<1> QED BY <1>1 DEF GatesInOrder, PendingGates

\* An allowed closing gives its verdict to the last gate, which waited for it.
LEMMA ClosingDecidesLast ==
  ASSUME NEW c \in Case, GatesInOrder(c), NEW k \in CloseGateCalls, k.op = "closeGate",
         Allowed(c, k)
  PROVE  LET n == Len(c.gates)
         IN  /\ n \in Nat /\ n >= 1 /\ DOMAIN c.gates = 1 .. n
             /\ c.gates[n] = [type |-> k.gate, status |-> "pending"]
             /\ Result(c, k).gates \in Seq(GateRecord)
             /\ Len(Result(c, k).gates) = n
             /\ Result(c, k).gates[n] = [type |-> k.gate, status |-> k.verdict]
             /\ \A i \in 1 .. n - 1 : Result(c, k).gates[i] = c.gates[i]
             /\ k.verdict # "pending"
<1> DEFINE n == Len(c.gates)
<1>1. c.gates \in Seq(GateRecord)
  BY DEF Case
<1>2. PICK i \in DOMAIN c.gates : c.gates[i].status = "pending" /\ c.gates[i].type = k.gate
  BY DEF Allowed, CloseGateAllowed, GateActionable, HasOpenGate, PendingGates
<1>3. i = n /\ i \in 1 .. n /\ n \in Nat
  BY <1>1, <1>2 DEF GatesInOrder
<1>4. c.gates[n] = [type |-> k.gate, status |-> "pending"]
  <2>1. c.gates[n] \in GateRecord
    BY <1>1, <1>3
  <2> QED BY <1>2, <1>3, <2>1 DEF GateRecord
<1>5. PendingGates(c, {k.gate}) = {n}
  <2>1. n \in PendingGates(c, {k.gate})
    BY <1>1, <1>3, <1>4 DEF PendingGates
  <2> QED BY <2>1, OpenIsLast
<1>6. \A j \in 1 .. n : IsOpenGate(c, {k.gate}, j) <=> j = n
  <2> SUFFICES ASSUME NEW j \in 1 .. n
               PROVE  IsOpenGate(c, {k.gate}, j) <=> j = n
    OBVIOUS
  <2>1. j = n => \A m \in PendingGates(c, {k.gate}) : m <= j
    BY <1>3, <1>5
  <2> QED BY <2>1, <1>5 DEF IsOpenGate
<1>7. k \in Calls /\ k.gate \in GateTypes /\ k.verdict \in GateStatuses \ {"pending"}
  BY DEF Calls, CloseGateCalls, GateTypes, GateStatuses
<1>8. Result(c, k).gates = WithVerdict(c, k.gate, k.verdict)
  BY <1>7, ResultFields
<1>9. Result(c, k).gates \in Seq(GateRecord) /\ Len(Result(c, k).gates) = n
  BY <1>7, <1>8, VerdictType
<1>10. [c.gates[n] EXCEPT !.status = k.verdict] = [type |-> k.gate, status |-> k.verdict]
  BY <1>4
<1>11. DOMAIN c.gates = 1 .. n
  BY <1>1
<1>12. \A j \in 1 .. n : WithVerdict(c, k.gate, k.verdict)[j] =
          IF j = n THEN [type |-> k.gate, status |-> k.verdict] ELSE c.gates[j]
  BY <1>6, <1>10, <1>11 DEF WithVerdict
<1>13. \A j \in 1 .. n - 1 : j \in 1 .. n /\ j # n
  BY <1>3
<1>14. Result(c, k).gates[n] = [type |-> k.gate, status |-> k.verdict]
  BY <1>3, <1>8, <1>12
<1>15. \A j \in 1 .. n - 1 : Result(c, k).gates[j] = c.gates[j]
  BY <1>8, <1>12, <1>13
<1>16. n \in Nat /\ n >= 1 /\ k.verdict # "pending"
  BY <1>3, <1>7
<1> HIDE DEF n
<1>17. n = Len(c.gates)
  BY DEF n
<1> QED BY <1>4, <1>9, <1>11, <1>14, <1>15, <1>16, <1>17

\* The edges of the transition table that the proofs turn on.
LEMMA LegalEdges ==
  ASSUME NEW c \in Case, NEW target, NEW ctx, MayTransition(c, target, ctx)
  PROVE  /\ c.status \notin TerminalStatuses
         /\ target = "PENDING_ANALYST_APPROVAL" => c.status = "COMMS_DRAFTED"
         /\ c.status = "PENDING_ANALYST_APPROVAL" => target \in {"SENT", "CANCELLED"}
         /\ c.status = "ESCALATED" =>
              target \in {"RESOLVED", "AWAITING_CLARIFICATION", "CANCELLED"}
         /\ c.status = "RESOLVED" => target \in {"CLOSED", "CANCELLED"}
         /\ target = "ESCALATED" =>
              c.status \notin {"PENDING_ANALYST_APPROVAL", "ESCALATED", "RESOLVED"}
         /\ target = "CLOSED" => c.status = "RESOLVED"
         /\ target = "SENT" => HasApprovedGate(c, "PRE_SEND_REVIEW")
<1>1. c.status \in Statuses /\ c.status \notin TerminalStatuses
      /\ target \in Transitions[c.status] \cup {"CANCELLED"}
  BY DEF MayTransition, IllegalTransition, AllowedTargets, Case
<1>2. target = "SENT" => HasApprovedGate(c, "PRE_SEND_REVIEW")
  BY DEF MayTransition, GuardrailRefuses, Guardrails
<1>3. c.status \in Statuses \ {"CLOSED", "CANCELLED"}
  BY <1>1 DEF TerminalStatuses
<1> QED BY <1>1, <1>2, <1>3 DEF Transitions, Statuses, TerminalStatuses

\* While a gate 1 is open none was approved.
LEMMA OpenGateIsUnapproved ==
  ASSUME NEW c \in Case, GatesInOrder(c), HasOpenGate(c, {"PRE_SEND_REVIEW"})
  PROVE  ~HasApprovedGate(c, "PRE_SEND_REVIEW")
<1>1. PICK i \in DOMAIN c.gates :
        c.gates[i].status = "pending" /\ c.gates[i].type = "PRE_SEND_REVIEW"
  BY DEF HasOpenGate, PendingGates
<1>2. SUFFICES ASSUME NEW j \in DOMAIN c.gates, c.gates[j].status = "approved"
               PROVE  FALSE
  BY DEF HasApprovedGate
<1>3. c.gates \in Seq(GateRecord)
  BY DEF Case
<1> QED BY <1>1, <1>2, <1>3 DEF GatesInOrder

\* A status that is open to handlers' transitions has no open gate.
LEMMA MovesHaveNoOpenGate ==
  ASSUME NEW c \in Case, Orderly(c), NEW k \in HandlerCalls \cup Attempts,
         k.op = "transition", Allowed(c, k), k \in Attempts => c.status = "AGREED"
  PROVE  PendingGates(c, GateTypes) = {}
<1>1. MayTransition(c, k.target, Context(k.human, k.eligible))
  BY DEF Allowed, TransitionAllowed
<1>2. k \in TransitionCalls
  BY CallKinds, AttemptCalls DEF HandlerCalls
<1>3. k.target \notin {"CANCELLED", "AWAITING_CLARIFICATION"}
  BY <1>2 DEF TransitionCalls, TransitionCall
<1>4. k.target = "RESOLVED" => c.status = "AGREED"
  BY DEF HandlerCalls
<1>5. c.status # "ESCALATED" /\ c.status # "CANCELLED"
  BY <1>1, <1>3, <1>4, LegalEdges DEF TerminalStatuses
<1>6. ~HasOpenGate(c, {"PRE_SEND_REVIEW"})
  <2>1. SUFFICES ASSUME HasOpenGate(c, {"PRE_SEND_REVIEW"}) PROVE FALSE
    OBVIOUS
  <2>2. c.status = "PENDING_ANALYST_APPROVAL"
    BY <1>5, <2>1 DEF Orderly
  <2>3. k.target = "SENT"
    BY <1>1, <1>3, <2>2, LegalEdges
  <2> QED BY <1>1, <2>1, <2>3, LegalEdges, OpenGateIsUnapproved DEF Orderly
<1>7. ~HasOpenGate(c, {"DISPUTE_ESCALATION"})
  BY <1>5 DEF Orderly
<1> QED BY <1>6, <1>7 DEF HasOpenGate, PendingGates, GateTypes

\* One approval is one more.
LEMMA OneMoreApproval ==
  ASSUME NEW S, IsFiniteSet(S), NEW x, x \notin S
  PROVE  Cardinality(S \cup {x}) = Cardinality(S) + 1 /\ Cardinality(S) \in Nat
BY FS_AddElement, FS_CardinalityType

LEMMA ApprovalsAreFinite ==
  ASSUME NEW c \in Case, NEW type
  PROVE  IsFiniteSet(Approvals(c, type))
<1>1. c.gates \in Seq(GateRecord)
  BY DEF Case
<1>2. IsFiniteSet(1 .. Len(c.gates))
  BY <1>1, FS_Interval
<1>3. Approvals(c, type) \subseteq 1 .. Len(c.gates)
  BY <1>1 DEF Approvals
<1> QED BY <1>2, <1>3, FS_Subset

LEMMA TransitionKeepsOrder ==
  ASSUME NEW c \in Case, Orderly(c), NEW k \in HandlerCalls \cup Attempts,
         k.op = "transition", Allowed(c, k), k \in Attempts => c.status = "AGREED"
  PROVE  Orderly(Result(c, k))
<1> DEFINE d == Result(c, k)
<1>1. k \in TransitionCalls /\ k \in Calls
  BY CallKinds, AttemptCalls DEF HandlerCalls, Calls
<1>2. MayTransition(c, k.target, Context(k.human, k.eligible))
  BY DEF Allowed, TransitionAllowed
<1>3. /\ d.gates = c.gates /\ d.loops = c.loops /\ d.status = k.target
      /\ d.resolution = WrittenResolution(c, k.resolution)
  BY <1>1, ResultFields
<1>4. PendingGates(d, {"PRE_SEND_REVIEW"}) = {} /\ PendingGates(d, {"DISPUTE_ESCALATION"}) = {}
  BY <1>3, MovesHaveNoOpenGate DEF PendingGates, GateTypes
<1>5. GatesInOrder(d)
  BY <1>3 DEF Orderly, GatesInOrder
<1>6. d.status # "COMMS_DRAFTED"
  BY <1>3, AttemptCalls DEF HandlerCalls
<1>7. Approvals(d, "DISPUTE_ESCALATION") = Approvals(c, "DISPUTE_ESCALATION")
  BY <1>3 DEF Approvals
<1>8. CASE k \in Attempts
  <2>1. k.target = "RESOLVED" /\ k.resolution \in Replies /\ c.resolution = "none"
    BY <1>8, AttemptCalls DEF Orderly
  <2>2. d.resolution \notin {"none", "settled", "legal"}
    BY <1>3, <2>1, MessagesAssumption DEF WrittenResolution
  <2> QED BY <1>3, <1>4, <1>5, <1>6, <1>7, <2>1, <2>2 DEF Orderly, HasOpenGate
<1>9. CASE k \notin Attempts
  <2>1. k.target # "RESOLVED" /\ k.resolution = "none"
    BY <1>1, <1>9 DEF HandlerCalls, TransitionCalls, TransitionCall
  <2>2. d.resolution = c.resolution
    BY <1>3, <2>1 DEF WrittenResolution
  <2>3. d.resolution # "none" => d.status \in {"CLOSED", "CANCELLED"}
    BY <1>2, <1>3, <2>2, LegalEdges DEF Orderly, TerminalStatuses
  <2> QED BY <1>3, <1>4, <1>5, <1>6, <1>7, <2>2, <2>3 DEF Orderly, HasOpenGate
<1> QED BY <1>8, <1>9

LEMMA OpeningKeepsOrder ==
  ASSUME NEW c \in Case, Orderly(c), NEW k \in HandlerCalls, k.op = "openGate", Allowed(c, k),
         k.target = "none" => MayOpen(c, k.gate)
  PROVE  /\ Orderly(Result(c, k))
         /\ k.target # "none" => c.status = "COMMS_DRAFTED"
<1> DEFINE d == Result(c, k)
           n == Len(c.gates)
           g == [type |-> k.gate, status |-> "pending"]
<1>1. k \in OpenGateCalls /\ k \in Calls
  BY CallKinds DEF HandlerCalls
<1>2. /\ d.gates = Append(c.gates, g) /\ d.loops = c.loops
      /\ d.status = TargetStatus(c, k.target) /\ d.resolution = c.resolution
  BY <1>1, ResultFields
<1>3. c.gates \in Seq(GateRecord) /\ n \in Nat /\ DOMAIN c.gates = 1 .. n
  BY DEF Case
<1>4. /\ DOMAIN d.gates = 1 .. n + 1 /\ d.gates[n + 1] = g
      /\ \A i \in 1 .. n : d.gates[i] = c.gates[i]
  BY <1>2, <1>3
<1>5. k.target # "none" => k.target = "PENDING_ANALYST_APPROVAL" /\ k.gate = "PRE_SEND_REVIEW"
                           /\ c.status = "COMMS_DRAFTED" /\ c.gates = << >>
  BY <1>1, LegalEdges DEF HandlerCalls, OpenGateCalls, Allowed, OpenGateAllowed, Orderly
<1>6. \A i \in 1 .. n : c.gates[i].status # "pending"
  <2>1. PendingGates(c, GateTypes) = {}
    BY <1>5 DEF MayOpen, PendingGates
  <2>2. \A i \in 1 .. n : c.gates[i].type \in GateTypes
    <3>1. \A i \in 1 .. n : c.gates[i] \in GateRecord
      BY <1>3
    <3> QED BY <3>1 DEF GateRecord
  <2> QED BY <1>3, <2>1, <2>2 DEF PendingGates
<1>7. GatesInOrder(d)
  <2> SUFFICES ASSUME NEW i \in 1 .. n + 1, NEW j \in 1 .. n + 1, i < j
               PROVE  /\ d.gates[i].status # "pending"
                      /\ d.gates[j].type = "PRE_SEND_REVIEW" =>
                           d.gates[i] = [type |-> "PRE_SEND_REVIEW", status |-> "reassigned"]
    BY <1>4 DEF GatesInOrder
  <2>1. i \in 1 .. n /\ d.gates[i] = c.gates[i]
    BY <1>3, <1>4
  <2>2. CASE j \in 1 .. n
    BY <1>3, <1>4, <1>6, <2>1, <2>2 DEF Orderly, GatesInOrder
  <2>3. CASE j = n + 1 /\ k.gate = "PRE_SEND_REVIEW"
    <3>1. c.gates[n] = [type |-> "PRE_SEND_REVIEW", status |-> "reassigned"]
      BY <1>3, <1>5, <2>1, <2>3 DEF MayOpen
    <3>2. CASE i = n
      BY <1>6, <2>1, <3>1, <3>2
    <3>3. CASE i < n
      <4>1. n \in DOMAIN c.gates /\ i \in DOMAIN c.gates
        BY <1>3, <2>1
      <4>2. c.gates[n].type = "PRE_SEND_REVIEW"
        BY <3>1
      <4> QED BY <1>6, <2>1, <3>3, <4>1, <4>2 DEF Orderly, GatesInOrder
    <3> QED BY <1>3, <2>1, <3>2, <3>3
  <2>4. CASE j = n + 1 /\ k.gate # "PRE_SEND_REVIEW"
    BY <1>4, <1>6, <2>1, <2>4
  <2> QED BY <1>3, <2>2, <2>3, <2>4
<1>8. \A types : PendingGates(d, types) = IF k.gate \in types THEN {n + 1} ELSE {}
  <2> TAKE types
  <2>1. \A i \in 1 .. n : d.gates[i].status # "pending"
    BY <1>4, <1>6
  <2>2. d.gates[n + 1].status = "pending" /\ d.gates[n + 1].type = k.gate
    BY <1>4
  <2>3. DOMAIN d.gates = (1 .. n) \cup {n + 1}
    BY <1>3, <1>4
  <2> HIDE DEF d, n
  <2> QED BY <2>1, <2>2, <2>3 DEF PendingGates
<1>9. k.gate \in GateTypes /\ (k.gate = "PRE_SEND_REVIEW" => d.status \in {"PENDING_ANALYST_APPROVAL", "CANCELLED"})
      /\ (k.gate = "DISPUTE_ESCALATION" => d.status \in {"ESCALATED", "CANCELLED"})
  BY <1>1, <1>2, <1>5 DEF OpenGateCalls, TargetStatus, MayOpen
<1>10. d.status # "COMMS_DRAFTED"
  BY <1>9 DEF GateTypes
<1>11. d.resolution # "none" => d.status \in {"RESOLVED", "CLOSED", "CANCELLED"}
  BY <1>2, <1>5 DEF Orderly, TargetStatus
<1>12. Approvals(d, "DISPUTE_ESCALATION") = Approvals(c, "DISPUTE_ESCALATION")
  BY <1>3, <1>4 DEF Approvals
<1> HIDE DEF d, n, g
<1> QED BY <1>2, <1>5, <1>7, <1>8, <1>9, <1>10, <1>11, <1>12 DEF Orderly, HasOpenGate, d

LEMMA ClosingKeepsOrder ==
  ASSUME NEW c \in Case, Orderly(c), NEW k \in HandlerCalls, k.op = "closeGate", Allowed(c, k)
  PROVE  /\ Orderly(Result(c, k))
         /\ PendingGates(Result(c, k), GateTypes) = {}
<1> DEFINE d == Result(c, k)
           n == Len(c.gates)
<1>1. k \in CloseGateCalls /\ k \in Calls
  BY CallKinds DEF HandlerCalls
<1>2. /\ n \in Nat /\ n >= 1 /\ DOMAIN c.gates = 1 .. n
      /\ c.gates[n] = [type |-> k.gate, status |-> "pending"]
      /\ DOMAIN d.gates = 1 .. n
      /\ d.gates[n] = [type |-> k.gate, status |-> k.verdict]
      /\ \A i \in 1 .. n - 1 : d.gates[i] = c.gates[i]
      /\ k.verdict # "pending"
  BY <1>1, ClosingDecidesLast DEF Orderly
<1>3. /\ d.status = TargetStatus(c, k.target)
      /\ d.loops = IF k.target = "AWAITING_CLARIFICATION" THEN c.loops + 1 ELSE c.loops
      /\ d.resolution = WrittenResolution(c, k.resolution)
  BY <1>1, ResultFields
<1>4. \A i \in 1 .. n : d.gates[i].status # "pending"
  BY <1>2 DEF Orderly, GatesInOrder
<1>5. \A types : PendingGates(d, types) = {}
  BY <1>2, <1>4 DEF PendingGates
<1>6. GatesInOrder(d)
  <2> SUFFICES ASSUME NEW i \in 1 .. n, NEW j \in 1 .. n, i < j,
                      d.gates[j].type = "PRE_SEND_REVIEW"
               PROVE  d.gates[i] = [type |-> "PRE_SEND_REVIEW", status |-> "reassigned"]
    BY <1>2, <1>4 DEF GatesInOrder
  <2>1. c.gates[j].type = d.gates[j].type
    BY <1>2
  <2>2. i \in 1 .. n - 1
    BY <1>2
  <2> QED BY <1>2, <2>1, <2>2 DEF Orderly, GatesInOrder
<1>7. k.gate = "DISPUTE_ESCALATION" => c.status \in {"ESCALATED", "CANCELLED"}
  <2>1. k.gate = "DISPUTE_ESCALATION" => n \in PendingGates(c, {"DISPUTE_ESCALATION"})
    BY <1>2 DEF PendingGates
  <2> QED BY <2>1 DEF Orderly, HasOpenGate
<1>8. d.status # "COMMS_DRAFTED"
  <2>1. c.status # "COMMS_DRAFTED"
    BY <1>2 DEF Orderly
  <2> QED BY <1>1, <1>3, <2>1 DEF TargetStatus, CloseGateCalls
<1>9. CASE k.target = "none"
  <2>1. d.status = c.status /\ d.resolution = c.resolution /\ d.loops = c.loops
    BY <1>1, <1>3, <1>9 DEF TargetStatus, WrittenResolution, CloseGateCalls
  <2>2. ~(k.gate = "DISPUTE_ESCALATION" /\ k.verdict = "approved")
    BY <1>9 DEF HandlerCalls
  <2>3. Approvals(d, "DISPUTE_ESCALATION") = Approvals(c, "DISPUTE_ESCALATION")
    BY <1>2, <2>2 DEF Approvals
  <2> HIDE DEF d, n
  <2> QED BY <1>5, <1>6, <1>8, <2>1, <2>3 DEF Orderly, HasOpenGate, d
<1>10. CASE k.target # "none"
  <2>1. k.gate = "DISPUTE_ESCALATION" /\ k.verdict = "approved"
    BY <1>10 DEF HandlerCalls
  <2>2. c.status = "ESCALATED" /\ c.resolution = "none"
    <3>1. MayTransition(c, k.target, Context(k.human, FALSE))
      BY <1>1, <1>10 DEF Allowed, CloseGateAllowed
    <3> QED BY <1>7, <2>1, <3>1, LegalEdges DEF Orderly, TerminalStatuses
  <2>3. \/ k.target = "RESOLVED" /\ k.resolution \in {"settled", "legal"}
        \/ k.target = "AWAITING_CLARIFICATION" /\ k.resolution = "none"
    BY <1>1, <1>10 DEF CloseGateCalls
  <2>4. /\ Approvals(d, "DISPUTE_ESCALATION") = Approvals(c, "DISPUTE_ESCALATION") \cup {n}
        /\ n \notin Approvals(c, "DISPUTE_ESCALATION")
    BY <1>2, <2>1 DEF Approvals
  <2>5. /\ Cardinality(Approvals(d, "DISPUTE_ESCALATION"))
             = Cardinality(Approvals(c, "DISPUTE_ESCALATION")) + 1
        /\ Cardinality(Approvals(c, "DISPUTE_ESCALATION")) \in Nat
    BY <2>4, ApprovalsAreFinite, OneMoreApproval
  <2>6. Cardinality(Approvals(c, "DISPUTE_ESCALATION")) = c.loops /\ c.loops \in Nat
    BY <2>2, <2>5 DEF Orderly, Case
  <2>7. /\ d.resolution # "none" => d.status = "RESOLVED"
        /\ c.loops + 1 = d.loops + (IF d.resolution \in {"settled", "legal"} THEN 1 ELSE 0)
    BY <1>3, <2>2, <2>3, <2>6 DEF TargetStatus, WrittenResolution
  <2> HIDE DEF d, n
  <2> QED BY <1>5, <1>6, <1>8, <2>5, <2>6, <2>7 DEF Orderly, HasOpenGate, d
<1> QED BY <1>5, <1>9, <1>10

\* No operation that a handler makes puts a case in disorder.
LEMMA OrderIsKept ==
  ASSUME NEW c \in Case, Orderly(c), NEW k \in HandlerCalls \cup Attempts, Allowed(c, k),
         k.op = "openGate" /\ k.target = "none" => MayOpen(c, k.gate),
         k \in Attempts => c.status = "AGREED"
  PROVE  Orderly(Result(c, k))
<1>1. CASE k.op = "transition"
  BY <1>1, TransitionKeepsOrder
<1>2. CASE k.op = "openGate"
  BY <1>2, OpeningKeepsOrder, AttemptCalls
<1>3. CASE k.op = "closeGate"
  BY <1>3, ClosingKeepsOrder, AttemptCalls
<1>4. CASE k.op \notin {"transition", "openGate", "closeGate"}
  <2> DEFINE d == Result(c, k)
  <2>1. k \in Calls
    BY <1>4, AttemptCalls DEF HandlerCalls
  <2>2. /\ d.gates = c.gates /\ d.loops = c.loops /\ d.resolution = c.resolution
        /\ d.status \in {c.status, "CANCELLED"}
    BY <1>4, <2>1, ResultFields
  <2>3. /\ \A types : PendingGates(d, types) = PendingGates(c, types)
        /\ GatesInOrder(d)
        /\ Approvals(d, "DISPUTE_ESCALATION") = Approvals(c, "DISPUTE_ESCALATION")
    BY <2>2 DEF PendingGates, Approvals, Orderly, GatesInOrder
  <2> HIDE DEF d
  <2> QED BY <2>2, <2>3 DEF Orderly, HasOpenGate, d
<1> QED BY <1>1, <1>2, <1>3, <1>4

----------------------------------------------------------------------------
(* What single operations leave alone *)

\* A resolution that is on file stays, and nothing but a closing move closes.
LEMMA ResolutionStays ==
  ASSUME NEW c \in Case, Orderly(c), NEW k \in HandlerCalls \cup Attempts, Allowed(c, k)
  PROVE  /\ c.resolution # "none" => Result(c, k).resolution = c.resolution
         /\ Result(c, k).status = "CLOSED" /\ c.status # "CLOSED" =>
              k \in HandlerCalls /\ k.op = "transition" /\ k.target = "CLOSED"
<1>1. k \in Calls
  BY AttemptCalls DEF HandlerCalls, Calls
<1>2. CASE k.op = "transition"
  <2>1. k \in TransitionCalls /\ MayTransition(c, k.target, Context(k.human, k.eligible))
    BY <1>1, <1>2, CallKinds DEF Allowed, TransitionAllowed
  <2>2. c.resolution # "none" => k.target # "RESOLVED"
    BY <2>1, LegalEdges DEF Orderly, TerminalStatuses
  <2>3. k.target # "RESOLVED" => k.resolution = "none"
    BY <2>1 DEF TransitionCalls, TransitionCall
  <2> QED BY <1>1, <1>2, <2>2, <2>3, ResultFields, AttemptCalls DEF WrittenResolution
<1>3. CASE k.op = "closeGate"
  <2>1. k \in CloseGateCalls
    BY <1>1, <1>3, CallKinds
  <2>2. k.target \in {"none", "RESOLVED", "AWAITING_CLARIFICATION"}
        /\ (k.target # "RESOLVED" => k.resolution = "none")
    BY <2>1 DEF CloseGateCalls
  <2>3. k.target # "none" => MayTransition(c, k.target, Context(k.human, FALSE))
    BY <1>3 DEF Allowed, CloseGateAllowed
  <2>4. c.resolution # "none" => k.target = "none"
    BY <2>2, <2>3, LegalEdges DEF Orderly, TerminalStatuses
  <2> QED BY <1>1, <1>3, <2>2, <2>4, ResultFields DEF WrittenResolution, TargetStatus
<1>4. CASE k.op = "openGate"
  <2>1. k.target # "CLOSED"
    BY <1>1, <1>4, CallKinds DEF OpenGateCalls
  <2> QED BY <1>1, <1>4, <2>1, ResultFields DEF TargetStatus
<1>5. CASE k.op \notin {"transition", "closeGate", "openGate"}
  BY <1>1, <1>5, ResultFields
<1> QED BY <1>2, <1>3, <1>4, <1>5

\* Where a gate of the dispute is about to be opened, only such an opening changes that.
LEMMA MayOpenStays ==
  ASSUME NEW c \in Case, Orderly(c), NEW k \in HandlerCalls \cup Attempts, Allowed(c, k),
         k \in Attempts => c.status = "AGREED",
         MayOpen(c, "DISPUTE_ESCALATION"), ~(k.op = "openGate" /\ k.target = "none")
  PROVE  MayOpen(Result(c, k), "DISPUTE_ESCALATION")
<1>1. k \in Calls
  BY AttemptCalls DEF HandlerCalls, Calls
<1>2. c.status \in {"ESCALATED", "CANCELLED"} /\ PendingGates(c, GateTypes) = {}
  BY DEF MayOpen
<1>3. k.op # "openGate"
  <2>1. SUFFICES ASSUME k.op = "openGate" PROVE FALSE
    OBVIOUS
  <2> QED BY <1>2, <2>1, OpeningKeepsOrder, AttemptCalls
<1>4. k.op # "closeGate"
  <2>1. SUFFICES ASSUME k.op = "closeGate" PROVE FALSE
    OBVIOUS
  <2>2. k.gate \in GateTypes
    BY <1>1, <2>1, CallKinds DEF CloseGateCalls, GateTypes
  <2> QED BY <1>2, <2>1, <2>2 DEF Allowed, CloseGateAllowed, GateActionable, HasOpenGate,
                                  PendingGates
<1>5. k.op # "transition"
  <2>1. SUFFICES ASSUME k.op = "transition" PROVE FALSE
    OBVIOUS
  <2>2. k \in TransitionCalls /\ MayTransition(c, k.target, Context(k.human, k.eligible))
    BY <1>1, <2>1, CallKinds DEF Allowed, TransitionAllowed
  <2>3. k.target \notin {"CANCELLED", "AWAITING_CLARIFICATION"}
    BY <2>2 DEF TransitionCalls, TransitionCall
  <2>4. k.target = "RESOLVED" => c.status = "AGREED"
    BY <2>1 DEF HandlerCalls
  <2> QED BY <1>2, <2>2, <2>3, <2>4, LegalEdges DEF TerminalStatuses
<1>6. Result(c, k).gates = c.gates /\ Result(c, k).status \in {c.status, "CANCELLED"}
  BY <1>1, <1>3, <1>4, <1>5, ResultFields
<1> QED BY <1>2, <1>6 DEF MayOpen, PendingGates

\* After a reassignment a gate of the same type may be opened.
LEMMA ReassignedMayOpen ==
  ASSUME NEW c \in Case, Orderly(c), NEW g \in GateTypes,
         Close(g, "reassigned", "none", "none") \in HandlerCalls,
         Allowed(c, Close(g, "reassigned", "none", "none"))
  PROVE  LET d == Result(c, Close(g, "reassigned", "none", "none"))
         IN  d.gates # << >> /\ MayOpen(d, d.gates[Len(d.gates)].type)
<1> DEFINE k == Close(g, "reassigned", "none", "none")
           d == Result(c, k)
           n == Len(c.gates)
<1>1. k.op = "closeGate" /\ k.gate = g /\ k.verdict = "reassigned" /\ k.target = "none"
  BY DEF Close
<1>2. k \in CloseGateCalls /\ k \in Calls
  BY <1>1, CallKinds DEF HandlerCalls
<1>3. /\ n \in Nat /\ n >= 1 /\ DOMAIN c.gates = 1 .. n
      /\ c.gates[n] = [type |-> g, status |-> "pending"]
      /\ d.gates \in Seq(GateRecord) /\ Len(d.gates) = n
      /\ d.gates[n] = [type |-> g, status |-> "reassigned"]
  BY <1>1, <1>2, ClosingDecidesLast DEF Orderly
<1>4. d.status = c.status
  BY <1>1, <1>2, ResultFields DEF TargetStatus
<1>5. PendingGates(d, GateTypes) = {}
  BY <1>1, ClosingKeepsOrder
<1>6. n \in PendingGates(c, {g})
  BY <1>3 DEF PendingGates
<1>7. /\ g = "PRE_SEND_REVIEW" => c.status \in {"PENDING_ANALYST_APPROVAL", "CANCELLED"}
      /\ g = "DISPUTE_ESCALATION" => c.status \in {"ESCALATED", "CANCELLED"}
  BY <1>6 DEF Orderly, HasOpenGate
<1> HIDE DEF k, d, n
<1>8. d.gates # << >>
  BY <1>3
<1>9. MayOpen(d, g)
  BY <1>3, <1>4, <1>5, <1>7, <1>8 DEF MayOpen
<1> QED BY <1>3, <1>8, <1>9 DEF d, k

\* After an escalation the gate of the dispute may be opened.
LEMMA EscalatedMayOpen ==
  ASSUME NEW c \in Case, Orderly(c), Move("ESCALATED", FALSE) \in HandlerCalls,
         Allowed(c, Move("ESCALATED", FALSE))
  PROVE  /\ MayOpen(Result(c, Move("ESCALATED", FALSE)), "DISPUTE_ESCALATION")
         /\ ~MayOpen(c, "DISPUTE_ESCALATION")
<1> DEFINE k == Move("ESCALATED", FALSE)
<1>1. k.op = "transition" /\ k.target = "ESCALATED"
  BY DEF Move
<1>2. Result(c, k).gates = c.gates /\ Result(c, k).status = "ESCALATED"
  BY <1>1, ResultFields DEF HandlerCalls
<1>3. k \notin Attempts
  BY <1>1, AttemptCalls
<1>4. PendingGates(c, GateTypes) = {}
  BY <1>1, <1>3, MovesHaveNoOpenGate
<1>5. MayTransition(c, "ESCALATED", Context(k.human, k.eligible))
  BY <1>1 DEF Allowed, TransitionAllowed
<1>6. c.status \notin {"ESCALATED", "CANCELLED"}
  BY <1>5, LegalEdges DEF TerminalStatuses
<1> QED BY <1>2, <1>4, <1>6 DEF MayOpen, PendingGates

\* An approval at gate 1 is the first one.
LEMMA ApprovalIsFirst ==
  ASSUME NEW c \in Case, Orderly(c),
         Close("PRE_SEND_REVIEW", "approved", "none", "none") \in HandlerCalls,
         Allowed(c, Close("PRE_SEND_REVIEW", "approved", "none", "none"))
  PROVE  /\ ~HasApprovedGate(c, "PRE_SEND_REVIEW")
         /\ HasApprovedGate(Result(c, Close("PRE_SEND_REVIEW", "approved", "none", "none")),
                            "PRE_SEND_REVIEW")
<1> DEFINE k == Close("PRE_SEND_REVIEW", "approved", "none", "none")
           n == Len(c.gates)
<1>1. k.op = "closeGate" /\ k.gate = "PRE_SEND_REVIEW" /\ k.verdict = "approved"
  BY DEF Close
<1>2. k \in CloseGateCalls
  BY <1>1, CallKinds DEF HandlerCalls
<1>3. /\ n \in Nat /\ n >= 1 /\ Result(c, k).gates \in Seq(GateRecord)
      /\ Len(Result(c, k).gates) = n
      /\ Result(c, k).gates[n] = [type |-> "PRE_SEND_REVIEW", status |-> "approved"]
  BY <1>1, <1>2, ClosingDecidesLast DEF Orderly
<1>4. HasOpenGate(c, {"PRE_SEND_REVIEW"})
  BY <1>1 DEF Allowed, CloseGateAllowed, GateActionable
<1>5. n \in DOMAIN Result(c, k).gates
  BY <1>3
<1> QED BY <1>3, <1>4, <1>5, OpenGateIsUnapproved DEF Orderly, HasApprovedGate

----------------------------------------------------------------------------
(* Handlers as sequences of steps *)

LEMMA UnledLeads ==
  ASSUME NEW s, NEW t, ~Led(t)
  PROVE  Leads(s, t)
BY DEF Led, Leads

LEMMA OnlyWritesLead ==
  ASSUME NEW s, NEW t, Leads(s, t), s.do # "write"
  PROVE  ~Led(t)
<1>1. \A k : s # Write(k)
  BY DEF Write
<1>2. t.do \notin {"open_gate2", "reopen", "send", "attempt"}
  BY <1>1, Zenon DEF Leads
<1>3. ~OpensGate(t)
  BY DEF Leads
<1> QED BY <1>2, <1>3 DEF Led

LEMMA GoodGrows ==
  ASSUME NEW steps, NEW c, NEW d, NEW m \in Nat, NEW n \in Nat, Good(steps, c, m), m <= n,
         Settled(c.resolution) => Settled(d.resolution)
  PROVE  Good(steps, d, n)
<1>1. \A s : Justified(s, c, m) => Justified(s, d, n)
  BY DEF Justified
<1> QED BY <1>1 DEF Good

LEMMA GoodEmpty ==
  ASSUME NEW c, NEW n
  PROVE  Good(<< >>, c, n)
BY DEF Good, Chained

LEMMA GoodStep ==
  ASSUME NEW s \in HandlerSteps, NEW c, NEW n, Justified(s, c, n)
  PROVE  Good(<< s >>, c, n) /\ << s >> # << >> /\ << s >>[1] = s /\ << s >>[Len(<< s >>)] = s
BY DEF Good, Chained

\* Two lists of steps one after the other.
LEMMA GoodJoin ==
  ASSUME NEW a, NEW b, NEW c, NEW n, Good(a, c, n), Good(b, c, n),
         a # << >> /\ b # << >> => Leads(a[Len(a)], b[1])
  PROVE  /\ Good(a \o b, c, n)
         /\ a # << >> => a \o b # << >> /\ (a \o b)[1] = a[1]
         /\ b # << >> => a \o b # << >> /\ (a \o b)[Len(a \o b)] = b[Len(b)]
<1>1. a \in Seq(HandlerSteps) /\ b \in Seq(HandlerSteps)
  BY DEF Good
<1>2. /\ a \o b \in Seq(HandlerSteps) /\ Len(a \o b) = Len(a) + Len(b)
      /\ \A i \in 1 .. Len(a) : (a \o b)[i] = a[i]
      /\ \A i \in 1 .. Len(b) : (a \o b)[Len(a) + i] = b[i]
      /\ Len(a) \in Nat /\ Len(b) \in Nat
      /\ a # << >> => Len(a) > 0
      /\ b # << >> => Len(b) > 0
  BY <1>1
<1>3. Chained(a \o b)
  <2> SUFFICES ASSUME NEW i \in 1 .. Len(a \o b) - 1
               PROVE  Leads((a \o b)[i], (a \o b)[i + 1])
    BY DEF Chained
  <2>1. CASE i \in 1 .. Len(a) - 1
    BY <1>2, <2>1 DEF Good, Chained
  <2>2. CASE i = Len(a)
    <3>1. a # << >> /\ b # << >>
      BY <1>2, <2>2
    <3>2. (a \o b)[i] = a[Len(a)] /\ (a \o b)[i + 1] = b[1]
      BY <1>2, <2>2
    <3> QED BY <3>1, <3>2
  <2>3. CASE i > Len(a)
    <3>1. PICK j \in 1 .. Len(b) - 1 : i = Len(a) + j
      <4>1. i - Len(a) \in 1 .. Len(b) - 1 /\ i = Len(a) + (i - Len(a))
        BY <1>2, <2>3
      <4> QED BY <4>1
    <3>2. (a \o b)[i] = b[j] /\ (a \o b)[i + 1] = b[j + 1]
      BY <1>2, <3>1
    <3> QED BY <3>2 DEF Good, Chained
  <2> QED BY <1>2, <2>1, <2>2, <2>3
<1>4. \A i \in DOMAIN (a \o b) : Justified((a \o b)[i], c, n)
  <2> SUFFICES ASSUME NEW i \in 1 .. Len(a) + Len(b)
               PROVE  Justified((a \o b)[i], c, n)
    BY <1>2
  <2>1. CASE i \in 1 .. Len(a)
    BY <1>1, <1>2, <2>1 DEF Good
  <2>2. CASE i > Len(a)
    <3>1. i - Len(a) \in 1 .. Len(b) /\ i = Len(a) + (i - Len(a))
      BY <1>2, <2>2
    <3>2. (a \o b)[i] = b[i - Len(a)]
      BY <1>2, <3>1
    <3> QED BY <1>1, <3>1, <3>2 DEF Good
  <2> QED BY <1>2, <2>1, <2>2
<1> QED BY <1>2, <1>3, <1>4 DEF Good

LEMMA GoodTail ==
  ASSUME NEW steps, NEW c, NEW n, Good(steps, c, n), steps # << >>
  PROVE  /\ Good(Tail(steps), c, n)
         /\ steps[1] \in HandlerSteps /\ Head(steps) = steps[1] /\ Justified(steps[1], c, n)
         /\ Tail(steps) # << >> => Leads(steps[1], Tail(steps)[1])
<1>1. /\ steps \in Seq(HandlerSteps) /\ Len(steps) \in Nat /\ Len(steps) > 0
      /\ Tail(steps) \in Seq(HandlerSteps) /\ Len(Tail(steps)) = Len(steps) - 1
      /\ \A i \in 1 .. Len(Tail(steps)) : Tail(steps)[i] = steps[i + 1]
      /\ DOMAIN Tail(steps) = 1 .. Len(Tail(steps)) /\ DOMAIN steps = 1 .. Len(steps)
      /\ Tail(steps) # << >> => Len(Tail(steps)) > 0
  BY DEF Good
<1>2. Chained(Tail(steps))
  BY <1>1 DEF Good, Chained
<1>3. \A i \in DOMAIN Tail(steps) : Justified(Tail(steps)[i], c, n)
  BY <1>1 DEF Good
<1>4. Tail(steps) # << >> => Leads(steps[1], Tail(steps)[1])
  BY <1>1 DEF Good, Chained
<1>5. Head(steps) = steps[1] /\ steps[1] \in HandlerSteps /\ Justified(steps[1], c, n)
  BY <1>1 DEF Good
<1> QED BY <1>1, <1>2, <1>3, <1>4, <1>5 DEF Good

\* Steps in the place of a first step that is no write.
LEMMA GoodPush ==
  ASSUME NEW steps, NEW t, NEW c, NEW n, Good(steps, c, n), steps # << >>,
         steps[1].do # "write", Good(t, c, n)
  PROVE  LET new == t \o Tail(steps)
         IN  /\ Good(new, c, n)
             /\ t # << >> => new[1] = t[1]
             /\ t = << >> /\ new # << >> => ~Led(new[1])
<1> DEFINE rest == Tail(steps)
<1>1. Good(rest, c, n) /\ (rest # << >> => Leads(steps[1], rest[1]))
  BY GoodTail
<1>2. rest # << >> => ~Led(rest[1])
  BY <1>1, OnlyWritesLead
<1>3. rest # << >> => Leads(t[Len(t)], rest[1])
  BY <1>2, UnledLeads
<1>4. rest \in Seq(HandlerSteps)
  BY <1>1 DEF Good
<1>5. t = << >> => t \o rest = rest
  BY <1>4
<1> HIDE DEF rest
<1> QED BY <1>1, <1>2, <1>3, <1>5, GoodJoin DEF rest

\* The steps of one operation.
LEMMA GoodOperation ==
  ASSUME NEW k \in HandlerCalls, NEW c, NEW n,
         k.op = "transition" /\ k.target = "CLOSED" => n > 0
  PROVE  LET s == Operation(k)
         IN  /\ Good(s, c, n) /\ s # << >>
             /\ k.op # "openGate" => ~Led(s[1]) /\ s[Len(s)] = Write(k)
             /\ k.op = "openGate" => s[1] = Write(k) /\ ~Led(s[Len(s)])
<1> DEFINE s == Operation(k)
<1>1. Write(k) \in HandlerSteps /\ Cancel(k) \in HandlerSteps
  BY DEF HandlerSteps, Write, Cancel
<1>2. Justified(Write(k), c, n) /\ Justified(Cancel(k), c, n)
  BY DEF Justified, Closes, Write, Cancel
<1>3. k.op # "openGate" => ~Led(Write(k))
  BY DEF Led, OpensGate, Write
<1>4. ~Led(Cancel(k))
  BY DEF Led, OpensGate, Cancel
<1>5. CASE k.op \in {"closeGate", "kill"}
  <2>1. /\ s \in Seq(HandlerSteps) /\ s # << >> /\ Len(s) = 2
        /\ s[1] = Cancel(k) /\ s[2] = Write(k)
    BY <1>1, <1>5 DEF Operation, CancelsTimers
  <2>2. Chained(s)
    BY <1>3, <1>5, <2>1, UnledLeads DEF Chained
  <2>3. \A i \in DOMAIN s : Justified(s[i], c, n)
    BY <1>2, <2>1
  <2> QED BY <1>4, <1>5, <2>1, <2>2, <2>3 DEF Good
<1>6. CASE k.op = "openGate"
  <2> DEFINE arm == Arm(GateTimers(k.gate))
  <2>1. arm \in HandlerSteps /\ ~Led(arm) /\ Justified(arm, c, n)
    BY DEF HandlerSteps, Arm, TimerKinds, AllGateTimers, GateTimers, GateTypes, Led, OpensGate,
           Justified, Closes
  <2>2. /\ s \in Seq(HandlerSteps) /\ s # << >> /\ Len(s) = 2
        /\ s[1] = Write(k) /\ s[2] = arm
    BY <1>1, <1>6, <2>1 DEF Operation, CancelsTimers
  <2> HIDE DEF arm
  <2>3. Chained(s)
    BY <2>1, <2>2, UnledLeads DEF Chained
  <2>4. \A i \in DOMAIN s : Justified(s[i], c, n)
    BY <1>2, <2>1, <2>2
  <2> QED BY <1>6, <2>1, <2>2, <2>3, <2>4 DEF Good
<1>7. CASE k.op \notin {"closeGate", "kill", "openGate"}
  <2>1. s \in Seq(HandlerSteps) /\ s # << >> /\ Len(s) = 1 /\ s[1] = Write(k)
    BY <1>1, <1>7 DEF Operation, CancelsTimers
  <2>2. Chained(s) /\ \A i \in DOMAIN s : Justified(s[i], c, n)
    BY <1>2, <2>1 DEF Chained
  <2> QED BY <1>3, <1>7, <2>1, <2>2 DEF Good
<1> QED BY <1>5, <1>6, <1>7

\* Steps that may come first, or after any others.
Proper(steps, c, bookings) ==
  Good(steps, c, bookings) /\ (steps # << >> => ~Led(steps[1]))

LEMMA ProperOperation ==
  ASSUME NEW k \in HandlerCalls, NEW c, NEW n,
         k.op = "transition" /\ k.target = "CLOSED" => n > 0,
         k.op = "openGate" => k.target # "none"
  PROVE  /\ Proper(Operation(k), c, n) /\ Operation(k) # << >>
         /\ k.op # "openGate" => Operation(k)[Len(Operation(k))] = Write(k)
<1>1. k.op = "openGate" => ~Led(Write(k))
  BY DEF Led, OpensGate, Write
<1> QED BY <1>1, GoodOperation DEF Proper

LEMMA ProperStep ==
  ASSUME NEW s \in HandlerSteps, NEW c, NEW n, Justified(s, c, n), ~Led(s)
  PROVE  Proper(<< s >>, c, n)
BY GoodStep DEF Proper

LEMMA ProperEmpty ==
  ASSUME NEW c, NEW n
  PROVE  Proper(<< >>, c, n)
BY GoodEmpty DEF Proper

LEMMA ProperJoin ==
  ASSUME NEW a, NEW b, NEW c, NEW n, Proper(a, c, n), Proper(b, c, n)
  PROVE  /\ Proper(a \o b, c, n)
         /\ b # << >> => a \o b # << >> /\ (a \o b)[Len(a \o b)] = b[Len(b)]
<1>1. a # << >> /\ b # << >> => Leads(a[Len(a)], b[1])
  BY UnledLeads DEF Proper
<1>2. a \in Seq(HandlerSteps) /\ b \in Seq(HandlerSteps)
  BY DEF Proper, Good
<1>3. a = << >> => a \o b = b
  BY <1>2
<1>4. /\ Good(a \o b, c, n)
      /\ a # << >> => (a \o b)[1] = a[1]
      /\ b # << >> => a \o b # << >> /\ (a \o b)[Len(a \o b)] = b[Len(b)]
  BY <1>1, GoodJoin DEF Proper
<1> QED BY <1>3, <1>4 DEF Proper

\* A step that its predecessor leads to.
LEMMA ProperLed ==
  ASSUME NEW a, NEW b, NEW c, NEW n, Proper(a, c, n), a # << >>, Good(b, c, n), b # << >>,
         Leads(a[Len(a)], b[1])
  PROVE  Proper(a \o b, c, n)
<1>1. /\ Good(a \o b, c, n)
      /\ (a \o b)[1] = a[1]
  BY GoodJoin DEF Proper
<1> QED BY <1>1 DEF Proper

LEMMA StepKinds ==
  /\ \A kind \in PlainSteps : Step(kind) \in HandlerSteps /\ Step(kind).do = kind
  /\ \A kind \in MessageSteps, m \in Replies :
       MessageStep(kind, m) \in HandlerSteps /\ MessageStep(kind, m).do = kind
  /\ \A kinds \in SUBSET TimerKinds : Arm(kinds) \in HandlerSteps /\ Arm(kinds).do = "arm"
<1>1. \A kind \in PlainSteps : Step(kind) \in HandlerSteps /\ Step(kind).do = kind
  BY DEF HandlerSteps, Step
<1>2. \A kind \in MessageSteps, m \in Replies :
       MessageStep(kind, m) \in HandlerSteps /\ MessageStep(kind, m).do = kind
  BY DEF HandlerSteps, MessageStep
<1>3. \A kinds \in SUBSET TimerKinds : Arm(kinds) \in HandlerSteps /\ Arm(kinds).do = "arm"
  BY DEF HandlerSteps, Arm
<1> QED BY <1>1, <1>2, <1>3

\* The steps that need neither a predecessor nor a justification.
FreeSteps ==
  MessageSteps \cup {"arm", "write_booking_record", "verify_awaiting", "escalate", "mark_fired",
                     "draft_clarification", "send_and_record", "verify_resolved"}

LEMMA ProperFree ==
  ASSUME NEW s \in HandlerSteps, s.do \in FreeSteps, NEW c, NEW n
  PROVE  Proper(<< s >>, c, n) /\ Justified(s, c, n) /\ ~Led(s)
<1>1. Justified(s, c, n) /\ ~Led(s)
  BY DEF FreeSteps, MessageSteps, Justified, Closes, Led, OpensGate
<1> QED BY <1>1, ProperStep

----------------------------------------------------------------------------
(* The handlers of the code *)

LEMMA HandlerCallsMade ==
  /\ \A d \in {"keep", "agent", "edited"} : Update(d) \in HandlerCalls
  /\ \A m \in Replies \cup Receipts : Record(m) \in HandlerCalls
  /\ \A t \in {"AWAITING_RESPONSE", "RESPONSE_RECEIVED", "AGREED", "DISPUTED", "ESCALATED"} :
       Move(t, FALSE) \in HandlerCalls
  /\ Move("SENT", TRUE) \in HandlerCalls
  /\ Open("PRE_SEND_REVIEW", "PENDING_ANALYST_APPROVAL") \in HandlerCalls
  /\ \A g \in GateTypes : Open(g, "none") \in HandlerCalls
  /\ \A g \in GateTypes : Close(g, "reassigned", "none", "none") \in HandlerCalls
  /\ \A v \in {"approved", "rejected"} :
       Close("PRE_SEND_REVIEW", v, "none", "none") \in HandlerCalls
  /\ \A r \in {"settled", "legal"} :
       Close("DISPUTE_ESCALATION", "approved", "RESOLVED", r) \in HandlerCalls
  /\ Close("DISPUTE_ESCALATION", "approved", "AWAITING_CLARIFICATION", "none") \in HandlerCalls
  /\ Kill \in HandlerCalls
  /\ \A o \in {"raiseTask", "resolveTask"} :
       [op |-> o, kind |-> "BOOKING_WRITE_FAILED"] \in HandlerCalls
  /\ \A c : \A e \in BOOLEAN : CloseCall(c, e) \in HandlerCalls
<1>1. \A d \in {"keep", "agent", "edited"} : Update(d) \in HandlerCalls
  BY DEF HandlerCalls, Calls, UpdateCalls, Update
<1>2. \A m \in Replies \cup Receipts : Record(m) \in HandlerCalls
  BY MessagesAssumption DEF HandlerCalls, Calls, RecordCalls, Record
<1>3. /\ \A t \in {"AWAITING_RESPONSE", "RESPONSE_RECEIVED", "AGREED", "DISPUTED", "ESCALATED"} :
           Move(t, FALSE) \in HandlerCalls
      /\ Move("SENT", TRUE) \in HandlerCalls
  BY DEF HandlerCalls, Calls, TransitionCalls, TransitionCall, Move
<1>4. /\ Open("PRE_SEND_REVIEW", "PENDING_ANALYST_APPROVAL") \in HandlerCalls
      /\ \A g \in GateTypes : Open(g, "none") \in HandlerCalls
  BY DEF HandlerCalls, Calls, OpenGateCalls, Open, GateTypes
<1>5. /\ \A g \in GateTypes : Close(g, "reassigned", "none", "none") \in HandlerCalls
      /\ \A v \in {"approved", "rejected"} :
           Close("PRE_SEND_REVIEW", v, "none", "none") \in HandlerCalls
  BY DEF HandlerCalls, Calls, CloseGateCalls, Close, GateTypes, GateStatuses
<1>6. /\ \A r \in {"settled", "legal"} :
           Close("DISPUTE_ESCALATION", "approved", "RESOLVED", r) \in HandlerCalls
      /\ Close("DISPUTE_ESCALATION", "approved", "AWAITING_CLARIFICATION", "none") \in HandlerCalls
  BY DEF HandlerCalls, Calls, CloseGateCalls, Close, GateTypes, GateStatuses
<1>7. Kill \in HandlerCalls
  BY DEF HandlerCalls, Calls, KillCalls, Kill
<1>8. \A o \in {"raiseTask", "resolveTask"} :
        [op |-> o, kind |-> "BOOKING_WRITE_FAILED"] \in HandlerCalls
  BY DEF HandlerCalls, Calls, TaskCalls, TaskKinds
<1>9. ASSUME NEW c, NEW e \in BOOLEAN
      PROVE  CloseCall(c, e) \in HandlerCalls
  <2>1. CASE c.resolution \in {"settled", "legal"}
    <3>1. CloseCall(c, e) = Move("CLOSED", TRUE)
      BY <2>1 DEF CloseCall, Move
    <3>2. Move("CLOSED", TRUE) \in HandlerCalls
      BY DEF HandlerCalls, Calls, TransitionCalls, TransitionCall, Move
    <3> QED BY <3>1, <3>2
  <2>2. CASE c.resolution \notin {"settled", "legal"}
    <3>1. CloseCall(c, e) = [op |-> "transition", target |-> "CLOSED", human |-> FALSE,
                             eligible |-> e, resolution |-> "none"]
      <4>1. (c.resolution \in {"settled", "legal"}) = FALSE
        BY <2>2
      <4>2. (e /\ ~(c.resolution \in {"settled", "legal"})) = e
        BY <2>2
      <4> QED BY <4>1, <4>2, Zenon DEF CloseCall
    <3> QED BY <3>1 DEF HandlerCalls, Calls, TransitionCalls, TransitionCall
  <2> QED BY <2>1, <2>2
<1>10. \A c : \A e \in BOOLEAN : CloseCall(c, e) \in HandlerCalls
  BY <1>9
<1> QED BY <1>1, <1>2, <1>3, <1>4, <1>5, <1>6, <1>7, <1>8, <1>10

\* Escalating and opening gate 2, which several nodes end with.
LEMMA EscalationSteps ==
  ASSUME NEW c, NEW n
  PROVE  Proper(Operation(Move("ESCALATED", FALSE)) \o << Step("open_gate2") >>, c, n)
<1> DEFINE k == Move("ESCALATED", FALSE)
           s == Step("open_gate2")
<1>1. k \in HandlerCalls /\ k.op = "transition" /\ k.target = "ESCALATED"
  BY HandlerCallsMade DEF Move
<1>2. s \in HandlerSteps /\ s.do = "open_gate2"
  BY StepKinds DEF PlainSteps
<1>3. Justified(s, c, n) /\ Leads(Write(k), s)
  BY <1>2 DEF Justified, Closes, Leads, OpensGate
<1>4. /\ Proper(Operation(k), c, n) /\ Operation(k) # << >>
      /\ Operation(k)[Len(Operation(k))] = Write(k)
  BY <1>1, ProperOperation
<1>5. Good(<< s >>, c, n) /\ << s >> # << >> /\ << s >>[1] = s
  BY <1>2, <1>3, GoodStep
<1> HIDE DEF k, s
<1>6. Proper(Operation(k) \o << s >>, c, n)
  BY <1>3, <1>4, <1>5, ProperLed
<1> QED BY <1>6 DEF k, s

LEMMA SubmissionSteps ==
  ASSUME NEW c, NEW n
  PROVE  Proper(SubmitForApproval, c, n)
<1> DEFINE u == Update("agent")
           o == Open("PRE_SEND_REVIEW", "PENDING_ANALYST_APPROVAL")
<1>1. u \in HandlerCalls /\ u.op = "update" /\ o \in HandlerCalls
      /\ o.op = "openGate" /\ o.target = "PENDING_ANALYST_APPROVAL"
  BY HandlerCallsMade DEF Update, Open
<1> HIDE DEF u, o
<1>2. Proper(Operation(u), c, n) /\ Proper(Operation(o), c, n)
  BY <1>1, ProperOperation
<1> QED BY <1>2, ProperJoin DEF SubmitForApproval, u, o

LEMMA ApprovalSteps ==
  ASSUME NEW edited \in BOOLEAN, NEW c, NEW n
  PROVE  Proper((IF edited THEN Operation(Update("edited")) ELSE << >>)
                  \o Operation(Close("PRE_SEND_REVIEW", "approved", "none", "none"))
                  \o << Step("send") >>
                  \o Operation(Move("SENT", TRUE))
                  \o Operation(Move("AWAITING_RESPONSE", FALSE))
                  \o << Arm({"COUNTERPARTY_RESPONSE"}) >>, c, n)
<1> DEFINE u == Update("edited")
           k == Close("PRE_SEND_REVIEW", "approved", "none", "none")
           s == Step("send")
           m1 == Move("SENT", TRUE)
           m2 == Move("AWAITING_RESPONSE", FALSE)
           arm == Arm({"COUNTERPARTY_RESPONSE"})
           first == IF edited THEN Operation(u) ELSE << >>
<1>1. /\ u \in HandlerCalls /\ u.op = "update"
      /\ k \in HandlerCalls /\ k.op = "closeGate"
      /\ m1 \in HandlerCalls /\ m1.op = "transition" /\ m1.target = "SENT"
      /\ m2 \in HandlerCalls /\ m2.op = "transition" /\ m2.target = "AWAITING_RESPONSE"
  BY HandlerCallsMade DEF Update, Close, Move
<1>2. s \in HandlerSteps /\ s.do = "send"
  BY StepKinds DEF PlainSteps
<1>3. arm \in HandlerSteps /\ arm.do \in FreeSteps
  BY StepKinds DEF TimerKinds, FreeSteps
<1>4. Justified(s, c, n) /\ Leads(Write(k), s)
  BY <1>2 DEF Justified, Closes, Leads, OpensGate
<1> HIDE DEF u, k, s, m1, m2, arm
<1>5. Proper(first, c, n)
  BY <1>1, ProperOperation, ProperEmpty
<1>6. /\ Proper(Operation(k), c, n) /\ Operation(k) # << >>
      /\ Operation(k)[Len(Operation(k))] = Write(k)
      /\ Proper(Operation(m1), c, n) /\ Proper(Operation(m2), c, n)
  BY <1>1, ProperOperation
<1>7. Good(<< s >>, c, n) /\ << s >> # << >> /\ << s >>[1] = s
  BY <1>2, <1>4, GoodStep
<1>8. Proper(<< arm >>, c, n)
  BY <1>3, ProperFree
<1> HIDE DEF first
<1>9. /\ Proper(first \o Operation(k), c, n) /\ first \o Operation(k) # << >>
      /\ (first \o Operation(k))[Len(first \o Operation(k))] = Write(k)
  BY <1>5, <1>6, ProperJoin
<1>10. Proper(first \o Operation(k) \o << s >>, c, n)
  BY <1>4, <1>7, <1>9, ProperLed
<1>11. Proper(first \o Operation(k) \o << s >> \o Operation(m1) \o Operation(m2) \o << arm >>,
              c, n)
  BY <1>6, <1>8, <1>10, ProperJoin
<1> QED BY <1>11 DEF first, u, k, s, m1, m2, arm

----------------------------------------------------------------------------
(* Steps that leave the case alone *)

\* The gate of the dispute is opened by whoever escalated, at the node made for it;
\* another gate in the place of the one that the same handler closed.
FollowedUp(p, s) ==
  /\ OpensGate(s)
  /\ MayOpen(snap'[p], s.call.gate)
  /\ At(p, "open_gate2") \/ (At(p, "reopen") /\ snap' = snap)

LEMMA LocalStep ==
  ASSUME WorkflowInv, NEW p \in Procs, NEW new, prog' = [prog EXCEPT ![p] = new],
         row' = row, snap' \in {snap, [snap EXCEPT ![p] = row]},
         timers' \in SUBSET TimerKinds, failures' \in 0 .. MaxFailures,
         sent' \in Seq(Drafts \cup Receipts),
         Notices' = Notices \/ (At(p, "send") /\ NoticesApproved'),
         booked' \in Nat, booked <= booked', booked' > 0 => Settled(row.resolution),
         Good(new, row, booked'), new # << >> /\ Led(new[1]) => FollowedUp(p, new[1])
  PROVE  WorkflowInv'
<1>1. /\ prog \in [Procs -> Seq(HandlerSteps)] /\ snap \in [Procs -> Case] /\ row \in Case
      /\ booked \in Nat
  BY DEF WorkflowInv, Types
<1>2. prog'[p] = new /\ \A q \in Procs \ {p} : prog'[q] = prog[q] /\ snap'[q] = snap[q]
  BY <1>1
<1>3. snap'[p] = snap[p] \/ snap'[p] = row
  BY <1>1
<1>4. new \in Seq(HandlerSteps)
  BY DEF Good
<1>5. Types'
  BY <1>1, <1>4 DEF WorkflowInv, Types
<1>6. CopiesAgree'
  <2> SUFFICES ASSUME NEW q \in Procs
               PROVE  /\ snap'[q].version <= row.version
                      /\ snap'[q].version = row.version => snap'[q] = row
    BY DEF CopiesAgree
  <2>1. /\ snap[q].version <= row.version
        /\ snap[q].version = row.version => snap[q] = row
    BY DEF WorkflowInv, CopiesAgree
  <2>2. snap'[q] = snap[q] \/ snap'[q] = row
    BY <1>2, <1>3
  <2>3. row.version \in Nat
    BY <1>1 DEF Case
  <2> QED BY <2>1, <2>2, <2>3
<1>7. Orderly(row)' /\ NoticesApproved' /\ ClosedIsBooked'
  BY <1>1 DEF WorkflowInv, NoticesApproved, ClosedIsBooked, Settled
<1>8. Handlers'
  BY <1>1, <1>2, GoodGrows DEF WorkflowInv, Handlers
<1>9. \A kind \in {"open_gate2", "reopen", "send", "attempt"} : ~At(p, kind)'
  BY <1>2 DEF At, Led, OpensGate, FollowedUp
<1>10. \A q \in Procs \ {p} : \A kind : At(q, kind)' <=> At(q, kind)
  BY <1>2 DEF At
<1>11. ASSUME NEW q \in Procs
       PROVE  Prepared(q)' /\ Holds(q)'
  <2>1. CASE q = p
    BY <1>2, <1>9, <2>1 DEF Prepared, Holds, Led, FollowedUp
  <2>2. CASE q # p
    <3>1. Prepared(q)'
      BY <1>2, <1>10, <2>2 DEF WorkflowInv, Prepared
    <3>2. At(q, "send") => Notices' = Notices
      BY <2>2 DEF WorkflowInv, Alone
    <3> QED BY <1>2, <1>10, <2>2, <3>1, <3>2 DEF WorkflowInv, Holds
  <2> QED BY <2>1, <2>2
<1>12. ASSUME NEW q \in Procs, q # p
       PROVE  ~(AboutToOpen(p)' /\ At(q, "open_gate2"))
  <2>1. AboutToOpen(p)' => FollowedUp(p, new[1])
    BY <1>2, <1>9 DEF AboutToOpen, Led
  <2>2. CASE At(p, "open_gate2")
    BY <1>12, <2>2 DEF WorkflowInv, Alone
  <2>3. CASE At(p, "reopen") /\ snap' = snap
    <3>1. AboutToOpen(p)' => AboutToOpen(p)
      BY <2>3 DEF AboutToOpen
    <3> QED BY <1>12, <3>1 DEF WorkflowInv, Alone
  <2> QED BY <2>1, <2>2, <2>3 DEF FollowedUp
<1>13. \A q \in Procs \ {p} : AboutToOpen(q)' <=> AboutToOpen(q)
  BY <1>2, <1>10 DEF AboutToOpen
<1>14. Alone'
  <2> SUFFICES ASSUME NEW a \in Procs, NEW b \in Procs, a # b
               PROVE  /\ At(a, "send")' => ~At(b, "send")'
                      /\ At(a, "open_gate2")' => ~At(b, "open_gate2")' /\ ~AboutToOpen(b)'
    BY DEF Alone
  <2>1. CASE a = p
    BY <1>9, <2>1
  <2>2. CASE b = p
    BY <1>9, <1>10, <1>12, <2>2
  <2>3. CASE a # p /\ b # p
    BY <1>10, <1>13, <2>3 DEF WorkflowInv, Alone
  <2> QED BY <2>1, <2>2, <2>3
<1> QED BY <1>5, <1>6, <1>7, <1>8, <1>11, <1>14 DEF WorkflowInv

\* What of the state handlers share with the outside a step leaves as it was.
Outside == << timers, sent, booked, failures >>

LEMMA OutsideKept ==
  ASSUME WorkflowInv
  PROVE  /\ timers \in SUBSET TimerKinds /\ sent \in Seq(Drafts \cup Receipts)
         /\ booked \in Nat /\ failures \in 0 .. MaxFailures
         /\ booked > 0 => Settled(row.resolution)
         /\ sent' = sent => Notices' = Notices
BY DEF WorkflowInv, Types, ClosedIsBooked, Settled, Notices

\* The current step, which is no write, gives way to others.
LEMMA PushStep ==
  ASSUME WorkflowInv, NEW p \in Procs, NEW kind, kind # "write", Doing(p, kind),
         NEW new, Then(p, new),
         row' = row, snap' \in {snap, [snap EXCEPT ![p] = row]},
         timers' \in SUBSET TimerKinds, failures' \in 0 .. MaxFailures,
         sent' \in Seq(Drafts \cup Receipts),
         Notices' = Notices \/ (At(p, "send") /\ NoticesApproved'),
         booked' \in Nat, booked <= booked', booked' > 0 => Settled(row.resolution),
         Good(new, row, booked'), new # << >> /\ Led(new[1]) => FollowedUp(p, new[1])
  PROVE  WorkflowInv'
<1>1. prog[p] # << >> /\ Good(prog[p], row, booked) /\ booked \in Nat
  BY DEF Doing, Idle, WorkflowInv, Types, Handlers
<1>2. Head(prog[p]) = prog[p][1] /\ prog[p][1].do # "write"
  BY <1>1, GoodTail DEF Doing
<1>3. Good(prog[p], row, booked')
  BY <1>1, GoodGrows
<1> DEFINE steps == new \o Tail(prog[p])
<1>4. prog' = [prog EXCEPT ![p] = steps]
  BY DEF Then
<1>5. /\ Good(steps, row, booked')
      /\ new # << >> => steps[1] = new[1]
      /\ new = << >> /\ steps # << >> => ~Led(steps[1])
  BY <1>1, <1>2, <1>3, GoodPush
<1> HIDE DEF steps
<1> QED BY <1>4, <1>5, LocalStep

\* An exception breaks the handler off.
LEMMA RaiseStep ==
  ASSUME WorkflowInv, NEW p \in Procs, Raise(p), row' = row, snap' = snap,
         timers' = timers, sent' = sent, booked' = booked, failures' \in 0 .. MaxFailures
  PROVE  WorkflowInv'
<1>1. Good(<< >>, row, booked')
  BY GoodEmpty
<1>2. booked <= booked'
  BY OutsideKept
<1>3. prog' = [prog EXCEPT ![p] = << >>]
  BY DEF Raise
<1> QED BY <1>1, <1>2, <1>3, OutsideKept, LocalStep

LEMMA CallStep ==
  ASSUME WorkflowInv, NEW p \in Procs, NEW steps, Call(p, steps), Proper(steps, row, booked)
  PROVE  WorkflowInv'
<1>1. booked <= booked' /\ booked' = booked
  BY OutsideKept DEF Call
<1> QED BY <1>1, OutsideKept, LocalStep DEF Call, Proper

\* A node reads the case and goes on with steps that may come first.
LEMMA NodeStep ==
  ASSUME WorkflowInv, NEW p \in Procs, NEW kind, kind # "write", NEW new, Node(p, kind, new),
         Good(new, row, booked), new # << >> /\ Led(new[1]) => FollowedUp(p, new[1])
  PROVE  WorkflowInv'
<1>1. booked <= booked' /\ booked' = booked
  BY OutsideKept DEF Node
<1> QED BY <1>1, OutsideKept, PushStep DEF Node

LEMMA ProperNode ==
  ASSUME WorkflowInv, NEW p \in Procs, NEW kind, kind # "write", NEW new, Node(p, kind, new),
         Proper(new, row, booked)
  PROVE  WorkflowInv'
BY NodeStep DEF Proper

\* What the current step of a handler is made of.
LEMMA CurrentStep ==
  ASSUME WorkflowInv, NEW p \in Procs, NEW kind, Doing(p, kind)
  PROVE  /\ Head(prog[p]) = prog[p][1] /\ prog[p] # << >>
         /\ Head(prog[p]) \in HandlerSteps /\ Head(prog[p]).do = kind /\ At(p, kind)
         /\ Justified(Head(prog[p]), row, booked)
         /\ Good(Tail(prog[p]), row, booked)
         /\ Tail(prog[p]) # << >> => Leads(Head(prog[p]), Tail(prog[p])[1])
<1>1. prog[p] # << >> /\ Good(prog[p], row, booked)
  BY DEF Doing, Idle, WorkflowInv, Handlers
<1> QED BY <1>1, GoodTail DEF Doing, At

\* The steps of a handler after its current one.
LEMMA RestOfHandler ==
  ASSUME WorkflowInv, NEW p \in Procs, prog[p] # << >>
  PROVE  /\ prog[p] \in Seq(HandlerSteps) /\ Head(prog[p]) = prog[p][1]
         /\ Tail(prog[p]) \in Seq(HandlerSteps) /\ Len(prog[p]) \in Nat \ {0}
         /\ Len(Tail(prog[p])) = Len(prog[p]) - 1
         /\ DOMAIN prog[p] = 1 .. Len(prog[p])
         /\ DOMAIN Tail(prog[p]) = 1 .. Len(prog[p]) - 1
         /\ \A i \in 1 .. Len(prog[p]) - 1 :
              /\ Tail(prog[p])[i] = prog[p][i + 1]
              /\ i + 1 \in DOMAIN prog[p] \ {1}
<1>1. prog[p] \in Seq(HandlerSteps)
  BY DEF WorkflowInv, Types
<1> QED BY <1>1

\* What is left to do after a step that puts others in its place.
LEMMA PushedSteps ==
  ASSUME WorkflowInv, NEW p \in Procs, NEW kind, Doing(p, kind),
         NEW new \in Seq(HandlerSteps), Then(p, new)
  PROVE  /\ prog[p] # << >> /\ prog[p][1].do = kind /\ prog[p][1] = Head(prog[p])
         /\ 1 \in DOMAIN prog[p]
         /\ \A q \in Procs \ {p} : prog'[q] = prog[q]
         /\ prog'[p] \in Seq(HandlerSteps)
         /\ Len(prog'[p]) = Len(new) + Len(prog[p]) - 1
         /\ \A i \in DOMAIN prog'[p] :
              \/ i \in DOMAIN new /\ prog'[p][i] = new[i]
              \/ \E j \in DOMAIN prog[p] \ {1} : prog'[p][i] = prog[p][j]
         /\ new # << >> => prog'[p][1] = new[1]
         /\ new = << >> => \A i \in DOMAIN prog'[p] :
                             i + 1 \in DOMAIN prog[p] /\ prog'[p][i] = prog[p][i + 1]
<1> DEFINE rest == Tail(prog[p])
           steps == new \o rest
<1>1. prog \in [Procs -> Seq(HandlerSteps)] /\ prog[p] # << >> /\ Head(prog[p]).do = kind
  BY DEF WorkflowInv, Types, Doing, Idle
<1>2. prog' = [prog EXCEPT ![p] = steps]
  BY DEF Then
<1>3. prog'[p] = steps /\ \A q \in Procs \ {p} : prog'[q] = prog[q]
  BY <1>1, <1>2
<1>4. /\ rest \in Seq(HandlerSteps) /\ steps \in Seq(HandlerSteps)
      /\ DOMAIN steps = 1 .. Len(new) + Len(rest) /\ DOMAIN new = 1 .. Len(new)
      /\ Len(steps) = Len(new) + Len(rest)
      /\ Len(new) \in Nat /\ Len(rest) \in Nat
      /\ \A i \in 1 .. Len(new) + Len(rest) :
           steps[i] = IF i <= Len(new) THEN new[i] ELSE rest[i - Len(new)]
  BY <1>1, RestOfHandler
<1>5. ASSUME NEW i \in DOMAIN steps
      PROVE  \/ i \in DOMAIN new /\ steps[i] = new[i]
             \/ \E j \in DOMAIN prog[p] \ {1} : steps[i] = prog[p][j]
  <2>1. CASE i <= Len(new)
    BY <1>4, <2>1
  <2>2. CASE ~(i <= Len(new))
    <3>1. i - Len(new) \in 1 .. Len(prog[p]) - 1 /\ steps[i] = rest[i - Len(new)]
      BY <1>1, <1>4, <2>2, RestOfHandler
    <3> QED BY <1>1, <3>1, RestOfHandler
  <2> QED BY <2>1, <2>2
<1>6. new # << >> => steps[1] = new[1]
  BY <1>4
<1>7. ASSUME new = << >>, NEW i \in DOMAIN steps
      PROVE  i + 1 \in DOMAIN prog[p] /\ steps[i] = prog[p][i + 1]
  <2>1. i \in 1 .. Len(prog[p]) - 1 /\ steps[i] = rest[i]
    BY <1>1, <1>4, <1>7, RestOfHandler
  <2> QED BY <1>1, <2>1, RestOfHandler
<1>8. /\ prog[p][1] = Head(prog[p]) /\ 1 \in DOMAIN prog[p]
      /\ Len(steps) = Len(new) + Len(prog[p]) - 1
  BY <1>1, <1>4, RestOfHandler
<1> HIDE DEF steps
<1> QED BY <1>1, <1>3, <1>4, <1>5, <1>6, <1>7, <1>8

LEMMA PushedEntries ==
  ASSUME WorkflowInv, NEW p \in Procs, NEW kind, Doing(p, kind),
         NEW new \in Seq(HandlerSteps), Then(p, new)
  PROVE  \A i \in DOMAIN prog'[p] :
           \/ i \in DOMAIN new /\ prog'[p][i] = new[i]
           \/ \E j \in DOMAIN prog[p] \ {1} : prog'[p][i] = prog[p][j]
BY PushedSteps

----------------------------------------------------------------------------
(* Steps of the engine *)

LEMMA CancelTimersStep ==
  ASSUME WorkflowInv, NEW p \in Procs, CancelTimers(p)
  PROVE  WorkflowInv'
<1> DEFINE k == Head(prog[p]).call
<1>1. CASE MayCancel(snap[p], k)
  <2>1. Then(p, << >>) /\ timers' \in SUBSET TimerKinds
    BY <1>1, OutsideKept DEF CancelTimers
  <2>2. Good(<< >>, row, booked') /\ booked' = booked /\ booked <= booked'
    BY GoodEmpty, OutsideKept DEF CancelTimers
  <2>3. Doing(p, "cancel") /\ row' = row /\ snap' = snap /\ sent' = sent /\ failures' = failures
    BY DEF CancelTimers
  <2> QED BY <2>1, <2>2, <2>3, OutsideKept, PushStep
<1>2. CASE ~MayCancel(snap[p], k)
  BY <1>2, OutsideKept, RaiseStep DEF CancelTimers
<1> QED BY <1>1, <1>2

LEMMA WriteRaisesStep ==
  ASSUME WorkflowInv, NEW p \in Procs, WriteRaises(p)
  PROVE  WorkflowInv'
BY OutsideKept, RaiseStep DEF WriteRaises

LEMMA BreakOffStep ==
  ASSUME WorkflowInv, NEW p \in Procs, BreakOff(p)
  PROVE  WorkflowInv'
<1>1. failures' \in 0 .. MaxFailures
  BY OutsideKept, MessagesAssumption DEF BreakOff
<1> QED BY <1>1, RaiseStep DEF BreakOff

LEMMA ArmTimersStep ==
  ASSUME WorkflowInv, NEW p \in Procs, ArmTimers(p)
  PROVE  WorkflowInv'
<1>1. Head(prog[p]) \in HandlerSteps /\ Head(prog[p]).do = "arm"
  BY CurrentStep DEF ArmTimers
<1>2. Head(prog[p]).kinds \in SUBSET TimerKinds
  BY <1>1 DEF HandlerSteps, MessageSteps, PlainSteps
<1>3. timers' \in SUBSET TimerKinds
  BY <1>2, OutsideKept DEF ArmTimers
<1>4. Good(<< >>, row, booked') /\ booked' = booked /\ booked <= booked'
  BY GoodEmpty, OutsideKept DEF ArmTimers
<1> QED BY <1>3, <1>4, OutsideKept, PushStep DEF ArmTimers

----------------------------------------------------------------------------
(* Steps that change the case *)

\* What a committed step did, and on which case.
LEMMA Committed ==
  ASSUME WorkflowInv, NEW p \in Procs, NEW kind \in {"write", "attempt"}, CommitCase(p, kind)
  PROVE  LET s == Head(prog[p])
             k == s.call
         IN  /\ s.do = kind /\ snap[p] = row /\ row \in Case /\ Orderly(row)
             /\ k \in HandlerCalls \cup Attempts /\ k \in Calls /\ Allowed(row, k)
             /\ kind = "write" => k \in HandlerCalls
             /\ k \in Attempts => row.status = "AGREED"
             /\ k.op = "openGate" /\ k.target = "none" => OpensGate(s) /\ MayOpen(row, k.gate)
             /\ row' = Result(row, k) /\ row' \in Case /\ row'.version = row.version + 1
             /\ snap' = [snap EXCEPT ![p] = row']
             /\ prog' = [prog EXCEPT ![p] = Tail(prog[p])]
             /\ UNCHANGED Outside
<1> DEFINE s == Head(prog[p])
           k == s.call
<1>1. /\ s = prog[p][1] /\ prog[p] # << >> /\ s \in HandlerSteps /\ s.do = kind
      /\ At(p, kind) /\ Good(Tail(prog[p]), row, booked)
  BY CurrentStep DEF CommitCase
<1>2. snap[p] = row /\ row \in Case /\ Orderly(row)
  BY DEF CommitCase, WorkflowInv, CopiesAgree, Types
<1>3. kind = "write" => k \in HandlerCalls
  BY <1>1 DEF HandlerSteps, MessageSteps, PlainSteps
<1>4. kind = "attempt" => k \in Attempts
  BY <1>1 DEF HandlerSteps, MessageSteps, PlainSteps
<1>5. k \in Calls
  BY <1>3, <1>4, AttemptCalls DEF HandlerCalls, Calls
<1>6. k \in Attempts => row.status = "AGREED"
  <2>1. k \in Attempts => kind = "attempt"
    <3>1. k \in Attempts => k.op = "transition" /\ k.target = "RESOLVED"
      BY AttemptCalls
    <3> QED BY <1>3, <3>1 DEF HandlerCalls
  <2> QED BY <1>1, <1>2, <2>1 DEF WorkflowInv, Prepared
<1>7. k.op = "openGate" /\ k.target = "none" => OpensGate(s) /\ MayOpen(row, k.gate)
  <2>1. k.op = "openGate" => kind = "write"
    BY <1>4, AttemptCalls
  <2> QED BY <1>1, <1>2, <2>1 DEF OpensGate, WorkflowInv, Prepared
<1>8. Allowed(row, k) /\ row' = Result(row, k) /\ snap' = [snap EXCEPT ![p] = row']
      /\ UNCHANGED Outside
  BY <1>2 DEF CommitCase, Outside
<1>9. row' \in Case /\ row'.version = row.version + 1
  BY <1>2, <1>5, <1>8, ResultType
<1>10. prog' = [prog EXCEPT ![p] = Tail(prog[p])]
  <2>1. Tail(prog[p]) \in Seq(HandlerSteps)
    BY <1>1 DEF Good
  <2>2. << >> \o Tail(prog[p]) = Tail(prog[p])
    BY <2>1
  <2>3. prog' = [prog EXCEPT ![p] = << >> \o Tail(prog[p])]
    BY DEF CommitCase, Then
  <2> QED BY <2>2, <2>3
<1> HIDE DEF s, k
<1> QED BY <1>1, <1>2, <1>3, <1>4, <1>5, <1>6, <1>7, <1>8, <1>9, <1>10 DEF s, k

\* What the next step of the same handler relies on.
LEMMA CommitLeads ==
  ASSUME WorkflowInv, NEW p \in Procs, NEW kind \in {"write", "attempt"}, CommitCase(p, kind)
  PROVE  /\ Prepared(p)' /\ Holds(p)'
         /\ At(p, "send")' => ~HasApprovedGate(row, "PRE_SEND_REVIEW")
         /\ At(p, "open_gate2")' => ~MayOpen(row, "DISPUTE_ESCALATION")
         /\ At(p, "reopen")' => HasOpenGate(row, GateTypes)
         /\ prog'[p] # << >> => ~OpensGate(prog'[p][1])
<1> DEFINE s == Head(prog[p])
           k == s.call
           rest == Tail(prog[p])
<1>1. /\ snap[p] = row /\ row \in Case /\ Orderly(row)
      /\ k \in HandlerCalls \cup Attempts /\ k \in Calls /\ Allowed(row, k)
      /\ kind = "write" => k \in HandlerCalls
      /\ row' = Result(row, k)
      /\ snap' = [snap EXCEPT ![p] = row']
      /\ prog' = [prog EXCEPT ![p] = rest]
      /\ UNCHANGED Outside
  BY Committed
<1>2. snap'[p] = row' /\ prog'[p] = rest
  BY <1>1 DEF WorkflowInv, Types
<1>3. rest # << >> => Leads(s, rest[1])
  BY CurrentStep DEF CommitCase
<1> HIDE DEF s, rest
<1>4. \A j : s = Write(j) => k = j
  BY DEF Write
<1>5. ASSUME At(p, "attempt")'
      PROVE  row'.status = "AGREED"
  <2>1. k = Move("AGREED", FALSE)
    BY <1>2, <1>3, <1>4, <1>5 DEF At, Leads
  <2>2. k.op = "transition" /\ k.target = "AGREED"
    BY <2>1 DEF Move
  <2> QED BY <1>1, <2>2, ResultFields
<1>6. ASSUME At(p, "reopen")'
      PROVE  /\ row'.gates # << >> /\ MayOpen(row', row'.gates[Len(row'.gates)].type)
             /\ HasOpenGate(row, GateTypes)
  <2>1. PICK g \in GateTypes : k = Close(g, "reassigned", "none", "none")
    BY <1>2, <1>3, <1>4, <1>6 DEF At, Leads
  <2>2. k \in HandlerCalls
    BY <2>1, HandlerCallsMade
  <2>3. HasOpenGate(row, {g})
    BY <1>1, <2>1 DEF Close, Allowed, CloseGateAllowed, GateActionable
  <2>4. HasOpenGate(row, GateTypes)
    BY <2>3 DEF HasOpenGate, PendingGates
  <2> QED BY <1>1, <2>1, <2>2, <2>4, ReassignedMayOpen
<1>7. ASSUME At(p, "send")'
      PROVE  /\ ~HasApprovedGate(row, "PRE_SEND_REVIEW")
             /\ HasApprovedGate(row', "PRE_SEND_REVIEW")
             /\ Notices' = {}
  <2>1. k = Close("PRE_SEND_REVIEW", "approved", "none", "none")
    BY <1>2, <1>3, <1>4, <1>7 DEF At, Leads
  <2>2. k \in HandlerCalls
    BY <2>1, HandlerCallsMade
  <2>3. ~HasApprovedGate(row, "PRE_SEND_REVIEW") /\ HasApprovedGate(row', "PRE_SEND_REVIEW")
    BY <1>1, <2>1, <2>2, ApprovalIsFirst
  <2>4. Notices' = Notices
    BY <1>1 DEF Outside, Notices
  <2> QED BY <2>3, <2>4 DEF WorkflowInv, NoticesApproved
<1>8. ASSUME At(p, "open_gate2")'
      PROVE  MayOpen(row', "DISPUTE_ESCALATION") /\ ~MayOpen(row, "DISPUTE_ESCALATION")
  <2>1. k = Move("ESCALATED", FALSE)
    BY <1>2, <1>3, <1>4, <1>8 DEF At, Leads
  <2>2. k \in HandlerCalls
    BY <2>1, HandlerCallsMade
  <2> QED BY <1>1, <2>1, <2>2, EscalatedMayOpen
<1>9. prog'[p] # << >> => ~OpensGate(prog'[p][1])
  BY <1>2, <1>3 DEF Leads
<1>10. Prepared(p)'
  BY <1>2, <1>5, <1>6, <1>9 DEF Prepared
<1>11. Holds(p)'
  BY <1>7, <1>8 DEF Holds
<1> QED BY <1>6, <1>7, <1>8, <1>9, <1>10, <1>11

LEMMA CommitStep ==
  ASSUME WorkflowInv, NEW p \in Procs, NEW kind \in {"write", "attempt"}, CommitCase(p, kind)
  PROVE  WorkflowInv'
<1> DEFINE s == Head(prog[p])
           k == s.call
<1>1. /\ s.do = kind /\ snap[p] = row /\ row \in Case /\ Orderly(row)
      /\ k \in HandlerCalls \cup Attempts /\ k \in Calls /\ Allowed(row, k)
      /\ kind = "write" => k \in HandlerCalls
      /\ k \in Attempts => row.status = "AGREED"
      /\ k.op = "openGate" /\ k.target = "none" => OpensGate(s) /\ MayOpen(row, k.gate)
      /\ row' = Result(row, k) /\ row' \in Case /\ row'.version = row.version + 1
      /\ snap' = [snap EXCEPT ![p] = row']
      /\ prog' = [prog EXCEPT ![p] = Tail(prog[p])]
      /\ UNCHANGED Outside
  BY Committed
<1>2. /\ s = prog[p][1] /\ prog[p] # << >> /\ Justified(s, row, booked)
      /\ Good(Tail(prog[p]), row, booked)
  BY CurrentStep DEF CommitCase
<1> HIDE DEF s
<1>3. /\ prog \in [Procs -> Seq(HandlerSteps)] /\ snap \in [Procs -> Case] /\ booked \in Nat
      /\ row.version \in Nat
  BY <1>1 DEF WorkflowInv, Types, Case
<1>4. /\ snap'[p] = row' /\ prog'[p] = Tail(prog[p])
      /\ \A q \in Procs \ {p} : prog'[q] = prog[q] /\ snap'[q] = snap[q]
  BY <1>1, <1>3
<1>5. Types'
  <2>1. Tail(prog[p]) \in Seq(HandlerSteps)
    BY <1>2 DEF Good
  <2> QED BY <1>1, <1>3, <2>1 DEF WorkflowInv, Types, Outside
<1>6. \A q \in Procs \ {p} : snap'[q].version \in Nat /\ snap'[q].version < row'.version
  BY <1>1, <1>3, <1>4 DEF WorkflowInv, CopiesAgree, Case
<1>7. CopiesAgree'
  BY <1>1, <1>3, <1>4, <1>6 DEF CopiesAgree
<1>8. Orderly(row)'
  BY <1>1, OrderIsKept
<1>9. Notices' = Notices /\ booked' = booked
  BY <1>1 DEF Outside, Notices
<1>10. HasApprovedGate(row, "PRE_SEND_REVIEW") => HasApprovedGate(row', "PRE_SEND_REVIEW")
  BY <1>1, ApprovalSurvives DEF GateTypes
<1>11. NoticesApproved'
  BY <1>9, <1>10 DEF WorkflowInv, NoticesApproved
<1>12. Settled(row.resolution) => Settled(row'.resolution)
  <2>1. Settled(row.resolution) => row.resolution # "none"
    BY MessagesAssumption DEF Settled
  <2> QED BY <1>1, <2>1, ResolutionStays
<1>13. ClosedIsBooked'
  <2>1. row'.status = "CLOSED" /\ row.status # "CLOSED" => Closes(s)
    <3>1. row'.status = "CLOSED" /\ row.status # "CLOSED" =>
            k \in HandlerCalls /\ k.op = "transition" /\ k.target = "CLOSED"
      BY <1>1, ResolutionStays
    <3>2. k.target = "CLOSED" => s.do = "write"
      <4>1. kind = "attempt" => k \in Attempts
        <5>1. s \in HandlerSteps
          BY CurrentStep DEF CommitCase, s
        <5> QED BY <1>1, <5>1 DEF HandlerSteps, MessageSteps, PlainSteps
      <4> QED BY <1>1, <4>1, AttemptCalls
    <3> QED BY <3>1, <3>2 DEF Closes
  <2>2. row'.status = "CLOSED" => booked > 0
    BY <1>2, <2>1 DEF Justified, WorkflowInv, ClosedIsBooked
  <2> QED BY <1>9, <1>12, <2>2 DEF WorkflowInv, ClosedIsBooked, Settled
<1>14. Handlers'
  <2> SUFFICES ASSUME NEW q \in Procs
               PROVE  Good(prog'[q], row', booked)
    BY <1>9 DEF Handlers
  <2>1. Good(prog'[q], row, booked)
    BY <1>2, <1>4 DEF WorkflowInv, Handlers
  <2>2. booked \in Nat /\ booked <= booked
    BY <1>3
  <2> QED BY <1>12, <2>1, <2>2, GoodGrows
<1>15. \A q \in Procs \ {p} : \A step : At(q, step)' <=> At(q, step)
  BY <1>4 DEF At
<1>16. ASSUME NEW q \in Procs, At(q, "open_gate2"), q # p
       PROVE  MayOpen(row', "DISPUTE_ESCALATION")
  <2>1. MayOpen(row, "DISPUTE_ESCALATION")
    BY <1>16 DEF WorkflowInv, Holds
  <2>2. OpensGate(s) => AboutToOpen(p)
    BY <1>1, <1>2 DEF AboutToOpen
  <2>3. ~(k.op = "openGate" /\ k.target = "none")
    BY <1>1, <1>16, <2>2 DEF WorkflowInv, Alone
  <2> QED BY <1>1, <2>1, <2>3, MayOpenStays
<1>17. ASSUME NEW q \in Procs
       PROVE  Prepared(q)' /\ Holds(q)'
  <2>1. CASE q = p
    BY <2>1, CommitLeads
  <2>2. CASE q # p
    <3>1. Prepared(q)'
      BY <1>4, <1>15, <2>2 DEF WorkflowInv, Prepared
    <3>2. Holds(q)'
      BY <1>9, <1>10, <1>15, <1>16, <2>2 DEF WorkflowInv, Holds
    <3> QED BY <3>1, <3>2
  <2> QED BY <2>1, <2>2
<1>18. \A q \in Procs \ {p} : ~AboutToOpen(q)'
  BY <1>6 DEF AboutToOpen
<1>19. ASSUME NEW q \in Procs, q # p
       PROVE  /\ At(q, "send") => ~At(p, "send")'
              /\ At(q, "open_gate2") => ~At(p, "open_gate2")' /\ ~AboutToOpen(p)'
  <2>1. At(q, "send") => ~At(p, "send")'
    BY CommitLeads DEF WorkflowInv, Holds
  <2>2. At(q, "open_gate2") =>
          MayOpen(row, "DISPUTE_ESCALATION") /\ ~HasOpenGate(row, GateTypes)
    BY DEF WorkflowInv, Holds, MayOpen, HasOpenGate
  <2>3. AboutToOpen(p)' => At(p, "reopen")'
    BY CommitLeads DEF AboutToOpen
  <2> QED BY <2>1, <2>2, <2>3, CommitLeads
<1>20. Alone'
  <2> SUFFICES ASSUME NEW a \in Procs, NEW b \in Procs, a # b
               PROVE  /\ At(a, "send")' => ~At(b, "send")'
                      /\ At(a, "open_gate2")' => ~At(b, "open_gate2")' /\ ~AboutToOpen(b)'
    BY DEF Alone
  <2>1. CASE a = p
    BY <1>15, <1>18, <1>19, <2>1
  <2>2. CASE b = p
    BY <1>15, <1>19, <2>2
  <2>3. CASE a # p /\ b # p
    BY <1>15, <1>18, <2>3 DEF WorkflowInv, Alone
  <2> QED BY <2>1, <2>2, <2>3
<1> QED BY <1>5, <1>7, <1>8, <1>11, <1>13, <1>14, <1>17, <1>20 DEF WorkflowInv

----------------------------------------------------------------------------
(* Steps of the gates' handlers *)

LEMMA SendKeepsNotices ==
  ASSUME WorkflowInv, NEW p \in Procs, Send(p)
  PROVE  sent' \in Seq(Drafts \cup Receipts) /\ NoticesApproved' /\ At(p, "send")
<1>1. At(p, "send")
  BY CurrentStep DEF Send
<1>2. Notices = {} /\ HasApprovedGate(row, "PRE_SEND_REVIEW")
  BY <1>1 DEF WorkflowInv, Holds
<1>3. snap[p].draft \in Drafts /\ sent \in Seq(Drafts \cup Receipts)
  BY DEF WorkflowInv, Types, Case
<1>4. /\ sent' = Append(sent, snap[p].draft)
      /\ sent' \in Seq(Drafts \cup Receipts)
      /\ DOMAIN sent' = 1 .. Len(sent) + 1
      /\ \A i \in DOMAIN sent : sent'[i] = sent[i]
      /\ DOMAIN sent = 1 .. Len(sent) /\ Len(sent) \in Nat
  BY <1>3 DEF Send
<1>5. Notices' \subseteq {Len(sent) + 1}
  BY <1>2, <1>4 DEF Notices
<1>6. row' = row
  BY DEF Send
<1> QED BY <1>1, <1>2, <1>4, <1>5, <1>6 DEF NoticesApproved

LEMMA SendingStep ==
  ASSUME WorkflowInv, NEW p \in Procs, Send(p)
  PROVE  WorkflowInv'
<1>1. Doing(p, "send") /\ Then(p, << >>) /\ row' = row /\ snap' = snap
  BY DEF Send
<1>2. Good(<< >>, row, booked') /\ booked <= booked' /\ booked' \in Nat
      /\ (booked' > 0 => Settled(row.resolution))
  BY GoodEmpty, OutsideKept DEF Send
<1>3. timers' \in SUBSET TimerKinds /\ failures' \in 0 .. MaxFailures
  BY OutsideKept DEF Send
<1>4. sent' \in Seq(Drafts \cup Receipts)
      /\ (Notices' = Notices \/ (At(p, "send") /\ NoticesApproved'))
  BY SendKeepsNotices
<1> QED BY <1>1, <1>2, <1>3, <1>4, PushStep

\* Opening a gate without a transition, by the steps of the handlers that prepare for it.
LEMMA GateOpeningSteps ==
  ASSUME NEW g \in GateTypes, NEW c, NEW n
  PROVE  LET new == Operation(Open(g, "none"))
         IN  /\ Good(new, c, n) /\ new # << >>
             /\ OpensGate(new[1]) /\ new[1].call.gate = g
<1> DEFINE k == Open(g, "none")
<1>1. k \in HandlerCalls /\ k.op = "openGate" /\ k.target = "none" /\ k.gate = g
  BY HandlerCallsMade DEF Open
<1>2. OpensGate(Write(k)) /\ Write(k).call = k
  BY <1>1 DEF OpensGate, Write
<1> HIDE DEF k
<1>3. Good(Operation(k), c, n) /\ Operation(k) # << >> /\ Operation(k)[1] = Write(k)
  BY <1>1, GoodOperation
<1> QED BY <1>1, <1>2, <1>3 DEF k

LEMMA ReopenStep ==
  ASSUME WorkflowInv, NEW p \in Procs, Reopen(p)
  PROVE  WorkflowInv'
<1> DEFINE gates == snap[p].gates
           g == gates[Len(gates)].type
           new == Operation(Open(g, "none"))
<1>1. Doing(p, "reopen") /\ At(p, "reopen") /\ Then(p, new)
  BY CurrentStep DEF Reopen
<1>2. gates # << >> /\ MayOpen(snap[p], g)
  BY <1>1 DEF WorkflowInv, Prepared
<1>3. g \in GateTypes
  <2>1. gates \in Seq(GateRecord)
    BY DEF WorkflowInv, Types, Case
  <2>2. gates[Len(gates)] \in GateRecord
    BY <1>2, <2>1
  <2> QED BY <2>2 DEF GateRecord
<1>4. /\ row' = row /\ snap' = snap /\ sent' = sent /\ timers' = timers
      /\ booked' = booked /\ failures' = failures
  BY DEF Reopen
<1> HIDE DEF gates, g, new
<1>5. Good(new, row, booked') /\ new # << >> /\ OpensGate(new[1]) /\ new[1].call.gate = g
  BY <1>3, GateOpeningSteps DEF new
<1>6. FollowedUp(p, new[1])
  BY <1>1, <1>2, <1>4, <1>5 DEF FollowedUp
<1>7. booked <= booked'
  BY <1>4, OutsideKept
<1> QED BY <1>1, <1>4, <1>5, <1>6, <1>7, OutsideKept, PushStep

LEMMA OpenGate2Step ==
  ASSUME WorkflowInv, NEW p \in Procs, OpenGate2(p)
  PROVE  WorkflowInv'
<1> DEFINE new == Operation(Open("DISPUTE_ESCALATION", "none"))
<1>1. Node(p, "open_gate2", new) /\ At(p, "open_gate2") /\ snap'[p] = row
  BY CurrentStep DEF OpenGate2, Node, WorkflowInv, Types
<1>2. /\ Good(new, row, booked) /\ new # << >>
      /\ OpensGate(new[1]) /\ new[1].call.gate = "DISPUTE_ESCALATION"
  BY GateOpeningSteps DEF GateTypes
<1>3. MayOpen(row, "DISPUTE_ESCALATION")
  BY <1>1 DEF WorkflowInv, Holds
<1> HIDE DEF new
<1>4. FollowedUp(p, new[1])
  BY <1>1, <1>2, <1>3 DEF FollowedUp
<1> QED BY <1>1, <1>2, <1>4, NodeStep

\* The gate that a reassignment is about.
LEMMA CurrentGateIsGate ==
  ASSUME WorkflowInv
  PROVE  CurrentGate(row) \in GateTypes
<1>1. CASE HasOpenGate(row, GateTypes)
  <2> DEFINE open == {row.gates[i] : i \in {j \in DOMAIN row.gates :
                                               IsOpenGate(row, GateTypes, j)}}
  <2>1. row \in Case /\ GatesInOrder(row) /\ row.gates \in Seq(GateRecord)
    BY DEF WorkflowInv, Types, Orderly, Case
  <2>2. PICK i \in PendingGates(row, GateTypes) : TRUE
    BY <1>1 DEF HasOpenGate
  <2>3. PendingGates(row, GateTypes) \subseteq {i}
    BY <2>1, <2>2, OpenIsLast
  <2>4. i \in DOMAIN row.gates /\ i \in Nat
    BY <2>1, <2>2 DEF PendingGates
  <2>5. IsOpenGate(row, GateTypes, i)
    BY <2>2, <2>3, <2>4 DEF IsOpenGate
  <2>6. row.gates[i] \in open
    BY <2>4, <2>5
  <2>7. \A x \in open : x \in GateRecord
    BY <2>1
  <2> HIDE DEF open
  <2>8. (CHOOSE x \in open : TRUE) \in open
    BY <2>6
  <2>9. (CHOOSE x \in open : TRUE).type \in GateTypes
    BY <2>7, <2>8 DEF GateRecord
  <2> QED BY <1>1, <2>9 DEF CurrentGate, open
<1>2. CASE ~HasOpenGate(row, GateTypes)
  BY <1>2 DEF CurrentGate, GateTypes
<1> QED BY <1>1, <1>2

\* The actions of the approval UI.
LEMMA HumanActionStep ==
  ASSUME WorkflowInv, NEW p \in Procs, HumanAction(p)
  PROVE  WorkflowInv'
<1>1. ASSUME NEW edited \in BOOLEAN, ApproveAndSend(p, edited)
      PROVE  WorkflowInv'
  BY <1>1, ApprovalSteps, CallStep DEF ApproveAndSend, HumanCall
<1>2. ASSUME NEW k \in HandlerCalls, k.op \in {"closeGate", "kill"},
             HumanCall(p, Operation(k))
      PROVE  WorkflowInv'
  BY <1>2, ProperOperation, CallStep DEF HumanCall
<1>3. CASE Reject(p)
  <2> DEFINE a == Close("PRE_SEND_REVIEW", "rejected", "none", "none")
  <2>1. a \in HandlerCalls /\ a.op = "closeGate" /\ Kill \in HandlerCalls /\ Kill.op = "kill"
    BY HandlerCallsMade DEF Close, Kill
  <2> HIDE DEF a
  <2>2. Proper(Operation(a), row, booked) /\ Proper(Operation(Kill), row, booked)
    BY <2>1, ProperOperation
  <2>3. Proper(Operation(a) \o Operation(Kill), row, booked)
    BY <2>2, ProperJoin
  <2> QED BY <1>3, <2>3, CallStep DEF Reject, HumanCall, a
<1>4. CASE Reassign(p)
  <2> DEFINE g == CurrentGate(row)
             k == Close(g, "reassigned", "none", "none")
             s == Step("reopen")
  <2>1. g \in GateTypes
    BY CurrentGateIsGate
  <2> HIDE DEF g
  <2>2. k \in HandlerCalls /\ k.op = "closeGate"
    BY <2>1, HandlerCallsMade DEF Close
  <2>3. s \in HandlerSteps /\ s.do = "reopen"
    BY StepKinds DEF PlainSteps
  <2>4. Justified(s, row, booked) /\ Leads(Write(k), s)
    BY <2>1, <2>3 DEF Justified, Closes, Leads, OpensGate
  <2> HIDE DEF k, s
  <2>5. /\ Proper(Operation(k), row, booked) /\ Operation(k) # << >>
        /\ Operation(k)[Len(Operation(k))] = Write(k)
    BY <2>2, ProperOperation
  <2>6. Good(<< s >>, row, booked) /\ << s >> # << >> /\ << s >>[1] = s
    BY <2>3, <2>4, GoodStep
  <2>7. Proper(Operation(k) \o << s >>, row, booked)
    BY <2>4, <2>5, <2>6, ProperLed
  <2> QED BY <1>4, <2>7, CallStep DEF Reassign, HumanCall, g, k, s
<1>5. CASE ResolveManually(p) \/ EscalateToLegal(p)
  <2>1. \A r \in {"settled", "legal"} :
          LET k == Close("DISPUTE_ESCALATION", "approved", "RESOLVED", r)
          IN  k \in HandlerCalls /\ k.op = "closeGate"
    BY HandlerCallsMade DEF Close
  <2> QED BY <1>2, <1>5, <2>1 DEF ResolveManually, EscalateToLegal
<1>6. CASE RequestMoreInfo(p)
  <2> DEFINE k == Close("DISPUTE_ESCALATION", "approved", "AWAITING_CLARIFICATION", "none")
             u == Update("keep")
             arm == Arm({"COUNTERPARTY_RESPONSE"})
  <2>1. k \in HandlerCalls /\ k.op = "closeGate" /\ u \in HandlerCalls /\ u.op = "update"
    BY HandlerCallsMade DEF Close, Update
  <2>2. arm \in HandlerSteps /\ arm.do \in FreeSteps
    BY StepKinds DEF TimerKinds, FreeSteps
  <2> HIDE DEF k, u, arm
  <2>3. /\ Proper(Operation(k), row, booked) /\ Proper(Operation(u), row, booked)
        /\ Proper(<< arm >>, row, booked)
    BY <2>1, <2>2, ProperOperation, ProperFree
  <2>4. Proper(Operation(k) \o Operation(u) \o << arm >>, row, booked)
    BY <2>3, ProperJoin
  <2> QED BY <1>6, <2>4, CallStep DEF RequestMoreInfo, HumanCall, k, u, arm
<1>7. CASE KillSwitch(p)
  <2>1. Kill \in HandlerCalls /\ Kill.op = "kill"
    BY HandlerCallsMade DEF Kill
  <2> QED BY <1>2, <1>7, <2>1 DEF KillSwitch
<1> QED BY <1>1, <1>3, <1>4, <1>5, <1>6, <1>7 DEF HumanAction

----------------------------------------------------------------------------
(* Steps of Agent 2, whatever the classifier and the auto-close check answer *)

LEMMA ClassifyStep ==
  ASSUME WorkflowInv, NEW p \in Procs, NEW m \in Replies, NEW intent \in DOMAIN IntentRoutes,
         Node(p, "classify_and_record",
              Operation(Record(m)) \o Operation(Move("RESPONSE_RECEIVED", FALSE))
                \o << MessageStep(IntentRoutes[intent], m) >>)
  PROVE  WorkflowInv'
<1> DEFINE a == Record(m)
           b == Move("RESPONSE_RECEIVED", FALSE)
           s == MessageStep(IntentRoutes[intent], m)
<1>1. /\ a \in HandlerCalls /\ a.op = "record"
      /\ b \in HandlerCalls /\ b.op = "transition" /\ b.target = "RESPONSE_RECEIVED"
  BY HandlerCallsMade DEF Record, Move
<1>2. IntentRoutes[intent] \in MessageSteps
  BY DEF IntentRoutes, MessageSteps
<1>3. s \in HandlerSteps /\ s.do \in FreeSteps
  BY <1>2, StepKinds DEF FreeSteps
<1> HIDE DEF a, b, s
<1>4. Proper(Operation(a), row, booked) /\ Proper(Operation(b), row, booked)
      /\ Proper(<< s >>, row, booked)
  BY <1>1, <1>3, ProperOperation, ProperFree
<1>5. Proper(Operation(a) \o Operation(b) \o << s >>, row, booked)
  BY <1>4, ProperJoin
<1>6. "classify_and_record" # "write"
  OBVIOUS
<1> QED BY <1>5, <1>6, ProperNode DEF a, b, s

LEMMA ReconcileStep ==
  ASSUME WorkflowInv, NEW p \in Procs, NEW m \in Replies, NEW eligible \in BOOLEAN,
         Node(p, "reconcile_agreement",
              Operation(Move("AGREED", FALSE))
                \o << [do |-> "attempt", call |-> AutoResolve(eligible, m)],
                      Step("write_booking_record") >>)
  PROVE  WorkflowInv'
<1> DEFINE k == Move("AGREED", FALSE)
           a == [do |-> "attempt", call |-> AutoResolve(eligible, m)]
           b == Step("write_booking_record")
<1>1. k \in HandlerCalls /\ k.op = "transition" /\ k.target = "AGREED"
  BY HandlerCallsMade DEF Move
<1>2. a \in HandlerSteps /\ a.do = "attempt"
  <2>1. AutoResolve(eligible, m) \in Attempts
    BY DEF Attempts
  <2> QED BY <2>1 DEF HandlerSteps
<1>3. b \in HandlerSteps /\ b.do = "write_booking_record"
  BY StepKinds DEF PlainSteps
<1>4. Justified(a, row, booked) /\ Leads(Write(k), a)
  BY <1>2 DEF Justified, Closes, Leads, OpensGate
<1>5. Justified(b, row, booked) /\ Leads(a, b)
  BY <1>3, ProperFree, UnledLeads DEF FreeSteps
<1> HIDE DEF k, a, b
<1>6. Good(<< a, b >>, row, booked)
  BY <1>2, <1>3, <1>4, <1>5 DEF Good, Chained
<1>7. << a, b >> # << >> /\ << a, b >>[1] = a
  OBVIOUS
<1>8. /\ Proper(Operation(k), row, booked) /\ Operation(k) # << >>
      /\ Operation(k)[Len(Operation(k))] = Write(k)
  BY <1>1, ProperOperation
<1>9. Proper(Operation(k) \o << a, b >>, row, booked)
  BY <1>4, <1>6, <1>7, <1>8, ProperLed
<1>10. "reconcile_agreement" # "write"
  OBVIOUS
<1> QED BY <1>9, <1>10, ProperNode DEF k, a, b

LEMMA AttemptRefusedStep ==
  ASSUME WorkflowInv, NEW p \in Procs, AttemptRefused(p)
  PROVE  WorkflowInv'
<1>1. PICK new : /\ prog' = [prog EXCEPT ![p] = new]
                 /\ Proper(new, row, booked)
  BY EscalationSteps, ProperEmpty DEF AttemptRefused
<1>2. /\ row' = row /\ snap' = snap /\ sent' = sent /\ timers' = timers
      /\ booked' = booked /\ failures' = failures /\ booked <= booked'
  BY OutsideKept DEF AttemptRefused
<1> QED BY <1>1, <1>2, OutsideKept, LocalStep DEF Proper

LEMMA FlagDisputeStep ==
  ASSUME WorkflowInv, NEW p \in Procs, FlagDispute(p)
  PROVE  WorkflowInv'
<1> DEFINE k == Move("DISPUTED", FALSE)
           e == Move("ESCALATED", FALSE)
           s == Step("open_gate2")
<1>1. /\ k \in HandlerCalls /\ k.op = "transition" /\ k.target = "DISPUTED"
      /\ e \in HandlerCalls /\ e.op = "transition" /\ e.target = "ESCALATED"
  BY HandlerCallsMade DEF Move
<1>2. s \in HandlerSteps /\ s.do = "open_gate2"
  BY StepKinds DEF PlainSteps
<1>3. Justified(s, row, booked) /\ Leads(Write(e), s)
  BY <1>2 DEF Justified, Closes, Leads, OpensGate
<1> HIDE DEF k, e, s
<1>4. /\ Proper(Operation(k), row, booked)
      /\ Proper(Operation(e), row, booked) /\ Operation(e) # << >>
      /\ Operation(e)[Len(Operation(e))] = Write(e)
  BY <1>1, ProperOperation
<1>5. Good(<< s >>, row, booked) /\ << s >> # << >> /\ << s >>[1] = s
  BY <1>2, <1>3, GoodStep
<1>6. /\ Proper(Operation(k) \o Operation(e), row, booked)
      /\ Operation(k) \o Operation(e) # << >>
      /\ (Operation(k) \o Operation(e))[Len(Operation(k) \o Operation(e))] = Write(e)
  BY <1>4, ProperJoin
<1>7. Proper(Operation(k) \o Operation(e) \o << s >>, row, booked)
  BY <1>3, <1>5, <1>6, ProperLed
<1>8. "flag_dispute" # "write"
  OBVIOUS
<1> QED BY <1>7, <1>8, ProperNode DEF FlagDispute, k, e, s

\* A booking that fails, or cannot be made, holds the case.
LEMMA HoldingSteps ==
  ASSUME NEW c, NEW d, NEW n
  PROVE  Proper(HoldForBooking(c), d, n)
<1>1. LET k == [op |-> "raiseTask", kind |-> "BOOKING_WRITE_FAILED"]
      IN  k \in HandlerCalls /\ k.op = "raiseTask"
  BY HandlerCallsMade
<1> QED BY <1>1, ProperOperation, ProperEmpty DEF HoldForBooking

LEMMA WriteBookingRecordStep ==
  ASSUME WorkflowInv, NEW p \in Procs, NEW judge, judge.priced \subseteq Replies,
         WriteBookingRecord(p, judge)
  PROVE  WorkflowInv'
<1> DEFINE new == CASE row.resolution \in judge.priced \cup {"settled"} -> << Step("book") >>
                    [] row.resolution = "none" -> << >>
                    [] OTHER -> HoldForBooking(row)
<1>1. Step("book") \in HandlerSteps /\ Step("book").do = "book"
  BY StepKinds DEF PlainSteps
<1>2. row.resolution \in judge.priced \cup {"settled"} =>
        Proper(<< Step("book") >>, row, booked)
  <2>1. row.resolution \in judge.priced \cup {"settled"} => Justified(Step("book"), row, booked)
    BY <1>1 DEF Justified, Settled, Closes
  <2>2. ~Led(Step("book"))
    BY <1>1 DEF Led, OpensGate
  <2> QED BY <1>1, <2>1, <2>2, ProperStep
<1>3. Proper(new, row, booked)
  BY <1>2, ProperEmpty, HoldingSteps
<1>4. "write_booking_record" # "write"
  OBVIOUS
<1> HIDE DEF new
<1>5. Node(p, "write_booking_record", new)
  BY DEF WriteBookingRecord, new
<1> QED BY <1>3, <1>4, <1>5, ProperNode

LEMMA BookingSucceedsStep ==
  ASSUME WorkflowInv, NEW p \in Procs, BookingSucceeds(p)
  PROVE  WorkflowInv'
<1> DEFINE k == [op |-> "resolveTask", kind |-> "BOOKING_WRITE_FAILED"]
           first == IF "BOOKING_WRITE_FAILED" \in snap[p].tasks THEN Operation(k) ELSE << >>
           s == Step("close_case")
<1>1. k \in HandlerCalls /\ k.op = "resolveTask"
  BY HandlerCallsMade
<1>2. s \in HandlerSteps /\ s.do = "close_case"
  BY StepKinds DEF PlainSteps
<1>3. booked \in Nat /\ booked' = booked + 1 /\ Settled(row.resolution)
  BY CurrentStep DEF BookingSucceeds, Justified, WorkflowInv, Types
<1>4. Justified(s, row, booked') /\ ~Led(s)
  BY <1>2, <1>3 DEF Justified, Closes, Led, OpensGate
<1> HIDE DEF k, s
<1>5. Proper(first, row, booked') /\ Proper(<< s >>, row, booked')
  BY <1>1, <1>2, <1>4, ProperOperation, ProperEmpty, ProperStep
<1> DEFINE new == first \o << s >>
<1>6. Proper(new, row, booked')
  BY <1>5, ProperJoin
<1>7. /\ Doing(p, "book") /\ Then(p, new) /\ row' = row /\ snap' = snap /\ sent' = sent
      /\ timers' = timers /\ failures' = failures
  BY DEF BookingSucceeds, k, s
<1>8. booked' \in Nat /\ booked <= booked'
  BY <1>3
<1> HIDE DEF new
<1> QED BY <1>3, <1>6, <1>7, <1>8, OutsideKept, PushStep DEF Proper

LEMMA BookingFailsStep ==
  ASSUME WorkflowInv, NEW p \in Procs, BookingFails(p)
  PROVE  WorkflowInv'
<1>1. Proper(HoldForBooking(snap[p]), row, booked)
  BY HoldingSteps
<1>2. /\ Doing(p, "book") /\ Then(p, HoldForBooking(snap[p]))
      /\ row' = row /\ snap' = snap /\ sent' = sent
      /\ timers' = timers /\ failures' = failures /\ booked' = booked /\ booked <= booked'
  BY OutsideKept DEF BookingFails
<1> QED BY <1>1, <1>2, OutsideKept, PushStep DEF Proper

LEMMA CloseCaseStep ==
  ASSUME WorkflowInv, NEW p \in Procs, NEW eligible \in BOOLEAN,
         Node(p, "close_case", Operation(CloseCall(row, eligible)))
  PROVE  WorkflowInv'
<1>1. CloseCall(row, eligible) \in HandlerCalls /\ CloseCall(row, eligible).op = "transition"
  BY HandlerCallsMade DEF CloseCall
<1>2. booked > 0
  BY CurrentStep DEF Node, Justified, Closes
<1>3. Proper(Operation(CloseCall(row, eligible)), row, booked)
  BY <1>1, <1>2, ProperOperation
<1>4. "close_case" # "write"
  OBVIOUS
<1> QED BY <1>3, <1>4, ProperNode

\* Nodes that go on to one other node, or end.
LEMMA PlainNodeStep ==
  ASSUME WorkflowInv, NEW p \in Procs, NEW kind, kind # "write", NEW next \in FreeSteps \cap PlainSteps,
         NEW new \in {<< >>, << Step(next) >>}, Node(p, kind, new)
  PROVE  WorkflowInv'
<1>1. Step(next) \in HandlerSteps /\ Step(next).do \in FreeSteps
  BY StepKinds
<1>2. Proper(new, row, booked)
  BY <1>1, ProperEmpty, ProperFree
<1> QED BY <1>2, ProperNode

LEMMA SendAndRecordStep ==
  ASSUME WorkflowInv, NEW p \in Procs, SendAndRecord(p)
  PROVE  WorkflowInv'
<1>1. /\ Doing(p, "send_and_record") /\ row' = row /\ timers' = timers
      /\ booked' = booked /\ failures' = failures /\ snap' = [snap EXCEPT ![p] = row]
      /\ booked <= booked'
  BY OutsideKept DEF SendAndRecord
<1>2. CASE Raise(p) /\ UNCHANGED sent
  <2>1. prog' = [prog EXCEPT ![p] = << >>]
    BY <1>2 DEF Raise
  <2>2. Good(<< >>, row, booked')
    BY GoodEmpty
  <2> QED BY <1>1, <1>2, <2>1, <2>2, OutsideKept, LocalStep
<1>3. ASSUME NEW receipt \in Receipts, sent' = Append(sent, receipt),
             Then(p, Operation(Record(receipt)))
      PROVE  WorkflowInv'
  <2>1. sent \in Seq(Drafts \cup Receipts) /\ receipt \notin Drafts
    BY MessagesAssumption DEF WorkflowInv, Types
  <2>2. /\ sent' \in Seq(Drafts \cup Receipts)
        /\ DOMAIN sent' = 1 .. Len(sent) + 1
        /\ \A i \in DOMAIN sent : sent'[i] = sent[i]
        /\ sent'[Len(sent) + 1] = receipt
        /\ DOMAIN sent = 1 .. Len(sent) /\ Len(sent) \in Nat
    BY <1>3, <2>1
  <2>3. Notices' = Notices
    BY <2>1, <2>2 DEF Notices
  <2>4. Record(receipt) \in HandlerCalls /\ Record(receipt).op = "record"
    BY HandlerCallsMade DEF Record
  <2>5. Proper(Operation(Record(receipt)), row, booked)
    BY <2>4, ProperOperation
  <2>6. timers' \in SUBSET TimerKinds /\ failures' \in 0 .. MaxFailures /\ booked' \in Nat
        /\ (booked' > 0 => Settled(row.resolution))
    BY <1>1, OutsideKept
  <2> QED BY <1>1, <1>3, <2>2, <2>3, <2>5, <2>6, PushStep DEF Proper
<1> QED BY <1>2, <1>3 DEF SendAndRecord

LEMMA MarkFiredStep ==
  ASSUME WorkflowInv, NEW p \in Procs, MarkFired(p)
  PROVE  WorkflowInv'
<1>1. /\ Doing(p, "mark_fired") /\ Then(p, << >>)
      /\ row' = row /\ snap' = snap /\ sent' = sent
      /\ failures' = failures /\ booked' = booked /\ booked <= booked'
  BY OutsideKept DEF MarkFired
<1>2. timers' \in SUBSET TimerKinds
  BY OutsideKept DEF MarkFired
<1>3. Good(<< >>, row, booked')
  BY GoodEmpty
<1> QED BY <1>1, <1>2, <1>3, OutsideKept, PushStep

LEMMA AgentCallStep ==
  ASSUME WorkflowInv, NEW p \in Procs, AgentCall(p)
  PROVE  WorkflowInv'
<1>1. ASSUME NEW m \in Replies, HandleResponse(p, m)
      PROVE  WorkflowInv'
  <2>1. MessageStep("dedupe_and_parse", m) \in HandlerSteps
        /\ MessageStep("dedupe_and_parse", m).do \in FreeSteps
    BY StepKinds DEF MessageSteps, FreeSteps
  <2>2. Proper(<< MessageStep("dedupe_and_parse", m) >>, row, booked)
    BY <2>1, ProperFree
  <2> QED BY <1>1, <2>2, CallStep DEF HandleResponse
<1>2. CASE HandleSlaExpiry(p)
  <2> DEFINE a == Step("verify_awaiting")
             b == Step("mark_fired")
  <2>1. a \in HandlerSteps /\ a.do \in FreeSteps /\ b \in HandlerSteps /\ b.do \in FreeSteps
    BY StepKinds DEF PlainSteps, FreeSteps
  <2> HIDE DEF a, b
  <2>2. /\ Justified(a, row, booked) /\ ~Led(a)
        /\ Justified(b, row, booked) /\ Leads(a, b)
    BY <2>1, ProperFree, UnledLeads
  <2>3. Proper(<< a, b >>, row, booked)
    BY <2>1, <2>2 DEF Proper, Good, Chained
  <2> QED BY <1>2, <2>3, CallStep DEF HandleSlaExpiry, a, b
<1>3. CASE SendClarificationRequest(p)
  <2>1. Step("draft_clarification") \in HandlerSteps
        /\ Step("draft_clarification").do \in FreeSteps
    BY StepKinds DEF PlainSteps, FreeSteps
  <2> QED BY <1>3, <2>1, ProperFree, CallStep DEF SendClarificationRequest
<1>4. CASE CloseResolvedCase(p)
  <2>1. Step("verify_resolved") \in HandlerSteps /\ Step("verify_resolved").do \in FreeSteps
    BY StepKinds DEF PlainSteps, FreeSteps
  <2> QED BY <1>4, <2>1, ProperFree, CallStep DEF CloseResolvedCase
<1> QED BY <1>1, <1>2, <1>3, <1>4 DEF AgentCall

\* What a judge may be: it answers with one of the intents, yes or no, and names
\* replies that state a price.
IsJudge(judge) ==
  /\ \A m \in Replies : judge.intents[m] \subseteq DOMAIN IntentRoutes
  /\ judge.eligible \subseteq BOOLEAN
  /\ judge.priced \subseteq Replies

LEMMA AgentStepStep ==
  ASSUME WorkflowInv, NEW p \in Procs, NEW judge, IsJudge(judge), AgentStep(p, judge)
  PROVE  WorkflowInv'
<1>1. CASE DedupeAndParse(p)
  <2>1. PICK m \in Replies :
          Node(p, "dedupe_and_parse",
               IF m \in row.processed \/ row.status \notin AwaitingStatuses
               THEN << >>
               ELSE << MessageStep("classify_and_record", m) >>)
    BY <1>1 DEF DedupeAndParse
  <2>2. MessageStep("classify_and_record", m) \in HandlerSteps
        /\ MessageStep("classify_and_record", m).do \in FreeSteps
    BY StepKinds DEF MessageSteps, FreeSteps
  <2>3. Proper(<< MessageStep("classify_and_record", m) >>, row, booked)
        /\ Proper(<< >>, row, booked)
    BY <2>2, ProperFree, ProperEmpty
  <2>4. "dedupe_and_parse" # "write"
    OBVIOUS
  <2> QED BY <2>1, <2>3, <2>4, ProperNode
<1>2. CASE ClassifyAndRecord(p, judge)
  BY <1>2, ClassifyStep DEF ClassifyAndRecord, IsJudge
<1>3. CASE ReconcileAgreement(p, judge)
  BY <1>3, ReconcileStep DEF ReconcileAgreement, IsJudge
<1>4. CASE Attempt(p)
  BY <1>4, CommitStep DEF Attempt
<1>5. CASE AttemptRefused(p) \/ FlagDispute(p) \/ OpenGate2(p)
  BY <1>5, AttemptRefusedStep, FlagDisputeStep, OpenGate2Step
<1>6. CASE FlagPartial(p) \/ Escalate(p)
  <2>1. "flag_partial" # "write" /\ "escalate" # "write"
    OBVIOUS
  <2> QED BY <1>6, <2>1, EscalationSteps, ProperNode DEF FlagPartial, Escalate
<1>7. CASE WriteBookingRecord(p, judge)
  BY <1>7, WriteBookingRecordStep DEF IsJudge
<1>8. CASE BookingSucceeds(p) \/ BookingFails(p) \/ MarkFired(p) \/ SendAndRecord(p)
  BY <1>8, BookingSucceedsStep, BookingFailsStep, MarkFiredStep, SendAndRecordStep
<1>9. CASE CloseCase(p, judge)
  BY <1>9, CloseCaseStep DEF CloseCase, IsJudge
<1>10. CASE VerifyAwaiting(p) \/ DraftClarification(p) \/ VerifyResolved(p)
  <2>1. /\ "escalate" \in FreeSteps \cap PlainSteps
        /\ "send_and_record" \in FreeSteps \cap PlainSteps
        /\ "write_booking_record" \in FreeSteps \cap PlainSteps
        /\ "verify_awaiting" # "write" /\ "draft_clarification" # "write"
        /\ "verify_resolved" # "write"
    BY DEF FreeSteps, PlainSteps
  <2>2. ASSUME VerifyAwaiting(p) PROVE WorkflowInv'
    BY <2>1, <2>2, PlainNodeStep DEF VerifyAwaiting
  <2>3. ASSUME DraftClarification(p) PROVE WorkflowInv'
    BY <2>1, <2>3, PlainNodeStep DEF DraftClarification
  <2>4. ASSUME VerifyResolved(p) PROVE WorkflowInv'
    BY <2>1, <2>4, PlainNodeStep DEF VerifyResolved
  <2> QED BY <1>10, <2>2, <2>3, <2>4
<1> QED BY <1>1, <1>2, <1>3, <1>4, <1>5, <1>6, <1>7, <1>8, <1>9, <1>10 DEF AgentStep

\* Every step of a process, with any judge, keeps the invariant.
LEMMA ProcessStep ==
  ASSUME WorkflowInv, NEW p \in Procs, NEW judge, IsJudge(judge),
         \/ HumanAction(p) \/ AgentCall(p) \/ BreakOff(p)
         \/ EngineStep(p) \/ GateStep(p) \/ AgentStep(p, judge)
  PROVE  WorkflowInv'
<1>1. CASE EngineStep(p)
  BY <1>1, CancelTimersStep, WriteRaisesStep, ArmTimersStep, CommitStep
     DEF EngineStep, WriteCase
<1>2. CASE GateStep(p)
  BY <1>2, SendingStep, ReopenStep DEF GateStep
<1> QED BY <1>1, <1>2, HumanActionStep, AgentCallStep, BreakOffStep, AgentStepStep

LEMMA StutteringStep ==
  ASSUME WorkflowInv, UNCHANGED vars
  PROVE  WorkflowInv'
<1>1. /\ row' = row /\ timers' = timers /\ sent' = sent /\ booked' = booked
      /\ snap' = snap /\ prog' = prog /\ failures' = failures
  BY DEF vars
<1>2. \A p : Prepared(p)' <=> Prepared(p)
  BY <1>1 DEF Prepared, At
<1>3. \A p : Holds(p)' <=> Holds(p)
  BY <1>1 DEF Holds, At, Notices
<1>4. Alone' <=> Alone
  BY <1>1 DEF Alone, AboutToOpen, At
<1>5. /\ Types' <=> Types
      /\ CopiesAgree' <=> CopiesAgree
      /\ NoticesApproved' <=> NoticesApproved
      /\ ClosedIsBooked' <=> ClosedIsBooked
      /\ Handlers' <=> Handlers
  BY <1>1 DEF Types, CopiesAgree, NoticesApproved, Notices, ClosedIsBooked, Handlers
<1> QED BY <1>1, <1>2, <1>3, <1>4, <1>5 DEF WorkflowInv

----------------------------------------------------------------------------
(* The invariant holds *)

LEMMA ArmedTimers ==
  ASSUME NEW c
  PROVE  ArmedBefore(c) \subseteq TimerKinds
<1> DEFINE gates == {GateTimers(c.gates[i].type) : i \in PendingGates(c, GateTypes)}
           window == IF HasApprovedGate(c, "PRE_SEND_REVIEW") THEN {"COUNTERPARTY_RESPONSE"}
                                                              ELSE {}
<1>1. ArmedBefore(c) = (UNION gates) \cup window
  BY DEF ArmedBefore
<1>2. GateTimers("PRE_SEND_REVIEW") \subseteq AllGateTimers
      /\ GateTimers("DISPUTE_ESCALATION") \subseteq AllGateTimers
  BY DEF AllGateTimers, GateTypes
<1>3. \A g : GateTimers(g) \in {GateTimers("PRE_SEND_REVIEW"), GateTimers("DISPUTE_ESCALATION")}
  BY DEF GateTimers
<1>4. \A g : GateTimers(g) \subseteq TimerKinds
  BY <1>2, <1>3 DEF TimerKinds
<1>5. \A x \in gates : x \subseteq TimerKinds
  BY <1>4
<1>6. window \subseteq TimerKinds
  BY DEF TimerKinds
<1> HIDE DEF gates, window
<1>7. ASSUME NEW t \in UNION gates
      PROVE  t \in TimerKinds
  <2>1. PICK x \in gates : t \in x
    OBVIOUS
  <2> QED BY <1>5, <2>1
<1>8. UNION gates \subseteq TimerKinds
  BY <1>7
<1> QED BY <1>1, <1>6, <1>8

LEMMA InitialState ==
  ASSUME Init
  PROVE  WorkflowInv
<1>1. row \in Case /\ Orderly(row) /\ row.status # "CLOSED"
  BY StartRowsAssumption DEF Init
<1>2. /\ booked = 0 /\ snap = [p \in Procs |-> row] /\ failures = 0
      /\ timers = ArmedBefore(row) /\ sent = SentBefore(row)
  BY DEF Init
<1>3. \A p \in Procs : prog[p] \in {SubmitForApproval, << >>}
      /\ prog = [q \in Procs |-> prog[q]]
  BY DEF Init
<1>4. \A p \in Procs : Proper(prog[p], row, booked)
  BY <1>3, SubmissionSteps, ProperEmpty
<1>5. Types
  <2>1. timers \in SUBSET TimerKinds
    BY <1>2, ArmedTimers
  <2>2. sent \in Seq(Drafts \cup Receipts)
    <3>1. row.draft \in Drafts \cup Receipts
      BY <1>1 DEF Case
    <3>2. << row.draft >> \in Seq(Drafts \cup Receipts) /\ << >> \in Seq(Drafts \cup Receipts)
      BY <3>1
    <3>3. SentBefore(row) \in {<< row.draft >>, << >>}
      BY DEF SentBefore
    <3> QED BY <1>2, <3>2, <3>3
  <2>3. prog \in [Procs -> Seq(HandlerSteps)]
    <3>1. \A p \in Procs : prog[p] \in Seq(HandlerSteps)
      BY <1>4 DEF Proper, Good
    <3> QED BY <1>3, <3>1 DEF Init
  <2>4. 0 \in 0 .. MaxFailures
    BY MessagesAssumption
  <2> QED BY <1>1, <1>2, <2>1, <2>2, <2>3, <2>4 DEF Types
<1>6. CopiesAgree
  BY <1>1, <1>2 DEF CopiesAgree, Case
<1>7. NoticesApproved
  BY <1>2 DEF NoticesApproved, Notices, SentBefore
<1>8. ClosedIsBooked
  BY <1>1, <1>2 DEF ClosedIsBooked
<1>9. Handlers
  BY <1>4 DEF Handlers, Proper
<1>10. \A p \in Procs : prog[p] # << >> => ~Led(prog[p][1])
  BY <1>4 DEF Proper
<1>11. \A p \in Procs : \A kind \in {"open_gate2", "reopen", "send", "attempt"} : ~At(p, kind)
  BY <1>10 DEF At, Led
<1>12. \A p \in Procs : ~AboutToOpen(p)
  BY <1>10, <1>11 DEF AboutToOpen, Led
<1>13. \A p \in Procs : Prepared(p) /\ Holds(p)
  BY <1>10, <1>11 DEF Prepared, Holds, Led
<1>14. Alone
  BY <1>11, <1>12 DEF Alone
<1> QED BY <1>1, <1>5, <1>6, <1>7, <1>8, <1>9, <1>13, <1>14 DEF WorkflowInv

LEMMA AnyJudgeIsJudge == IsJudge(AnyJudge)
BY DEF IsJudge, AnyJudge

(* The inductive invariant: with any number of processes, replies and       *)
(* failures, every handler keeps its promises to the case.                  *)
THEOREM WorkflowInvariant == Spec => []WorkflowInv
<1>1. Init => WorkflowInv
  BY InitialState
<1>2. WorkflowInv /\ [Next]_vars => WorkflowInv'
  <2>1. ASSUME WorkflowInv, NEW p \in Procs,
               HumanAction(p) \/ AgentCall(p) \/ StepOf(p) \/ BreakOff(p)
        PROVE  WorkflowInv'
    BY <2>1, AnyJudgeIsJudge, ProcessStep DEF StepOf
  <2> QED BY <2>1, StutteringStep DEF Next
<1> QED BY <1>1, <1>2, PTL DEF Spec

----------------------------------------------------------------------------
(* What follows from it *)

(* The state of the workflow is of its type, and each handler has nothing   *)
(* left to do but steps that the code has.                                  *)
THEOREM WorkflowIsTyped == Spec => []TypeOK
<1>1. HandlerSteps \subseteq Steps
  <2>1. HandlerCalls \subseteq Calls /\ Attempts \subseteq Calls
    BY AttemptCalls DEF HandlerCalls, Calls
  <2> QED BY <2>1 DEF HandlerSteps, Steps, CallSteps
<1>2. WorkflowInv => TypeOK
  <2> SUFFICES ASSUME WorkflowInv PROVE TypeOK
    OBVIOUS
  <2>1. \A p \in Procs : prog[p] \in Seq(Steps)
    <3>1. \A p \in Procs : prog[p] \in Seq(HandlerSteps)
      BY DEF WorkflowInv, Types
    <3> QED BY <1>1, <3>1
  <2> QED BY <2>1 DEF WorkflowInv, Types, TypeOK
<1> QED BY <1>2, WorkflowInvariant, PTL

LEMMA AtMostOne ==
  ASSUME NEW S, \A x, y \in S : x = y
  PROVE  /\ Cardinality(S) \in {0, 1}
         /\ S # {} => Cardinality(S) = 1
<1>1. CASE S = {}
  BY <1>1, FS_EmptySet
<1>2. CASE S # {}
  <2>1. PICK x \in S : TRUE
    BY <1>2
  <2>2. S = {x}
    BY <2>1
  <2> QED BY <1>2, <2>2, FS_Singleton
<1> QED BY <1>1, <1>2

LEMMA NoticesAreApproved ==
  ASSUME WorkflowInv
  PROVE  NoticeFollowsApproval
<1> DEFINE approved == Approvals(row, "PRE_SEND_REVIEW")
<1>1. row \in Case /\ GatesInOrder(row) /\ row.gates \in Seq(GateRecord)
  BY DEF WorkflowInv, Types, Orderly, Case
<1>2. \A i, j \in approved : i = j
  <2> SUFFICES ASSUME NEW i \in approved, NEW j \in approved, i < j
               PROVE  FALSE
    BY <1>1 DEF Approvals
  <2>1. row.gates[i] = [type |-> "PRE_SEND_REVIEW", status |-> "reassigned"]
    BY <1>1 DEF Approvals, GatesInOrder
  <2> QED BY <2>1 DEF Approvals
<1>3. Notices # {} => approved # {}
  BY DEF WorkflowInv, NoticesApproved, HasApprovedGate, Approvals
<1>4. \A i, j \in Notices : i = j
  BY DEF WorkflowInv, NoticesApproved
<1> HIDE DEF approved
<1>5. Cardinality(Notices) \in {0, 1} /\ Cardinality(approved) \in {0, 1}
      /\ (approved # {} => Cardinality(approved) = 1)
  BY <1>2, <1>4, AtMostOne
<1>6. Notices = {} => Cardinality(Notices) = 0
  BY FS_EmptySet
<1> QED BY <1>3, <1>5, <1>6 DEF NoticeFollowsApproval, approved

(* A notice goes out only after gate 1 was approved for it, and once: the    *)
(* approval, the send and the transition to SENT are three steps, between    *)
(* which others approve, edit, reassign, reject, kill and crash.             *)
THEOREM NoticesFollowApprovals == Spec => []NoticeFollowsApproval
BY NoticesAreApproved, WorkflowInvariant, PTL

LEMMA OpenGatesHold ==
  ASSUME WorkflowInv
  PROVE  OpenGateHoldsCase
<1>1. PendingGates(row, GateTypes) \subseteq {Len(row.gates)}
  BY OpenIsLast DEF WorkflowInv, Types, Orderly
<1>2. Cardinality(PendingGates(row, GateTypes)) \in {0, 1}
  BY <1>1, AtMostOne
<1> QED BY <1>2 DEF OpenGateHoldsCase, WorkflowInv, Orderly

(* One gate at most waits for a human, and while it does nothing but the     *)
(* kill switch moves the case.                                               *)
THEOREM OpenGatesHoldCases == Spec => []OpenGateHoldsCase
BY OpenGatesHold, WorkflowInvariant, PTL

(* No case is closed that was not booked, and none is booked without a       *)
(* resolution that has a price.                                              *)
THEOREM ClosedCasesAreBooked == Spec => []ClosedIsBooked
<1>1. WorkflowInv => ClosedIsBooked
  BY DEF WorkflowInv
<1> QED BY <1>1, WorkflowInvariant, PTL

(* No approval of gate 2 is lost: each resolved the case or was counted      *)
(* against the cap on clarification loops.                                   *)
THEOREM EveryLoopIsCounted == Spec => []LoopsAreCounted
<1>1. WorkflowInv => LoopsAreCounted
  BY DEF WorkflowInv, Orderly, LoopsAreCounted
<1> QED BY <1>1, WorkflowInvariant, PTL

\* A step that changes the case is the commit of an operation.
LEMMA OnlyCommitsChange ==
  ASSUME NEW p \in Procs, NEW judge, row' # row,
         \/ HumanAction(p) \/ AgentCall(p) \/ BreakOff(p)
         \/ EngineStep(p) \/ GateStep(p) \/ AgentStep(p, judge)
  PROVE  \E kind \in {"write", "attempt"} : CommitCase(p, kind)
<1>1. ~HumanAction(p)
  BY DEF HumanAction, ApproveAndSend, Reject, Reassign, ResolveManually, EscalateToLegal,
         RequestMoreInfo, KillSwitch, HumanCall, Call
<1>2. ~AgentCall(p) /\ ~BreakOff(p) /\ ~GateStep(p)
  BY DEF AgentCall, HandleResponse, HandleSlaExpiry, SendClarificationRequest,
         CloseResolvedCase, Call, BreakOff, GateStep, Send, Reopen
<1>3. EngineStep(p) => CommitCase(p, "write")
  BY DEF EngineStep, CancelTimers, WriteCase, WriteRaises, ArmTimers
<1>4. AgentStep(p, judge) => CommitCase(p, "attempt")
  BY DEF AgentStep, Attempt, DedupeAndParse, ClassifyAndRecord, ReconcileAgreement,
         AttemptRefused, FlagDispute, FlagPartial, OpenGate2, WriteBookingRecord,
         BookingSucceeds, BookingFails, CloseCase, VerifyAwaiting, Escalate, MarkFired,
         DraftClarification, SendAndRecord, VerifyResolved, Node
<1> QED BY <1>1, <1>2, <1>3, <1>4

(* However handlers race, the case changes only by operations that the       *)
(* engine allows on the case as it is stored.                                *)
THEOREM EveryChangeIsAllowed == Spec => CaseFollowsEngine
<1>1. WorkflowInv /\ [Next]_vars
        => [\E k \in Calls : Allowed(row, k) /\ row' = Result(row, k)]_row
  <2> SUFFICES ASSUME WorkflowInv, [Next]_vars, row' # row
               PROVE  \E k \in Calls : Allowed(row, k) /\ row' = Result(row, k)
    OBVIOUS
  <2>1. PICK p \in Procs : HumanAction(p) \/ AgentCall(p) \/ StepOf(p) \/ BreakOff(p)
    BY DEF Next, vars
  <2>2. PICK kind \in {"write", "attempt"} : CommitCase(p, kind)
    BY <2>1, OnlyCommitsChange DEF StepOf
  <2> QED BY <2>2, Committed
<1> QED BY <1>1, WorkflowInvariant, PTL DEF Spec, CaseFollowsEngine
=============================================================================
