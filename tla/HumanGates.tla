----------------------------- MODULE HumanGates -----------------------------
(***************************************************************************)
(* gates/service.py: the two human gates.  Each action of a gate is a      *)
(* handler that an analyst calls from the approval UI with the case as it  *)
(* is stored; nothing stops two people from calling at the same time, and  *)
(* none of the handlers is one transaction.                                *)
(***************************************************************************)
EXTENDS Runtime

\* A human action, while the model's bound allows more of them.
HumanCall(p, steps) == row.version < MaxVersion /\ Call(p, steps)

\* submit_for_approval (Agent 1 step 1.9): park the draft, open gate 1.
SubmitForApproval ==
  Operation(Update("agent"))
    \o Operation(Open("PRE_SEND_REVIEW", "PENDING_ANALYST_APPROVAL"))

\* approve_and_send, and Edit & Send: an edited draft is written first; without a
\* draft it raises before anything happens.  The draft goes out between the approval
\* and the SENT transition; then _arm_response_window.
ApproveAndSend(p, edited) ==
  /\ edited \/ row.draft # "none"
  /\ HumanCall(p,
       (IF edited THEN Operation(Update("edited")) ELSE << >>)
         \o Operation(Close("PRE_SEND_REVIEW", "approved", "none", "none"))
         \o << Step("send") >>
         \o Operation(Move("SENT", TRUE))
         \o Operation(Move("AWAITING_RESPONSE", FALSE))
         \o << Arm({"COUNTERPARTY_RESPONSE"}) >>)

\* comms.send: `approved` has the draft that was current when the gate was closed.
Send(p) ==
  /\ Doing(p, "send")
  /\ sent' = Append(sent, snap[p].draft)
  /\ Then(p, << >>)
  /\ UNCHANGED << row, timers, booked, snap, failures >>

Reject(p) ==
  HumanCall(p, Operation(Close("PRE_SEND_REVIEW", "rejected", "none", "none"))
                 \o Operation(Kill))

\* The gate that is open, or gate 1, whose closing raises when it is not.
CurrentGate(c) ==
  IF HasOpenGate(c, GateTypes)
  THEN (CHOOSE g \in {c.gates[i] : i \in {j \in DOMAIN c.gates :
                                            IsOpenGate(c, GateTypes, j)}} : TRUE).type
  ELSE "PRE_SEND_REVIEW"

\* The new gate has the type of the last record on the case.
Reassign(p) ==
  HumanCall(p, Operation(Close(CurrentGate(row), "reassigned", "none", "none"))
                 \o << Step("reopen") >>)

Reopen(p) ==
  /\ Doing(p, "reopen")
  /\ Then(p, Operation(Open(snap[p].gates[Len(snap[p].gates)].type, "none")))
  /\ UNCHANGED << row, timers, sent, booked, snap, failures >>

ResolveManually(p) ==
  HumanCall(p, Operation(Close("DISPUTE_ESCALATION", "approved", "RESOLVED", "settled")))

EscalateToLegal(p) ==
  HumanCall(p, Operation(Close("DISPUTE_ESCALATION", "approved", "RESOLVED", "legal")))

\* Mutant: the response window is not armed again.
RequestMoreInfoUntimed(p) ==
  /\ ~row.legal
  /\ HumanCall(p,
       Operation(Close("DISPUTE_ESCALATION", "approved", "AWAITING_CLARIFICATION", "none"))
         \o Operation(Update("keep")))

\* request_more_info, then _arm_clarification_window.
RequestMoreInfo(p) ==
  /\ ~row.legal
  /\ HumanCall(p,
       Operation(Close("DISPUTE_ESCALATION", "approved", "AWAITING_CLARIFICATION", "none"))
         \o Operation(Update("keep"))
         \o << Arm({"COUNTERPARTY_RESPONSE"}) >>)

KillSwitch(p) == HumanCall(p, Operation(Kill))

HumanAction(p) ==
  \/ \E edited \in BOOLEAN : ApproveAndSend(p, edited)
  \/ Reject(p) \/ Reassign(p) \/ ResolveManually(p) \/ EscalateToLegal(p)
  \/ RequestMoreInfo(p) \/ KillSwitch(p)

GateStep(p) == Send(p) \/ Reopen(p)
=============================================================================
