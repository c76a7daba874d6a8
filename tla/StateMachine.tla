---------------------------- MODULE StateMachine ----------------------------
(***************************************************************************)
(* The Case and the deterministic state machine over it: domain/enums.py,  *)
(* domain/case.py and orchestrator/state_machine.py.  Everything here is a *)
(* pure operator; the modules that have state apply these to the case row. *)
(***************************************************************************)
EXTENDS Naturals, Sequences

CONSTANTS
  LoopCap,     \* settings.loop_guard.max_clarification_loops
  Messages     \* ids of the messages that may be put on the comms thread

ASSUME LoopCapAssumption == LoopCap \in Nat \ {0}

----------------------------------------------------------------------------
(* domain/enums.py *)

Statuses ==
  {"NEW", "DETECTED", "PRICES_PULLED", "TERM_SHEET_RESOLVED", "COMMS_DRAFTED",
   "PENDING_ANALYST_APPROVAL", "SENT", "AWAITING_RESPONSE", "RESPONSE_RECEIVED",
   "AGREED", "DISPUTED", "ESCALATED", "AWAITING_CLARIFICATION", "RESOLVED",
   "CLOSED", "CANCELLED"}

TerminalStatuses == {"CLOSED", "CANCELLED"}

GateTypes == {"PRE_SEND_REVIEW", "DISPUTE_ESCALATION"}

GateStatuses == {"pending", "approved", "rejected", "reassigned"}

TaskKinds == {"TERM_SHEET_LOOKUP", "BOOKING_WRITE_FAILED"}

----------------------------------------------------------------------------
(* domain/case.py.  Of a Case we keep what a guard, a gate or a closure     *)
(* depends on.  A list of manual tasks is kept as the set of kinds that are *)
(* open.  A resolution is kept by where its final price comes from: the     *)
(* reply that an agent agreed to (which may state none), an SME, or Legal,   *)
(* who leaves none.                                                          *)

GateRecord == [type : GateTypes, status : GateStatuses]

Resolutions == {"none", "settled", "legal"} \cup Messages

Drafts == {"none", "agent", "edited"}

Case ==
  [status     : Statuses,
   version    : Nat,
   manual     : BOOLEAN,             \* manual_handling
   gates      : Seq(GateRecord),     \* human_gates
   tasks      : SUBSET TaskKinds,    \* kinds with an open manual task
   thread     : Seq(Messages),       \* comms_thread
   processed  : SUBSET Messages,     \* processed_message_ids
   draft      : Drafts,              \* pending_draft
   loops      : Nat,                 \* clarification_loop_count
   legal      : BOOLEAN,             \* mandatory_legal_review
   resolution : Resolutions]

\* A case as create_case stores it (SqliteStore.create sets version 1).
NewCase(status) ==
  [status |-> status, version |-> 1, manual |-> FALSE, gates |-> << >>,
   tasks |-> {}, thread |-> << >>, processed |-> {}, draft |-> "none",
   loops |-> 0, legal |-> FALSE, resolution |-> "none"]

\* The positions of the gates still waiting for a human, of the given types.
PendingGates(c, types) ==
  {i \in DOMAIN c.gates : c.gates[i].status = "pending" /\ c.gates[i].type \in types}

HasOpenGate(c, types) == PendingGates(c, types) # {}

\* Case.open_gate returns the latest pending one: i is its position.
IsOpenGate(c, types, i) ==
  i \in PendingGates(c, types) /\ \A j \in PendingGates(c, types) : j <= i

HasApprovedGate(c, type) ==
  \E i \in DOMAIN c.gates : c.gates[i].type = type /\ c.gates[i].status = "approved"

----------------------------------------------------------------------------
(* orchestrator/state_machine.py *)

\* _TRANSITIONS.
Transitions ==
  [NEW                      |-> {"DETECTED"},
   DETECTED                 |-> {"PRICES_PULLED"},
   PRICES_PULLED            |-> {"TERM_SHEET_RESOLVED"},
   TERM_SHEET_RESOLVED      |-> {"COMMS_DRAFTED"},
   COMMS_DRAFTED            |-> {"PENDING_ANALYST_APPROVAL"},
   PENDING_ANALYST_APPROVAL |-> {"SENT"},
   SENT                     |-> {"AWAITING_RESPONSE"},
   AWAITING_RESPONSE        |-> {"RESPONSE_RECEIVED", "ESCALATED"},
   RESPONSE_RECEIVED        |-> {"AGREED", "DISPUTED", "ESCALATED"},
   AGREED                   |-> {"RESOLVED", "ESCALATED"},
   DISPUTED                 |-> {"ESCALATED"},
   ESCALATED                |-> {"RESOLVED", "AWAITING_CLARIFICATION"},
   AWAITING_CLARIFICATION   |-> {"RESPONSE_RECEIVED", "ESCALATED"},
   RESOLVED                 |-> {"CLOSED"}]

\* TRANSITION_TABLE: every non-terminal status also has the kill-switch edge.
AllowedTargets(status) ==
  IF status \in TerminalStatuses THEN {} ELSE Transitions[status] \cup {"CANCELLED"}

\* _BLOCKING_TASKS: the open task kinds that hold a case where it is.
BlockingTasks(c) ==
  {kind \in c.tasks :
     \/ c.status = "PRICES_PULLED" /\ kind = "TERM_SHEET_LOOKUP"
     \/ c.status = "RESOLVED" /\ kind = "BOOKING_WRITE_FAILED"}

\* Mutant: the approval behind SENT is not looked for.
GuardrailsNoApproval(c, target, ctx) ==
  /\ target = "RESOLVED" /\ c.status = "AGREED" => ctx.human \/ ctx.eligible
  /\ target = "CLOSED" => ctx.human \/ ctx.eligible
  /\ target = "AWAITING_CLARIFICATION" => c.loops < LoopCap

\* Mutant: one loop too many.
GuardrailsOneLoopMore(c, target, ctx) ==
  /\ target = "SENT" => HasApprovedGate(c, "PRE_SEND_REVIEW")
  /\ target = "RESOLVED" /\ c.status = "AGREED" => ctx.human \/ ctx.eligible
  /\ target = "CLOSED" => ctx.human \/ ctx.eligible
  /\ target = "AWAITING_CLARIFICATION" => c.loops <= LoopCap

\* _check_enforced_guardrails; ctx.human and ctx.eligible are the facts of
\* TransitionContext that do not stand on the case.
Guardrails(c, target, ctx) ==
  /\ target = "SENT" => HasApprovedGate(c, "PRE_SEND_REVIEW")
  /\ target = "RESOLVED" /\ c.status = "AGREED" => ctx.human \/ ctx.eligible
  /\ target = "CLOSED" => ctx.human \/ ctx.eligible
  /\ target = "AWAITING_CLARIFICATION" => c.loops < LoopCap

\* What validate_transition raises TransitionError for.
IllegalTransition(c, target) == target \notin AllowedTargets(c.status) \ {c.status}

\* What validate_transition raises GuardrailViolation for, of a legal edge.
GuardrailRefuses(c, target, ctx) ==
  IF target = "CANCELLED"
  THEN ~ctx.human
  ELSE c.manual \/ BlockingTasks(c) # {} \/ ~Guardrails(c, target, ctx)

\* validate_transition returns normally.
MayTransition(c, target, ctx) ==
  ~IllegalTransition(c, target) /\ ~GuardrailRefuses(c, target, ctx)
=============================================================================
