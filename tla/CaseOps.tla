------------------------------- MODULE CaseOps -------------------------------
(***************************************************************************)
(* What each operation of the engine (orchestrator/engine.py) checks on    *)
(* the case object its caller hands it, and the row and the audit entry it *)
(* then writes.  A call is a record naming the operation and the arguments *)
(* that matter; Allowed, Result and Entry are functions of a case and a    *)
(* call, so that the same call can be asked of a stale copy of the case    *)
(* and of the row in the database.                                         *)
(***************************************************************************)
EXTENDS StateMachine, FiniteSets

\* Orchestrator.transition: the moves its callers ask for.  Gate 1 and gate 2 are
\* entered and left through openGate and closeGate below, and CANCELLED through
\* kill.  `eligible` is what evaluate_auto_close answers, asked only for a closing
\* move by an agent (_context); `resolution` is the one in `updates`.
TransitionCall(targets, humans, answers, resolutions) ==
  [op : {"transition"}, target : targets, human : humans, eligible : answers,
   resolution : resolutions]

TransitionCalls ==
  TransitionCall({"PRICES_PULLED", "TERM_SHEET_RESOLVED", "COMMS_DRAFTED",
                  "AWAITING_RESPONSE", "RESPONSE_RECEIVED", "AGREED", "DISPUTED",
                  "ESCALATED"}, {FALSE}, {FALSE}, {"none"})
  \cup TransitionCall({"SENT", "CLOSED"}, {TRUE}, {FALSE}, {"none"})
  \cup TransitionCall({"CLOSED"}, {FALSE}, BOOLEAN, {"none"})
  \cup TransitionCall({"RESOLVED"}, {FALSE}, BOOLEAN, Messages)

\* Orchestrator.update_without_transition; "keep" leaves pending_draft alone and
\* stands for the updates of fields that the model does not keep (sla_due_at).
UpdateCalls == [op : {"update"}, draft : {"keep", "agent", "edited"}]

\* Orchestrator.open_gate; target is its target_status ("none" for None).
OpenGateCalls ==
  [op : {"openGate"}, gate : GateTypes, target : {"none", "PENDING_ANALYST_APPROVAL"}]

\* Orchestrator.close_gate; the target and the resolution are what the actions of
\* gates/service.py pass for each verdict.
CloseGateCalls ==
  [op : {"closeGate"}, gate : GateTypes, verdict : GateStatuses \ {"pending"},
   human : BOOLEAN, target : {"none"}, resolution : {"none"}]
  \cup
  [op : {"closeGate"}, gate : {"DISPUTE_ESCALATION"}, verdict : {"approved"},
   human : BOOLEAN, target : {"RESOLVED"}, resolution : {"settled", "legal"}]
  \cup
  [op : {"closeGate"}, gate : {"DISPUTE_ESCALATION"}, verdict : {"approved"},
   human : BOOLEAN, target : {"AWAITING_CLARIFICATION"}, resolution : {"none"}]

KillCalls == [op : {"kill"}, human : BOOLEAN]
TaskCalls == [op : {"raiseTask", "resolveTask"}, kind : TaskKinds]
RecordCalls == [op : {"record"}, message : Messages]

Calls == TransitionCalls \cup UpdateCalls \cup OpenGateCalls \cup CloseGateCalls
           \cup KillCalls \cup TaskCalls \cup RecordCalls

\* The calls by name, for the handlers that make them.
Move(target, human) ==
  [op |-> "transition", target |-> target, human |-> human, eligible |-> FALSE,
   resolution |-> "none"]

Open(gate, target) == [op |-> "openGate", gate |-> gate, target |-> target]

Close(gate, verdict, target, resolution) ==
  [op |-> "closeGate", gate |-> gate, verdict |-> verdict, human |-> TRUE,
   target |-> target, resolution |-> resolution]

Update(draft) == [op |-> "update", draft |-> draft]
Record(message) == [op |-> "record", message |-> message]
Kill == [op |-> "kill", human |-> TRUE]

----------------------------------------------------------------------------
(* The checks an operation makes before it opens its transaction. *)

Context(human, eligible) == [human |-> human, eligible |-> eligible]

\* transition: validate_transition, then the re-validation of the updated case,
\* which refuses CLOSED without a resolution.
TransitionAllowed(c, k) ==
  /\ MayTransition(c, k.target, Context(k.human, k.eligible))
  /\ k.target = "CLOSED" => c.resolution # "none"

OpenGateAllowed(c, k) ==
  k.target # "none" => MayTransition(c, k.target, Context(FALSE, FALSE))

\* close_gate: only a human, and only while a gate of the type is open.
GateActionable(c, k) == k.human /\ HasOpenGate(c, {k.gate})

CloseGateAllowed(c, k) ==
  /\ GateActionable(c, k)
  /\ k.target # "none" => MayTransition(c, k.target, Context(k.human, FALSE))

KillAllowed(c, k) == k.human /\ MayTransition(c, "CANCELLED", Context(k.human, FALSE))

Allowed(c, k) ==
  CASE k.op = "transition" -> TransitionAllowed(c, k)
    [] k.op = "openGate"   -> OpenGateAllowed(c, k)
    [] k.op = "closeGate"  -> CloseGateAllowed(c, k)
    [] k.op = "kill"       -> KillAllowed(c, k)
    [] OTHER               -> TRUE      \* update, tasks, record: nothing is checked

----------------------------------------------------------------------------
(* The row an operation writes, from the case its caller holds.  SqliteStore.save
   stores it with the version bumped. *)

TargetStatus(c, target) == IF target = "none" THEN c.status ELSE target

WrittenResolution(c, resolution) ==
  IF resolution = "none" THEN c.resolution ELSE resolution

WithTransition(c, k) ==
  [c EXCEPT !.status = k.target, !.version = @ + 1,
            !.resolution = WrittenResolution(c, k.resolution)]

WithUpdate(c, k) ==
  [c EXCEPT !.draft = IF k.draft = "keep" THEN @ ELSE k.draft, !.version = @ + 1]

WithOpenGate(c, k) ==
  [c EXCEPT !.gates = Append(@, [type |-> k.gate, status |-> "pending"]),
            !.status = TargetStatus(c, k.target), !.version = @ + 1]

\* The gate that was open gets the verdict.
WithVerdict(c, gate, verdict) ==
  [i \in DOMAIN c.gates |->
     IF IsOpenGate(c, {gate}, i) THEN [c.gates[i] EXCEPT !.status = verdict]
                                 ELSE c.gates[i]]

\* Mutant: a clarification is not counted.
WithClosedGateUncounted(c, k) ==
  [c EXCEPT !.gates = WithVerdict(c, k.gate, k.verdict),
            !.status = TargetStatus(c, k.target), !.version = @ + 1,
            !.resolution = WrittenResolution(c, k.resolution)]

\* request_more_info adds the loop count and, on reaching the cap, the flag that
\* forces the next visit of the gate to Legal.
WithClosedGate(c, k) ==
  LET loops == IF k.target = "AWAITING_CLARIFICATION" THEN c.loops + 1 ELSE c.loops
  IN  [c EXCEPT !.gates = WithVerdict(c, k.gate, k.verdict),
                !.status = TargetStatus(c, k.target), !.version = @ + 1,
                !.loops = loops,
                !.legal = @ \/ (k.target = "AWAITING_CLARIFICATION" /\ loops >= LoopCap),
                !.resolution = WrittenResolution(c, k.resolution)]

WithKill(c) == [c EXCEPT !.status = "CANCELLED", !.version = @ + 1, !.manual = TRUE]

WithTask(c, k) ==
  [c EXCEPT !.tasks = IF k.op = "raiseTask" THEN @ \cup {k.kind} ELSE @ \ {k.kind},
            !.version = @ + 1]

\* record_message appends to the thread whether or not the id was seen before.
WithMessage(c, k) ==
  [c EXCEPT !.thread = Append(@, k.message), !.processed = @ \cup {k.message},
            !.version = @ + 1]

Result(c, k) ==
  CASE k.op = "transition" -> WithTransition(c, k)
    [] k.op = "update"     -> WithUpdate(c, k)
    [] k.op = "openGate"   -> WithOpenGate(c, k)
    [] k.op = "closeGate"  -> WithClosedGate(c, k)
    [] k.op = "kill"       -> WithKill(c)
    [] k.op = "record"     -> WithMessage(c, k)
    [] OTHER               -> WithTask(c, k)

\* The AuditEntry of the call: the step and the statuses before and after.
AuditEntries == [step : {"create", "transition", "update", "openGate", "closeGate",
                         "kill", "raiseTask", "resolveTask", "record"},
                 from : Statuses \cup {"none"}, to : Statuses]

Entry(c, k) == [step |-> k.op, from |-> c.status, to |-> Result(c, k).status]

----------------------------------------------------------------------------
(* orchestrator/timers.py: the kinds of timers, and what the operations do to  *)
(* them outside their transaction.  A timer is known by its case and kind.     *)

\* _arm_gate_timers: the two timers that watch a gate.
GateTimers(gate) ==
  IF gate = "PRE_SEND_REVIEW" THEN {"GATE1_REMINDER", "GATE1_ESCALATION"}
                              ELSE {"GATE2_REMINDER", "GATE2_ESCALATION"}

AllGateTimers == UNION {GateTimers(g) : g \in GateTypes}
TimerKinds == AllGateTimers \cup {"COUNTERPARTY_RESPONSE"}

\* Operations that cancel timers do so first; of the checks they make, only the one
\* on the gate comes before that.
CancelsTimers(k) == k.op \in {"closeGate", "kill"}
MayCancel(c, k) == IF k.op = "closeGate" THEN GateActionable(c, k) ELSE k.human

\* Mutant: the timers of gate 2 are forgotten.
CancelledTimersOfGate1(k) ==
  IF k.op = "kill" THEN TimerKinds ELSE GateTimers("PRE_SEND_REVIEW")

\* close_gate cancels the timers of both gates, kill_switch all of the case.
CancelledTimers(k) == IF k.op = "kill" THEN TimerKinds ELSE AllGateTimers

----------------------------------------------------------------------------
(* What the engine keeps true of a row r and its trail t. *)

\* One entry per version, each entry starting from the status the previous one
\* left, the last one leaving the row's status.
TrailAccountsFor(r, t) ==
  /\ Len(t) = r.version
  /\ t # << >>
  /\ t[Len(t)].to = r.status
  /\ \A i \in 1 .. Len(t) - 1 : t[i + 1].from = t[i].to

\* Nothing was marked sent without a gate-1 approval on the row.
SendWasApproved(r, t) ==
  (\E i \in DOMAIN t : t[i].to = "SENT") => HasApprovedGate(r, "PRE_SEND_REVIEW")

\* The clarification loop is never above its cap, and flagged when it gets there.
LoopIsBounded(r) == r.loops <= LoopCap /\ (r.loops = LoopCap => r.legal)

Sound(r, t) ==
  /\ r \in Case /\ t \in Seq(AuditEntries)
  /\ TrailAccountsFor(r, t)
  /\ SendWasApproved(r, t)
  /\ LoopIsBounded(r)

----------------------------------------------------------------------------
(* What the handlers of a case keep true of it between them. *)

\* The approved gates of a type.
Approvals(c, type) ==
  {i \in DOMAIN c.gates : c.gates[i].type = type /\ c.gates[i].status = "approved"}

\* Only the last gate waits; gate 1 follows nothing but a reassigned gate 1.
GatesInOrder(c) ==
  \A i, j \in DOMAIN c.gates :
    i < j => /\ c.gates[i].status # "pending"
             /\ c.gates[j].type = "PRE_SEND_REVIEW" =>
                  c.gates[i] = [type |-> "PRE_SEND_REVIEW", status |-> "reassigned"]

\* The status of a case agrees with its gates, its resolution and its loop count.
Orderly(c) ==
  /\ GatesInOrder(c)
  /\ HasOpenGate(c, {"PRE_SEND_REVIEW"}) =>
       c.status \in {"PENDING_ANALYST_APPROVAL", "CANCELLED"}
  /\ HasOpenGate(c, {"DISPUTE_ESCALATION"}) => c.status \in {"ESCALATED", "CANCELLED"}
  /\ c.status = "COMMS_DRAFTED" => c.gates = << >>
  /\ c.resolution # "none" => c.status \in {"RESOLVED", "CLOSED", "CANCELLED"}
  /\ Cardinality(Approvals(c, "DISPUTE_ESCALATION")) =
       c.loops + (IF c.resolution \in {"settled", "legal"} THEN 1 ELSE 0)
=============================================================================
