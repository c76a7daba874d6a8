---------------------------- MODULE TimedWorkflow ----------------------------
(***************************************************************************)
(* Workflow with a clock and the due date of the response timer:           *)
(* orchestrator/timers.py and the timers table of store/sqlite_store.py.   *)
(* A kind is in Workflow's `timers` while its row in the table is neither  *)
(* fired nor cancelled.  Handlers take no time against windows of days.    *)
(***************************************************************************)
EXTENDS Workflow

CONSTANTS
  ResponseWindow,    \* settings.sla.counterparty_response, in ticks
  MaxTime            \* bound: the clock stops here

ASSUME TimedAssumption == ResponseWindow \in Nat \ {0} /\ MaxTime \in Nat

\* A case that waits for the counterparty was sent, so gate 1 was approved for it: every
\* way to those statuses is through SENT and its guardrail.
ASSUME WaitingRowsAssumption ==
  \A c \in StartRows :
    c.status \in AwaitingStatuses => HasApprovedGate(c, "PRE_SEND_REVIEW")

VARIABLES
  now,
  due,          \* due_at of the response timer, as it was armed last
  since,        \* history: when the case was last put in a wait
  disturbed     \* history: a sweep or a cancellation crossed another handler

timedVars == << vars, now, due, since, disturbed >>

TimedInit ==
  /\ Init
  /\ now = 0 /\ since = 0 /\ due = ResponseWindow
  /\ disturbed = FALSE

----------------------------------------------------------------------------
Arms(p) == Doing(p, "arm") /\ "COUNTERPARTY_RESPONSE" \in Head(prog[p]).kinds

\* Mutant: a timer that is still armed keeps its date.
DueAfterStepIfNew(p) ==
  IF Arms(p) /\ "COUNTERPARTY_RESPONSE" \notin timers THEN now + ResponseWindow ELSE due

\* arm_timer: inserted, or armed again with the new date.
DueAfterStep(p) == IF Arms(p) THEN now + ResponseWindow ELSE due

\* due_timers lists the response timer.
IsDue == "COUNTERPARTY_RESPONSE" \in timers /\ due <= now

\* External: the sweep calls Agent 2 for what it listed, and marks it fired.
Sweep(p) == IsDue /\ HandleSlaExpiry(p)

\* What other handlers do, between two ticks.
HandlerStep(p) ==
  \/ HumanAction(p) \/ (\E m \in Replies : HandleResponse(p, m))
  \/ SendClarificationRequest(p) \/ CloseResolvedCase(p) \/ StepOf(p)

Waiting(c) == c.status \in AwaitingStatuses

\* The sweep is at work on a timer that it listed.
Sweeping(p) ==
  \E i \in DOMAIN prog[p] : prog[p][i].do \in {"verify_awaiting", "mark_fired"}

\* The window of the wait that p begins is still to be armed.
YetToArm(p) == \E i \in DOMAIN prog[p] : prog[p][i] = Arm({"COUNTERPARTY_RESPONSE"})

\* Four ways to cross another handler: a sweep and the beginning of a wait overlap; an
\* operation is refused that has cancelled timers, or whose handler has begun a wait and
\* not armed its window; the timers of a gate are armed, after its transaction, when
\* someone else acted or acts on the case.
Crosses(p) ==
  \/ Waiting(row') /\ row'.status # row.status /\ \E q \in Procs : Sweeping(q)
  \/ Sweep(p) /\ \E q \in Procs : YetToArm(q)
  \/ WriteRaises(p) /\ (CancelsTimers(Head(prog[p]).call) \/ YetToArm(p))
  \/ /\ Doing(p, "arm") /\ ~Arms(p)
     /\ snap[p].version # row.version \/ \E q \in Procs \ {p} : ~Idle(q)

TimedStep(p) ==
  /\ Sweep(p) \/ HandlerStep(p)
  /\ due' = DueAfterStep(p)
  /\ since' = IF Waiting(row') /\ row'.status # row.status THEN now ELSE since
  /\ disturbed' = (disturbed \/ Crosses(p))
  /\ UNCHANGED now

\* The sweep is in time: the clock does not go on over a timer that is due.
Tick ==
  /\ now < MaxTime
  /\ \A p \in Procs : Idle(p)
  /\ ~IsDue
  /\ now' = now + 1
  /\ UNCHANGED << vars, due, since, disturbed >>

\* Bound: of what comes after a crossing nothing is said, and the model stops there.
TimedNext == ~disturbed /\ (Tick \/ \E p \in Procs : TimedStep(p))

TimedSpec == TimedInit /\ [][TimedNext]_timedVars

----------------------------------------------------------------------------
(* No wait is cut short: the sweep takes a case out of a wait only when the  *)
(* whole window of that wait has passed, although nothing cancels the timer  *)
(* when a reply comes and the timer of the wait before may fire in between   *)
(* (timers.py:82-105, sqlite_store.py:245-290, spec 06 step 2.6a).           *)
WaitsLastTheirWindow ==
  [][Waiting(row) /\ row'.status = "ESCALATED" => disturbed \/ now >= since + ResponseWindow]_timedVars

(* ... and none is drawn out: with sweeps in time a case is never longer in  *)
(* a wait than its window (spec 10 s3).                                      *)
WaitsEndInTime == Waiting(row) => disturbed \/ now <= since + ResponseWindow

(* An open gate has its reminder and its escalation armed, and no others are *)
(* (engine.py:286-308 and 345-352), unless the case was killed.              *)
GateIsWatched ==
  (\A p \in Procs : Idle(p)) /\ ~disturbed /\ row.status # "CANCELLED" =>
    timers \ {"COUNTERPARTY_RESPONSE"} =
      UNION {GateTimers(row.gates[i].type) : i \in PendingGates(row, GateTypes)}
=============================================================================
