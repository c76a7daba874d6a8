------------------------------- MODULE Runtime -------------------------------
(***************************************************************************)
(* Processes that run the handlers of the human gates and of Agent 2 over  *)
(* one case.  A handler is straight-line code around engine operations: it *)
(* is kept as the sequence of the steps it still has to make.  A step that *)
(* raises drops the rest of its handler; what was done stays done.         *)
(*                                                                         *)
(* An operation's transaction is one step here, which fails when the copy  *)
(* of the case in the process's memory is not current: that is what Engine *)
(* is shown to do (CaseLedger).  What an operation does outside of it, the *)
(* timers, and what handlers do between operations are steps of their own. *)
(***************************************************************************)
EXTENDS CaseOps

CONSTANTS
  Procs,         \* the processes
  Receipts,      \* the ids that the comms service gives to clarification requests
  MaxVersion,    \* bound: no handler is called by a human at this version
  MaxFailures    \* bound: how many handlers crash or are broken off

VARIABLES
  row,        \* the committed case
  timers,     \* the kinds of its armed timers
  sent,       \* external: what the comms service delivered to the counterparty
  booked,     \* external: how often the break record was updated in booking
  snap,       \* per process: its copy of the case
  prog,       \* per process: the steps its handler still has to make
  failures

vars == << row, timers, sent, booked, snap, prog, failures >>

Idle(p) == prog[p] = << >>

----------------------------------------------------------------------------
(* Steps *)

Step(kind) == [do |-> kind]
Cancel(k) == [do |-> "cancel", call |-> k]
Write(k) == [do |-> "write", call |-> k]
Arm(kinds) == [do |-> "arm", kinds |-> kinds]

\* Mutant: the gate's type is passed for the timer's kind.
OperationArmsGate(k) ==
  (IF CancelsTimers(k) THEN << Cancel(k) >> ELSE << >>)
  \o << Write(k) >>
  \o (IF k.op = "openGate" THEN << Arm({k.gate}) >> ELSE << >>)

\* The steps of an operation of the engine, in the order it makes them.
Operation(k) ==
  (IF CancelsTimers(k) THEN << Cancel(k) >> ELSE << >>)
  \o << Write(k) >>
  \o (IF k.op = "openGate" THEN << Arm(GateTimers(k.gate)) >> ELSE << >>)

----------------------------------------------------------------------------
\* A handler is called with the case as it is stored.
Call(p, steps) ==
  /\ Idle(p)
  /\ snap' = [snap EXCEPT ![p] = row]
  /\ prog' = [prog EXCEPT ![p] = steps]
  /\ UNCHANGED << row, timers, sent, booked, failures >>

Doing(p, kind) == ~Idle(p) /\ Head(prog[p]).do = kind

\* The current step is done and `steps` come next, before the rest.
Then(p, steps) == prog' = [prog EXCEPT ![p] = steps \o Tail(@)]

\* An exception ends the handler.
Raise(p) == prog' = [prog EXCEPT ![p] = << >>]

\* The current step is a node of a graph: it reads the stored case, and `steps`
\* are what it does and where it goes next.
Node(p, kind, steps) ==
  /\ Doing(p, kind)
  /\ snap' = [snap EXCEPT ![p] = row]
  /\ Then(p, steps)
  /\ UNCHANGED << row, timers, sent, booked, failures >>

CancelTimers(p) ==
  /\ Doing(p, "cancel")
  /\ LET k == Head(prog[p]).call
     IN  IF MayCancel(snap[p], k)
         THEN timers' = timers \ CancelledTimers(k) /\ Then(p, << >>)
         ELSE UNCHANGED timers /\ Raise(p)
  /\ UNCHANGED << row, sent, booked, snap, failures >>

\* Mutant: the version is not compared.
CommitUnchecked(p, kind) ==
  /\ Doing(p, kind)
  /\ LET k == Head(prog[p]).call
     IN  /\ Allowed(snap[p], k)
         /\ row' = Result(snap[p], k)
         /\ snap' = [snap EXCEPT ![p] = Result(@, k)]
  /\ Then(p, << >>)
  /\ UNCHANGED << timers, sent, booked, failures >>

\* The operation's transaction commits: its checks pass on the copy, and the copy
\* has the version that is stored.
CommitCase(p, kind) ==
  /\ Doing(p, kind)
  /\ LET k == Head(prog[p]).call
     IN  /\ Allowed(snap[p], k)
         /\ snap[p].version = row.version
         /\ row' = Result(snap[p], k)
         /\ snap' = [snap EXCEPT ![p] = Result(@, k)]
  /\ Then(p, << >>)
  /\ UNCHANGED << timers, sent, booked, failures >>

WriteCase(p) == CommitCase(p, "write")

\* The checks refuse, or the version is no longer the stored one
\* (TransitionError, GuardrailViolation, ConcurrentModification).
WriteRaises(p) ==
  /\ Doing(p, "write")
  /\ LET k == Head(prog[p]).call
     IN  ~Allowed(snap[p], k) \/ snap[p].version # row.version
  /\ Raise(p)
  /\ UNCHANGED << row, timers, sent, booked, snap, failures >>

ArmTimers(p) ==
  /\ Doing(p, "arm")
  /\ timers' = timers \cup Head(prog[p]).kinds
  /\ Then(p, << >>)
  /\ UNCHANGED << row, sent, booked, snap, failures >>

EngineStep(p) == CancelTimers(p) \/ WriteCase(p) \/ WriteRaises(p) \/ ArmTimers(p)

\* p crashes, or the step fails for a reason of its own (the database is locked,
\* the audit write is refused, a tool raises): the rest of the handler is lost.
BreakOff(p) ==
  /\ ~Idle(p)
  /\ failures < MaxFailures
  /\ failures' = failures + 1
  /\ Raise(p)
  /\ UNCHANGED << row, timers, sent, booked, snap >>
=============================================================================
