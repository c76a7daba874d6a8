------------------------------- MODULE Engine -------------------------------
(***************************************************************************)
(* Several orchestrator processes, each with its own connection, working   *)
(* on one case through orchestrator/engine.py and store/sqlite_store.py.   *)
(* A process holds the copy of the case it last read or wrote (`snap`); an *)
(* operation validates against that copy, then opens a transaction, saves  *)
(* under the version check, appends the audit entry and commits.  Other    *)
(* processes move between any two of these steps, and a process may crash  *)
(* at every one of them.                                                   *)
(***************************************************************************)
EXTENDS CaseOps

CONSTANTS
  Procs,         \* the orchestrator processes
  Free,          \* the write lock's value when nobody holds it
  StartStates,   \* as in CaseLedger
  MaxVersion     \* bound: no operation starts on a copy with this version

ASSUME FreeAssumption == Free \notin Procs
ASSUME StartStatesAssumption == \A s \in StartStates : Sound(s.row, s.trail)

VARIABLES
  row, trail,    \* what is committed: the cases row and its audit_log entries
  timers,        \* the kinds of the case's armed timers
  lock,          \* who is inside BEGIN IMMEDIATE .. COMMIT / ROLLBACK
  work,          \* the row and the entries as the open transaction sees them
  pc, snap, call \* per process: where it is, its copy of the case, its call

vars == << row, trail, timers, lock, work, pc, snap, call >>

\* The committed row and trail are the ledger's.
Ledger == INSTANCE CaseLedger WITH
            Calls       <- Calls,
            Allowed     <- Allowed,
            Result      <- Result,
            Entry       <- Entry,
            StartStates <- StartStates,
            row         <- row,
            trail       <- trail

\* ready: running the caller's code; cancel: about to cancel timers; begin, save,
\* append, commit: the next statement of atomic(); arm: about to arm gate timers.
Labels == {"ready", "cancel", "begin", "save", "append", "commit", "arm"}

TypeOK ==
  /\ row \in Case
  /\ trail \in Seq(AuditEntries)
  /\ timers \in SUBSET TimerKinds
  /\ lock \in Procs \cup {Free}
  /\ work \in [row : Case, trail : Seq(AuditEntries)]
  /\ pc \in [Procs -> Labels]
  /\ snap \in [Procs -> Case]
  /\ call \in [Procs -> Calls]

----------------------------------------------------------------------------
\* The call of a process that is in none.
NoCall == [op |-> "kill", human |-> FALSE]

Init ==
  /\ \E s \in StartStates : row = s.row /\ trail = s.trail
  /\ timers = {}
  /\ lock = Free
  /\ work = [row |-> row, trail |-> trail]
  /\ pc = [p \in Procs |-> "ready"]
  /\ snap = [p \in Procs |-> row]
  /\ call = [p \in Procs |-> NoCall]

\* Mutant: the reader sees what another connection has not committed.
ReadDirty(p) ==
  /\ pc[p] = "ready"
  /\ snap' = [snap EXCEPT ![p] = work.row]
  /\ UNCHANGED << row, trail, timers, lock, work, pc, call >>

\* SqliteStore.get: a reader sees the last committed row (WAL).
Read(p) ==
  /\ pc[p] = "ready"
  /\ snap' = [snap EXCEPT ![p] = row]
  /\ UNCHANGED << row, trail, timers, lock, work, pc, call >>

\* An operation is called with the copy p holds.  When its checks refuse, it
\* raises before touching the store and nothing happens.
Enter(p, k, label) ==
  /\ pc[p] = "ready"
  /\ snap[p].version < MaxVersion
  /\ call' = [call EXCEPT ![p] = k]
  /\ pc' = [pc EXCEPT ![p] = label]
  /\ UNCHANGED << row, trail, timers, lock, work, snap >>

Transition(p) ==
  \E k \in TransitionCalls : TransitionAllowed(snap[p], k) /\ Enter(p, k, "begin")

UpdateWithoutTransition(p) == \E k \in UpdateCalls : Enter(p, k, "begin")

CallOpenGate(p) ==
  \E k \in OpenGateCalls : OpenGateAllowed(snap[p], k) /\ Enter(p, k, "begin")

\* close_gate and kill_switch cancel timers before they validate the transition.
CallCloseGate(p) ==
  \E k \in CloseGateCalls : MayCancel(snap[p], k) /\ Enter(p, k, "cancel")

KillSwitch(p) == \E k \in KillCalls : MayCancel(snap[p], k) /\ Enter(p, k, "cancel")

ManualTask(p) == \E k \in TaskCalls : Enter(p, k, "begin")

RecordMessage(p) == \E k \in RecordCalls : Enter(p, k, "begin")

\* p's operation is over: it returned or raised.
Leave(p) ==
  /\ pc' = [pc EXCEPT ![p] = "ready"]
  /\ call' = [call EXCEPT ![p] = NoCall]

Continue(p, label) == pc' = [pc EXCEPT ![p] = label] /\ UNCHANGED call

\* timers.cancel: a statement of its own, outside any transaction.
CancelTimers(p) ==
  /\ pc[p] = "cancel"
  /\ lock = Free
  /\ timers' = timers \ CancelledTimers(call[p])
  /\ Continue(p, "begin")
  /\ UNCHANGED << row, trail, lock, work, snap >>

\* The transition is refused after the timers were cancelled; they stay so.
Refuse(p) ==
  /\ pc[p] = "begin"
  /\ ~Allowed(snap[p], call[p])
  /\ Leave(p)
  /\ UNCHANGED << row, trail, timers, lock, work, snap >>

----------------------------------------------------------------------------
(* SqliteStore.atomic *)

\* The checks have passed; BEGIN IMMEDIATE takes the write lock.
Begin(p) ==
  /\ pc[p] = "begin"
  /\ Allowed(snap[p], call[p])
  /\ lock = Free
  /\ lock' = p
  /\ work' = [row |-> row, trail |-> trail]
  /\ Continue(p, "save")
  /\ UNCHANGED << row, trail, timers, snap >>

\* Mutant: no busy timeout.
BusyTimeoutNever(p) == FALSE

\* A statement that needs the write lock while another process keeps it raises
\* "database is locked" once the busy timeout is over.
BusyTimeout(p) ==
  /\ pc[p] \in {"cancel", "begin", "arm"}
  /\ lock # Free
  /\ Leave(p)
  /\ UNCHANGED << row, trail, timers, lock, work, snap >>

\* Mutant: UPDATE without the version in its WHERE.
SaveUnchecked(p) ==
  /\ pc[p] = "save"
  /\ work' = [work EXCEPT !.row = Result(snap[p], call[p])]
  /\ Continue(p, "append")
  /\ UNCHANGED << row, trail, timers, lock, snap >>

\* save: UPDATE .. WHERE version = expected changed one row.
Save(p) ==
  /\ pc[p] = "save"
  /\ work.row.version = snap[p].version
  /\ work' = [work EXCEPT !.row = Result(snap[p], call[p])]
  /\ Continue(p, "append")
  /\ UNCHANGED << row, trail, timers, lock, snap >>

\* Mutant: the exception leaves the transaction open.
RollbackForgotten(p) ==
  /\ Leave(p)
  /\ UNCHANGED << row, trail, timers, lock, work, snap >>

\* ROLLBACK, and the exception goes to the caller.
Rollback(p) ==
  /\ lock' = Free
  /\ work' = [row |-> row, trail |-> trail]
  /\ Leave(p)
  /\ UNCHANGED << row, trail, timers, snap >>

\* save changed no row: ConcurrentModification.
SaveConflict(p) ==
  /\ pc[p] = "save"
  /\ work.row.version # snap[p].version
  /\ Rollback(p)

\* append, from _append_audit.
AppendAudit(p) ==
  /\ pc[p] = "append"
  /\ work' = [work EXCEPT !.trail = Append(@, Entry(snap[p], call[p]))]
  /\ Continue(p, "commit")
  /\ UNCHANGED << row, trail, timers, lock, snap >>

\* Mutant: the failed audit write is swallowed.
AuditRefusedSilently(p) ==
  /\ pc[p] = "append"
  /\ Continue(p, "commit")
  /\ UNCHANGED << row, trail, timers, lock, work, snap >>

\* The INSERT is refused (AuditWriteRefused, disk full).
AuditRefused(p) == pc[p] = "append" /\ Rollback(p)

\* Mutant: the caller gets back the case as it was before the save.
CommitKeepsCopy(p) ==
  /\ pc[p] = "commit"
  /\ row' = work.row
  /\ trail' = work.trail
  /\ lock' = Free
  /\ IF call[p].op = "openGate" THEN Continue(p, "arm") ELSE Leave(p)
  /\ UNCHANGED << timers, work, snap >>

\* Mutant: the audit entry is not in the transaction.
CommitWithoutTrail(p) ==
  /\ pc[p] = "commit"
  /\ row' = work.row
  /\ lock' = Free
  /\ snap' = [snap EXCEPT ![p] = work.row]
  /\ IF call[p].op = "openGate" THEN Continue(p, "arm") ELSE Leave(p)
  /\ UNCHANGED << trail, timers, work >>

\* COMMIT; the operation returns the case as saved.  open_gate has its timers to
\* arm first.
Commit(p) ==
  /\ pc[p] = "commit"
  /\ row' = work.row
  /\ trail' = work.trail
  /\ lock' = Free
  /\ snap' = [snap EXCEPT ![p] = work.row]
  /\ IF call[p].op = "openGate" THEN Continue(p, "arm") ELSE Leave(p)
  /\ UNCHANGED << timers, work >>

\* Mutant: the gate's type is passed for the timer's kind.
ArmTimersOfGate(p) ==
  /\ pc[p] = "arm"
  /\ lock = Free
  /\ timers' = timers \cup {call[p].gate}
  /\ Leave(p)
  /\ UNCHANGED << row, trail, lock, work, snap >>

\* _arm_gate_timers, after the transaction.
ArmTimers(p) ==
  /\ pc[p] = "arm"
  /\ lock = Free
  /\ timers' = timers \cup GateTimers(call[p].gate)
  /\ Leave(p)
  /\ UNCHANGED << row, trail, lock, work, snap >>

\* p dies; SQLite drops its uncommitted work, and p starts again from the store.
Crash(p) ==
  /\ pc[p] # "ready"
  /\ IF lock = p
     THEN lock' = Free /\ work' = [row |-> row, trail |-> trail]
     ELSE UNCHANGED << lock, work >>
  /\ snap' = [snap EXCEPT ![p] = row]
  /\ Leave(p)
  /\ UNCHANGED << row, trail, timers >>

----------------------------------------------------------------------------
Operation(p) ==
  \/ Transition(p) \/ UpdateWithoutTransition(p) \/ CallOpenGate(p) \/ CallCloseGate(p)
  \/ KillSwitch(p) \/ ManualTask(p) \/ RecordMessage(p)

\* What p does by itself once it has entered an operation.
Progress(p) ==
  \/ CancelTimers(p) \/ Refuse(p) \/ Begin(p) \/ BusyTimeout(p)
  \/ Save(p) \/ SaveConflict(p) \/ AppendAudit(p) \/ AuditRefused(p) \/ Commit(p) \/ ArmTimers(p)

Next == \E p \in Procs : Read(p) \/ Operation(p) \/ Progress(p) \/ Crash(p)

Spec == Init /\ [][Next]_vars

\* A process that is inside an operation is scheduled again; nothing is assumed
\* of callers, readers and crashes.
FairSpec == Spec /\ \A p \in Procs : WF_vars(Progress(p))

----------------------------------------------------------------------------
(* A copy of the case in a process's memory is never newer than the row, and *)
(* a copy with the row's version is the row: what the version check relies   *)
(* on when it lets a validated copy replace the row (sqlite_store.py:172-192).*)
CopiesAgree ==
  \A p \in Procs :
    /\ snap[p].version <= row.version
    /\ snap[p].version = row.version => snap[p] = row

(* An open transaction holds exactly what its operation has written so far,  *)
(* over the row that the operation validated, and only the holder of the     *)
(* write lock has one.                                                       *)
TransactionsAgree ==
  /\ lock = Free => work = [row |-> row, trail |-> trail]
  /\ \A p \in Procs :
       /\ lock = p <=> pc[p] \in {"save", "append", "commit"}
       /\ pc[p] \in {"save", "append", "commit"} => Allowed(snap[p], call[p])
       /\ pc[p] = "arm" => call[p].op = "openGate"
       /\ pc[p] = "save" => work = [row |-> row, trail |-> trail]
       /\ pc[p] \in {"append", "commit"} =>
            /\ snap[p] = row
            /\ work = [row   |-> Result(row, call[p]),
                       trail |-> IF pc[p] = "append" THEN trail
                                 ELSE Append(trail, Entry(row, call[p]))]

StoreInv ==
  /\ TypeOK
  /\ Sound(row, trail)
  /\ CopiesAgree
  /\ TransactionsAgree

(* The engine implements the ledger: every commit, by whichever process and *)
(* however stale the copy it validated, is one allowed operation on the row *)
(* as committed, and everything else the processes do is invisible          *)
(* (engine.py:156-180, sqlite_store.py:115-192).                            *)
ImplementsLedger == Ledger!Spec

\* The steps, as Runtime counts them, that are left of the call k at a label.
StepsAt(label, k) ==
  (IF label = "cancel" THEN << [do |-> "cancel", call |-> k] >> ELSE << >>)
  \o (IF label \in {"ready", "arm"} THEN << >> ELSE << [do |-> "write", call |-> k] >>)
  \o (IF label # "ready" /\ k.op = "openGate"
      THEN << [do |-> "arm", kinds |-> GateTimers(k.gate)] >> ELSE << >>)

stepsLeft == [p \in Procs |-> StepsAt(pc[p], call[p])]

Ops == INSTANCE Operations WITH
         Receipts    <- {},
         MaxFailures <- 0,
         StartRows   <- {s.row : s \in StartStates},
         prog        <- stepsLeft,
         sent        <- << >>,
         booked      <- 0,
         failures    <- 0

(* To a caller, an operation of the engine is the few steps that Runtime       *)
(* makes of it: cancel, write, arm.  Whatever happens inside of a transaction, *)
(* its commit is the one step at which the case changes, on a copy that passed *)
(* the checks and is the row; the caller gets the new case back; timers move   *)
(* before it or after it only (engine.py:286, 348-360, 374-383).               *)
RunsOperations == Ops!Spec

(* The audit trail and the row never disagree, whatever crashes or conflicts *)
(* happened in between (spec 06 G6: "the Case object and the audit entry are *)
(* written in the same transaction").                                        *)
AuditAccountsForRow == TrailAccountsFor(row, trail)

(* No case is marked sent on the strength of an approval that a concurrent   *)
(* write has replaced (spec 05 G2, state_machine.py:194-201).                *)
SentWasApproved == SendWasApproved(row, trail)

(* The clarification loop stays within its cap, and the case that used it up *)
(* is flagged for Legal, with several processes counting (spec 10 s4).       *)
LoopStaysBounded == LoopIsBounded(row)

(* A write never undoes what another process recorded: gates, once decided,  *)
(* stay as decided; the thread, the processed ids and the loop count only    *)
(* grow; a case under manual handling stays so (no lost update).             *)
Keeps(old, new) ==
  /\ Len(old.gates) <= Len(new.gates)
  /\ \A i \in DOMAIN old.gates :
       /\ new.gates[i].type = old.gates[i].type
       /\ old.gates[i].status # "pending" => new.gates[i] = old.gates[i]
  /\ Len(old.thread) <= Len(new.thread)
  /\ \A i \in DOMAIN old.thread : new.thread[i] = old.thread[i]
  /\ old.processed \subseteq new.processed
  /\ old.loops <= new.loops
  /\ old.manual => new.manual

EvidenceIsKept == [][Keeps(row, row')]_row

(* Once cancelled or closed, a case keeps that status whatever call was in   *)
(* flight when it got there (spec 10 s6: the kill switch "takes precedence   *)
(* over agent-initiated transitions in flight").                             *)
TerminalIsFinal ==
  [][row.status \in TerminalStatuses => row'.status = row.status]_row

(* Nobody keeps the database's write lock: every transaction ends, also when *)
(* the version check or the audit write fails (sqlite_store.py:125-135).     *)
LockIsReleased == []<>(lock = Free)

(* Every operation that was entered comes back to its caller.                *)
OperationsReturn == \A p \in Procs : [](pc[p] # "ready" => <>(pc[p] = "ready"))
=============================================================================
