---------------------------- MODULE EngineProofs ----------------------------
(***************************************************************************)
(* Engine implements CaseLedger and Operations, and keeps its row and      *)
(* trail sound, for any number of processes, any set of messages, any loop *)
(* cap and any bound on versions.  The inductive invariant is StoreInv of  *)
(* Engine.                                                                 *)
(***************************************************************************)
EXTENDS Engine, CaseOpsProofs

LEMMA InitStoreInv == Init => StoreInv
<1> SUFFICES ASSUME Init PROVE StoreInv
  OBVIOUS
<1>1. Sound(row, trail)
  BY StartStatesAssumption DEF Init
<1>2. row \in Case /\ trail \in Seq(AuditEntries) /\ row.version \in Nat
  BY <1>1 DEF Sound, Case
<1>3. NoCall \in Calls
  BY DEF NoCall, Calls, KillCalls
<1>4. TypeOK
  BY <1>2, <1>3 DEF Init, TypeOK, Labels
<1>5. CopiesAgree
  BY <1>2 DEF Init, CopiesAgree
<1>6. TransactionsAgree
  BY FreeAssumption DEF Init, TransactionsAgree
<1> QED BY <1>1, <1>4, <1>5, <1>6 DEF StoreInv

\* Commit is the ledger's step; every other step leaves row and trail alone.
LEMMA CommitOperates ==
  ASSUME StoreInv, NEW p \in Procs, Commit(p)
  PROVE  /\ call[p] \in Calls
         /\ Ledger!Operate(call[p])
<1>1. call[p] \in Calls
  BY DEF StoreInv, TypeOK
<1>2. pc[p] = "commit" /\ snap[p] = row /\ Allowed(row, call[p])
  BY DEF Commit, StoreInv, TransactionsAgree
<1>3. work = [row |-> Result(row, call[p]), trail |-> Append(trail, Entry(row, call[p]))]
  BY <1>2 DEF StoreInv, TransactionsAgree
<1>4. row' = Result(row, call[p]) /\ trail' = Append(trail, Entry(row, call[p]))
  BY <1>3 DEF Commit
<1> QED BY <1>1, <1>2, <1>4 DEF Ledger!Operate

\* Entering an operation: with one of the calls, at its first statement, and past the
\* checks that come before it.
LEMMA OperationEnters ==
  ASSUME NEW p \in Procs, Operation(p)
  PROVE  \E k \in Calls, label \in {"begin", "cancel"} :
            /\ Enter(p, k, label)
            /\ IF label = "cancel" THEN CancelsTimers(k) /\ MayCancel(snap[p], k)
                                   ELSE ~CancelsTimers(k) /\ Allowed(snap[p], k)
<1> USE DEF CancelsTimers
<1>1. CASE Transition(p)
  BY <1>1 DEF Transition, Allowed, Calls, TransitionCalls, TransitionCall
<1>2. CASE UpdateWithoutTransition(p)
  BY <1>2 DEF UpdateWithoutTransition, Allowed, Calls, UpdateCalls
<1>3. CASE CallOpenGate(p)
  BY <1>3 DEF CallOpenGate, Allowed, Calls, OpenGateCalls
<1>4. CASE CallCloseGate(p)
  BY <1>4 DEF CallCloseGate, Calls, CloseGateCalls
<1>5. CASE KillSwitch(p)
  BY <1>5 DEF KillSwitch, Calls, KillCalls
<1>6. CASE ManualTask(p)
  BY <1>6 DEF ManualTask, Allowed, Calls, TaskCalls
<1>7. CASE RecordMessage(p)
  BY <1>7 DEF RecordMessage, Allowed, Calls, RecordCalls
<1> QED BY <1>1, <1>2, <1>3, <1>4, <1>5, <1>6, <1>7 DEF Operation

\* The row and the trail move only in a Commit.
LEMMA OnlyCommitWrites ==
  ASSUME [Next]_vars
  PROVE  UNCHANGED << row, trail >> \/ \E p \in Procs : Commit(p)
<1>1. ASSUME NEW p \in Procs, Operation(p)
      PROVE  UNCHANGED << row, trail >>
  BY <1>1, OperationEnters DEF Enter
<1> QED BY <1>1 DEF Next, vars, Read, Progress, CancelTimers, Refuse, Begin, BusyTimeout, Save,
                    SaveConflict, Rollback, AppendAudit, AuditRefused, ArmTimers, Crash

LEMMA SoundIsKept == StoreInv /\ [Next]_vars => Sound(row, trail)'
<1> SUFFICES ASSUME StoreInv, [Next]_vars
             PROVE  Sound(row', trail')
  OBVIOUS
<1>1. Sound(row, trail)
  BY DEF StoreInv
<1>2. CASE UNCHANGED << row, trail >>
  BY <1>1, <1>2
<1>3. CASE \E p \in Procs : Commit(p)
  BY <1>1, <1>3, CommitOperates, SoundStep DEF Ledger!Operate
<1> QED BY <1>2, <1>3, OnlyCommitWrites

\* A process's copy changes only to the row of the moment, or to the row it commits.
LEMMA CopiesMove ==
  ASSUME StoreInv, [Next]_vars
  PROVE  \/ row' = row /\ \A q \in Procs : snap'[q] \in {snap[q], row}
         \/ \E p \in Procs : Commit(p) /\ snap' = [snap EXCEPT ![p] = row']
<1>0. snap \in [Procs -> Case]
  BY DEF StoreInv, TypeOK
<1>1. ASSUME NEW p \in Procs, Operation(p)
      PROVE  UNCHANGED << row, snap >>
  BY <1>1, OperationEnters DEF Enter
<1>2. ASSUME NEW p \in Procs, Read(p) \/ Crash(p)
      PROVE  row' = row /\ snap' = [snap EXCEPT ![p] = row]
  BY <1>2 DEF Read, Crash
<1>3. ASSUME NEW p \in Procs, Progress(p), ~Commit(p)
      PROVE  UNCHANGED << row, snap >>
  BY <1>3 DEF Progress, CancelTimers, Refuse, Begin, BusyTimeout, Save, SaveConflict, Rollback,
              AppendAudit, AuditRefused, ArmTimers
<1>4. ASSUME NEW p \in Procs, Commit(p)
      PROVE  snap' = [snap EXCEPT ![p] = row']
  BY <1>4 DEF Commit
<1> QED BY <1>0, <1>1, <1>2, <1>3, <1>4 DEF Next, vars

LEMMA CopiesAreKept == StoreInv /\ [Next]_vars => CopiesAgree'
<1> SUFFICES ASSUME StoreInv, [Next]_vars
             PROVE  CopiesAgree'
  OBVIOUS
<1>1. row \in Case /\ snap \in [Procs -> Case] /\ CopiesAgree
  BY DEF StoreInv, TypeOK
<1>2. CASE row' = row /\ \A q \in Procs : snap'[q] \in {snap[q], row}
  BY <1>1, <1>2 DEF CopiesAgree, Case
<1>3. CASE \E p \in Procs : Commit(p) /\ snap' = [snap EXCEPT ![p] = row']
  <2>1. PICK p \in Procs : Commit(p) /\ snap' = [snap EXCEPT ![p] = row']
    BY <1>3
  <2>2. row' = Result(row, call[p]) /\ call[p] \in Calls
    BY <2>1, CommitOperates DEF Ledger!Operate
  <2>3. row'.version = row.version + 1 /\ row.version \in Nat
    BY <1>1, <2>2, ResultType DEF Case
  <2>4. \A q \in Procs : snap[q].version \in Nat
    BY <1>1 DEF Case
  <2> QED BY <1>1, <2>1, <2>3, <2>4 DEF CopiesAgree
<1> QED BY <1>2, <1>3, CopiesMove

----------------------------------------------------------------------------
LEMMA ResultsAreTyped ==
  ASSUME StoreInv, NEW p \in Procs
  PROVE  Result(snap[p], call[p]) \in Case /\ Entry(snap[p], call[p]) \in AuditEntries
BY ResultType, EntryType DEF StoreInv, TypeOK

\* The timers that open_gate arms are timers.
LEMMA GateTimersAreTimers ==
  ASSUME NEW k \in Calls, k.op = "openGate"
  PROVE  GateTimers(k.gate) \subseteq TimerKinds
<1>1. k.gate \in GateTypes
  BY CallKinds DEF OpenGateCalls
<1> QED BY <1>1 DEF TimerKinds, AllGateTimers

LEMMA TypeIsKept == StoreInv /\ [Next]_vars => TypeOK'
<1> SUFFICES ASSUME StoreInv, [Next]_vars
             PROVE  TypeOK'
  OBVIOUS
<1> USE DEF TypeOK
<1>0. TypeOK
  BY DEF StoreInv
<1>1. CASE UNCHANGED vars
  BY <1>0, <1>1 DEF vars
<1>2. ASSUME NEW p \in Procs, Read(p)
      PROVE  TypeOK'
  BY <1>0, <1>2 DEF Read
<1>3. ASSUME NEW p \in Procs, Operation(p)
      PROVE  TypeOK'
  BY <1>0, <1>3, OperationEnters DEF Enter, Labels
<1>4. ASSUME NEW p \in Procs, CancelTimers(p)
      PROVE  TypeOK'
  BY <1>0, <1>4 DEF CancelTimers, Continue, Labels
<1>5. ASSUME NEW p \in Procs, Begin(p)
      PROVE  TypeOK'
  BY <1>0, <1>5 DEF Begin, Continue, Labels
<1>6. ASSUME NEW p \in Procs,
             Refuse(p) \/ BusyTimeout(p) \/ SaveConflict(p) \/ AuditRefused(p) \/ Crash(p)
      PROVE  TypeOK'
  <2>1. NoCall \in Calls
    BY DEF NoCall, Calls, KillCalls
  <2>2. /\ row \in Case /\ UNCHANGED << row, trail, timers >>
        /\ lock' \in {lock, Free} /\ work' \in {work, [row |-> row, trail |-> trail]}
        /\ pc' = [pc EXCEPT ![p] = "ready"] /\ call' = [call EXCEPT ![p] = NoCall]
        /\ snap' \in {snap, [snap EXCEPT ![p] = row]}
    BY <1>0, <1>6 DEF Refuse, BusyTimeout, SaveConflict, AuditRefused, Crash, Rollback, Leave
  <2>3. /\ row' \in Case /\ trail' \in Seq(AuditEntries) /\ timers' \in SUBSET TimerKinds
        /\ lock' \in Procs \cup {Free}
        /\ work' \in [row : Case, trail : Seq(AuditEntries)]
    BY <1>0, <2>2
  <2>4. pc' \in [Procs -> Labels] /\ call' \in [Procs -> Calls]
    BY <1>0, <2>1, <2>2 DEF Labels
  <2>5. snap' \in [Procs -> Case]
    BY <1>0, <2>2
  <2> QED BY <2>3, <2>4, <2>5
<1>7. ASSUME NEW p \in Procs, Save(p) \/ AppendAudit(p)
      PROVE  TypeOK'
  <2>1. Result(snap[p], call[p]) \in Case /\ Entry(snap[p], call[p]) \in AuditEntries
    BY ResultsAreTyped
  <2>2. CASE Save(p)
    BY <1>0, <2>1, <2>2 DEF Save, Continue, Labels
  <2>3. CASE AppendAudit(p)
    <3>1. Append(work.trail, Entry(snap[p], call[p])) \in Seq(AuditEntries)
      BY <1>0, <2>1
    <3> QED BY <1>0, <2>3, <3>1 DEF AppendAudit, Continue, Labels
  <2> QED BY <1>7, <2>2, <2>3
<1>8. ASSUME NEW p \in Procs, Commit(p)
      PROVE  TypeOK'
  <2>1. NoCall \in Calls
    BY DEF NoCall, Calls, KillCalls
  <2> QED BY <1>0, <1>8, <2>1 DEF Commit, Continue, Leave, Labels
<1>9. ASSUME NEW p \in Procs, ArmTimers(p)
      PROVE  TypeOK'
  <2>1. NoCall \in Calls
    BY DEF NoCall, Calls, KillCalls
  <2>2. call[p].op = "openGate"
    BY <1>9 DEF ArmTimers, StoreInv, TransactionsAgree
  <2>3. timers \cup GateTimers(call[p].gate) \in SUBSET TimerKinds
    BY <1>0, <2>2, GateTimersAreTimers
  <2> QED BY <1>0, <1>9, <2>1, <2>3 DEF ArmTimers, Leave, Labels
<1> QED BY <1>1, <1>2, <1>3, <1>4, <1>5, <1>6, <1>7, <1>8, <1>9 DEF Next, Progress

LEMMA TransactionsAreKept == StoreInv /\ [Next]_vars => TransactionsAgree'
<1> SUFFICES ASSUME StoreInv, [Next]_vars
             PROVE  TransactionsAgree'
  OBVIOUS
<1>0. TypeOK /\ TransactionsAgree
  BY DEF StoreInv
<1> USE DEF TransactionsAgree
<1>1. CASE UNCHANGED vars
  BY <1>0, <1>1 DEF vars
<1>2. ASSUME NEW p \in Procs, Read(p)
      PROVE  TransactionsAgree'
  BY <1>0, <1>2 DEF Read, TypeOK
<1>3. ASSUME NEW p \in Procs, Operation(p)
      PROVE  TransactionsAgree'
  <2>1. PICK k \in Calls, label \in {"begin", "cancel"} : Enter(p, k, label)
    BY <1>3, OperationEnters
  <2> QED BY <1>0, <2>1 DEF Enter, TypeOK
<1>4. ASSUME NEW p \in Procs, CancelTimers(p)
      PROVE  TransactionsAgree'
  BY <1>0, <1>4 DEF CancelTimers, Continue, TypeOK
<1>5. ASSUME NEW p \in Procs, Begin(p)
      PROVE  TransactionsAgree'
  BY <1>0, <1>5, FreeAssumption DEF Begin, Continue, TypeOK
<1>6. ASSUME NEW p \in Procs, Refuse(p) \/ BusyTimeout(p) \/ ArmTimers(p)
      PROVE  TransactionsAgree'
  BY <1>0, <1>6 DEF Refuse, BusyTimeout, ArmTimers, Leave, TypeOK
<1>7. ASSUME NEW p \in Procs, SaveConflict(p) \/ AuditRefused(p)
      PROVE  TransactionsAgree'
  BY <1>0, <1>7, FreeAssumption DEF SaveConflict, AuditRefused, Rollback, Leave, TypeOK
<1>8. ASSUME NEW p \in Procs, Crash(p)
      PROVE  TransactionsAgree'
  BY <1>0, <1>8, FreeAssumption DEF Crash, Leave, TypeOK
<1>9. ASSUME NEW p \in Procs, Save(p)
      PROVE  TransactionsAgree'
  <2>1. snap[p] = row
    BY <1>0, <1>9 DEF Save, StoreInv, CopiesAgree
  <2> QED BY <1>0, <1>9, <2>1, FreeAssumption DEF Save, Continue, TypeOK
<1>10. ASSUME NEW p \in Procs, AppendAudit(p)
       PROVE  TransactionsAgree'
  <2>1. /\ pc[p] = "append" /\ lock = p /\ snap[p] = row
        /\ work = [row |-> Result(row, call[p]), trail |-> trail]
        /\ UNCHANGED << row, trail, lock, snap, call >>
        /\ pc' = [pc EXCEPT ![p] = "commit"]
        /\ Allowed(snap[p], call[p])
    BY <1>0, <1>10 DEF AppendAudit, Continue
  <2>2. work' = [row |-> Result(row, call[p]), trail |-> Append(trail, Entry(row, call[p]))]
    BY <2>1, <1>10 DEF AppendAudit
  <2>3. pc'[p] = "commit" /\ \A q \in Procs \ {p} : pc'[q] = pc[q]
    BY <2>1, <1>0 DEF TypeOK
  <2>4. \A q \in Procs \ {p} : pc[q] \notin {"save", "append", "commit"}
    BY <2>1, <1>0
  <2>5. lock' # Free
    BY <2>1, FreeAssumption
  <2> QED BY <1>0, <2>1, <2>2, <2>3, <2>4, <2>5
<1>11. ASSUME NEW p \in Procs, Commit(p)
       PROVE  TransactionsAgree'
  BY <1>0, <1>11, FreeAssumption DEF Commit, Continue, Leave, TypeOK
<1> QED BY <1>1, <1>2, <1>3, <1>4, <1>5, <1>6, <1>7, <1>8, <1>9, <1>10, <1>11
        DEF Next, Progress

\* No operation undoes what the row records: one case per kind of field it writes.
LEMMA KeepsStep ==
  ASSUME NEW c \in Case, NEW k \in Calls
  PROVE  Keeps(c, Result(c, k))
<1> SUFFICES ASSUME NEW new, new = Result(c, k) PROVE Keeps(c, new)
  OBVIOUS
<1>1. /\ c.gates \in Seq(GateRecord) /\ c.thread \in Seq(Messages)
      /\ c.processed \in SUBSET Messages /\ c.loops \in Nat /\ c.manual \in BOOLEAN
  BY DEF Case
<1>2. new.gates = c.gates
        => /\ Len(c.gates) <= Len(new.gates)
           /\ \A i \in DOMAIN c.gates :
                /\ new.gates[i].type = c.gates[i].type
                /\ c.gates[i].status # "pending" => new.gates[i] = c.gates[i]
  BY <1>1
<1>3. new.thread = c.thread
        => /\ Len(c.thread) <= Len(new.thread)
           /\ \A i \in DOMAIN c.thread : new.thread[i] = c.thread[i]
  BY <1>1
<1>4. CASE k \in CloseGateCalls /\ k.op = "closeGate"
  <2>1. k.gate \in GateTypes /\ k.verdict \in GateStatuses
    BY <1>4 DEF CloseGateCalls, GateTypes, GateStatuses
  <2>2. /\ new.gates = WithVerdict(c, k.gate, k.verdict)
        /\ new.thread = c.thread /\ new.processed = c.processed /\ new.manual = c.manual
        /\ new.loops \in {c.loops, c.loops + 1}
    BY <1>4 DEF Result, WithClosedGate, Case
  <2>3. Len(new.gates) = Len(c.gates)
    BY <2>1, <2>2, VerdictType
  <2>4. \A i \in DOMAIN c.gates :
          /\ new.gates[i].type = c.gates[i].type
          /\ c.gates[i].status # "pending" => new.gates[i] = c.gates[i]
    <3> SUFFICES ASSUME NEW i \in DOMAIN c.gates
                 PROVE  /\ new.gates[i].type = c.gates[i].type
                        /\ c.gates[i].status # "pending" => new.gates[i] = c.gates[i]
      OBVIOUS
    <3>1. c.gates[i] \in GateRecord
      BY <1>1
    <3>2. new.gates[i] = IF IsOpenGate(c, {k.gate}, i)
                         THEN [c.gates[i] EXCEPT !.status = k.verdict] ELSE c.gates[i]
      BY <2>2 DEF WithVerdict
    <3>3. IsOpenGate(c, {k.gate}, i) => c.gates[i].status = "pending"
      BY DEF IsOpenGate, PendingGates
    <3> QED BY <3>1, <3>2, <3>3 DEF GateRecord
  <2> QED BY <1>1, <1>3, <2>2, <2>3, <2>4 DEF Keeps
<1>5. CASE k \in OpenGateCalls /\ k.op = "openGate"
  <2>1. /\ new.gates = Append(c.gates, [type |-> k.gate, status |-> "pending"])
        /\ new.thread = c.thread /\ new.processed = c.processed
        /\ new.loops = c.loops /\ new.manual = c.manual
    BY <1>5 DEF Result, WithOpenGate, Case
  <2>2. [type |-> k.gate, status |-> "pending"] \in GateRecord
    BY <1>5 DEF OpenGateCalls, GateRecord, GateStatuses
  <2>3. /\ Len(c.gates) <= Len(new.gates)
        /\ \A i \in DOMAIN c.gates : new.gates[i] = c.gates[i]
    BY <1>1, <2>1, <2>2
  <2> QED BY <1>1, <1>3, <2>1, <2>3 DEF Keeps
<1>6. CASE k \in RecordCalls /\ k.op = "record"
  <2>1. /\ new.gates = c.gates /\ new.thread = Append(c.thread, k.message)
        /\ new.processed = c.processed \cup {k.message}
        /\ new.loops = c.loops /\ new.manual = c.manual
    BY <1>6 DEF Result, WithMessage, Case
  <2>2. k.message \in Messages
    BY <1>6 DEF RecordCalls
  <2>3. /\ Len(c.thread) <= Len(new.thread)
        /\ \A i \in DOMAIN c.thread : new.thread[i] = c.thread[i]
    BY <1>1, <2>1, <2>2
  <2> QED BY <1>1, <1>2, <2>1, <2>3 DEF Keeps
<1>7. CASE k.op \in {"transition", "update", "kill", "raiseTask", "resolveTask"}
  <2>1. /\ new.gates = c.gates /\ new.thread = c.thread /\ new.processed = c.processed
        /\ new.loops = c.loops /\ (c.manual => new.manual)
    BY <1>7 DEF Result, WithTransition, WithUpdate, WithKill, WithTask, Case
  <2> QED BY <1>1, <1>2, <1>3, <2>1 DEF Keeps
<1> QED BY <1>4, <1>5, <1>6, <1>7, CallKinds

----------------------------------------------------------------------------
(* What the engine does is what Runtime makes of its operations.  The instance *)
(* Ops has its own copies of CaseOps's definitions; they mean the same.        *)

LEMMA SameCalls == Ops!Calls = Calls
BY DEF Calls, TransitionCalls, TransitionCall, UpdateCalls, OpenGateCalls,
       CloseGateCalls, KillCalls, TaskCalls, RecordCalls, GateTypes, GateStatuses,
       TaskKinds, Ops!Calls, Ops!TransitionCalls, Ops!TransitionCall,
       Ops!UpdateCalls, Ops!OpenGateCalls, Ops!CloseGateCalls, Ops!KillCalls,
       Ops!TaskCalls, Ops!RecordCalls, Ops!GateTypes, Ops!GateStatuses,
       Ops!TaskKinds

LEMMA SameChecks == ASSUME NEW c, NEW k PROVE Ops!Allowed(c, k) = Allowed(c, k)
BY DEF Allowed, TransitionAllowed, OpenGateAllowed, CloseGateAllowed, KillAllowed,
       GateActionable, Context, MayTransition, IllegalTransition, GuardrailRefuses,
       Guardrails, BlockingTasks, AllowedTargets, Transitions, TerminalStatuses,
       HasApprovedGate, HasOpenGate, PendingGates, Ops!Allowed,
       Ops!TransitionAllowed, Ops!OpenGateAllowed, Ops!CloseGateAllowed,
       Ops!KillAllowed, Ops!GateActionable, Ops!Context, Ops!MayTransition,
       Ops!IllegalTransition, Ops!GuardrailRefuses, Ops!Guardrails,
       Ops!BlockingTasks, Ops!AllowedTargets, Ops!Transitions,
       Ops!TerminalStatuses, Ops!HasApprovedGate, Ops!HasOpenGate, Ops!PendingGates

LEMMA SameResults == ASSUME NEW c, NEW k PROVE Ops!Result(c, k) = Result(c, k)
BY DEF Result, WithTransition, WithUpdate, WithOpenGate, WithClosedGate, WithKill,
       WithMessage, WithTask, TargetStatus, WrittenResolution, WithVerdict,
       IsOpenGate, PendingGates, Ops!Result, Ops!WithTransition, Ops!WithUpdate,
       Ops!WithOpenGate, Ops!WithClosedGate, Ops!WithKill, Ops!WithMessage,
       Ops!WithTask, Ops!TargetStatus, Ops!WrittenResolution, Ops!WithVerdict,
       Ops!IsOpenGate, Ops!PendingGates

LEMMA SameCancelChecks == ASSUME NEW c, NEW k PROVE Ops!MayCancel(c, k) = MayCancel(c, k)
BY DEF MayCancel, GateActionable, HasOpenGate, PendingGates, Ops!MayCancel,
       Ops!GateActionable, Ops!HasOpenGate, Ops!PendingGates

LEMMA SameCancelledTimers ==
  ASSUME NEW k PROVE Ops!CancelledTimers(k) = CancelledTimers(k)
BY DEF CancelledTimers, AllGateTimers, TimerKinds, GateTimers, GateTypes,
       Ops!CancelledTimers, Ops!AllGateTimers, Ops!TimerKinds, Ops!GateTimers,
       Ops!GateTypes

CancelStep(k) == [do |-> "cancel", call |-> k]
WriteStep(k) == [do |-> "write", call |-> k]
ArmStep(k) == [do |-> "arm", kinds |-> GateTimers(k.gate)]

LEMMA TwoInARow == ASSUME NEW x, NEW y PROVE << x >> \o << y >> = << x, y >>
<1> DEFINE s == << x >> \o << y >>
           t == << x, y >>
           S == {x, y}
<1>1. << x >> \in Seq(S) /\ << y >> \in Seq(S) /\ t \in Seq(S)
  OBVIOUS
<1>2. s \in Seq(S) /\ Len(s) = 2 /\ s[1] = x /\ s[2] = y
  BY <1>1
<1>3. Len(t) = 2 /\ t[1] = x /\ t[2] = y
  OBVIOUS
<1> HIDE DEF s, t, S
<1>4. s = t
  BY <1>1, <1>2, <1>3
<1> QED BY <1>4 DEF s, t

\* What << a >>, << b >> and << >> may be put together to.
LEMMA Joined ==
  ASSUME NEW x, NEW y
  PROVE  /\ (<< >> \o << >>) \o << >> = << >>
         /\ (<< >> \o << >>) \o << y >> = << y >>
         /\ (<< >> \o << x >>) \o << >> = << x >>
         /\ (<< >> \o << x >>) \o << y >> = << x, y >>
         /\ (<< x >> \o << y >>) \o << >> = << x, y >>
<1>1. << >> \o << >> = << >> /\ << >> \o << x >> = << x >> /\ << >> \o << y >> = << y >>
  OBVIOUS
<1>2. << x >> \o << >> = << x >> /\ << x, y >> \o << >> = << x, y >>
  OBVIOUS
<1> QED BY <1>1, <1>2, TwoInARow, Zenon

LEMMA FirstOfOne ==
  ASSUME NEW a, NEW s, s = << a >>
  PROVE  Head(s) = a /\ s # << >> /\ << >> \o Tail(s) = << >>
OBVIOUS

LEMMA FirstOfTwo ==
  ASSUME NEW a, NEW b, NEW s, s = << a, b >>
  PROVE  Head(s) = a /\ s # << >> /\ << >> \o Tail(s) = << b >>
OBVIOUS

\* What is left of a call at each label.
LEMMA StepsAtLabels ==
  ASSUME NEW k
  PROVE  /\ StepsAt("ready", k) = << >>
         /\ k.op # "openGate" => StepsAt("cancel", k) = << CancelStep(k), WriteStep(k) >>
         /\ \A label \in {"begin", "save", "append", "commit"} :
              /\ k.op # "openGate" => StepsAt(label, k) = << WriteStep(k) >>
              /\ k.op = "openGate" => StepsAt(label, k) = << WriteStep(k), ArmStep(k) >>
         /\ k.op = "openGate" => StepsAt("arm", k) = << ArmStep(k) >>
<1> DEFINE cancel == CancelStep(k)
           write == WriteStep(k)
           arm == ArmStep(k)
<1>1. \A label :
        StepsAt(label, k) =
          ((IF label = "cancel" THEN << cancel >> ELSE << >>)
           \o (IF label \in {"ready", "arm"} THEN << >> ELSE << write >>))
          \o (IF label # "ready" /\ k.op = "openGate" THEN << arm >> ELSE << >>)
  BY Zenon DEF StepsAt, CancelStep, WriteStep, ArmStep
<1> HIDE DEF cancel, write, arm
<1> USE Joined
<1>2. /\ StepsAt("ready", k) = << >>
      /\ k.op = "openGate" => StepsAt("arm", k) = << arm >>
      /\ k.op # "openGate" => StepsAt("cancel", k) = << cancel, write >>
  BY <1>1
<1>3. ASSUME NEW label \in {"begin", "save", "append", "commit"}
      PROVE  /\ k.op # "openGate" => StepsAt(label, k) = << write >>
             /\ k.op = "openGate" => StepsAt(label, k) = << write, arm >>
  BY <1>1
<1> QED BY <1>2, <1>3 DEF cancel, write, arm

\* The steps of a whole operation are those that are left when it is entered.
LEMMA OperationSteps ==
  ASSUME NEW k \in Calls
  PROVE  Ops!Operation(k) = StepsAt(IF CancelsTimers(k) THEN "cancel" ELSE "begin", k)
<1> DEFINE cancel == CancelStep(k)
           write == WriteStep(k)
           arm == ArmStep(k)
<1>1. Ops!Operation(k) = ((IF CancelsTimers(k) THEN << cancel >> ELSE << >>) \o << write >>)
                           \o (IF k.op = "openGate" THEN << arm >> ELSE << >>)
  BY Zenon DEF Ops!Operation, Ops!CancelsTimers, CancelsTimers, Ops!Cancel, Ops!Write,
     Ops!Arm, Ops!GateTimers, GateTimers, CancelStep, WriteStep, ArmStep
<1>2. CancelsTimers(k) => k.op # "openGate"
  BY DEF CancelsTimers
<1>3. /\ k.op # "openGate" => /\ StepsAt("cancel", k) = << cancel, write >>
                              /\ StepsAt("begin", k) = << write >>
      /\ k.op = "openGate" => StepsAt("begin", k) = << write, arm >>
  BY StepsAtLabels
<1> HIDE DEF cancel, write, arm
<1>4. CASE k.op # "openGate"
  BY <1>1, <1>3, <1>4, Joined
<1>5. CASE k.op = "openGate"
  BY <1>1, <1>2, <1>3, <1>5, Joined
<1> QED BY <1>4, <1>5

\* Only the steps left of the process that moves change.
LEMMA OneMoves ==
  ASSUME TypeOK, NEW p \in Procs, NEW label, NEW k,
         pc' = [pc EXCEPT ![p] = label], call' = [call EXCEPT ![p] = k]
  PROVE  /\ stepsLeft' = [stepsLeft EXCEPT ![p] = StepsAt(label, k)]
         /\ stepsLeft[p] = StepsAt(pc[p], call[p])
<1>1. ASSUME NEW q \in Procs
      PROVE  StepsAt(pc'[q], call'[q]) = IF q = p THEN StepsAt(label, k)
                                         ELSE StepsAt(pc[q], call[q])
  BY DEF TypeOK
<1> QED BY <1>1 DEF stepsLeft

\* A process is about to cancel timers only if its call does so and may.
CancelsAgree ==
  \A p \in Procs : pc[p] = "cancel" => CancelsTimers(call[p]) /\ MayCancel(snap[p], call[p])

LEMMA CancelsAreKept == StoreInv /\ CancelsAgree /\ [Next]_vars => CancelsAgree'
<1> SUFFICES ASSUME StoreInv, CancelsAgree, [Next]_vars
             PROVE  CancelsAgree'
  OBVIOUS
<1>0. pc \in [Procs -> Labels] /\ call \in [Procs -> Calls] /\ snap \in [Procs -> Case]
  BY DEF StoreInv, TypeOK
<1> USE DEF CancelsAgree
<1>1. ASSUME NEW p \in Procs, Operation(p)
      PROVE  CancelsAgree'
  <2>1. PICK k \in Calls, label \in {"begin", "cancel"} :
          Enter(p, k, label) /\ (label = "cancel" => CancelsTimers(k) /\ MayCancel(snap[p], k))
    BY <1>1, OperationEnters
  <2> QED BY <1>0, <2>1 DEF Enter
<1>2. ASSUME NEW p \in Procs, Read(p)
      PROVE  CancelsAgree'
  BY <1>0, <1>2 DEF Read
<1>3. ASSUME NEW p \in Procs, Progress(p) \/ Crash(p)
      PROVE  CancelsAgree'
  <2>1. pc'[p] # "cancel" /\ \A q \in Procs \ {p} : UNCHANGED << pc[q], call[q], snap[q] >>
    BY <1>0, <1>3 DEF Progress, CancelTimers, Refuse, Begin, BusyTimeout, Save, SaveConflict,
       Rollback, AppendAudit, AuditRefused, Commit, ArmTimers, Crash, Leave, Continue
  <2> QED BY <2>1
<1> QED BY <1>1, <1>2, <1>3 DEF Next, vars

\* An operation that ends without its write is lost.
LEMMA LeavingIsLosing ==
  ASSUME TypeOK, NEW p \in Procs, pc[p] \in {"cancel", "begin", "save", "append", "commit"}
                                    \/ (pc[p] = "arm" /\ call[p].op = "openGate"),
         pc[p] = "cancel" => call[p].op # "openGate",
         Leave(p), UNCHANGED << row, timers >>,
         snap' \in {snap, [snap EXCEPT ![p] = row]}
  PROVE  Ops!Lose(p)
<1>1. /\ stepsLeft' = [stepsLeft EXCEPT ![p] = StepsAt("ready", NoCall)]
      /\ stepsLeft[p] = StepsAt(pc[p], call[p])
  BY OneMoves DEF Leave
<1>2. StepsAt("ready", NoCall) = << >> /\ stepsLeft[p] # << >>
  BY <1>1, StepsAtLabels
<1> QED BY <1>1, <1>2 DEF Ops!Lose, Ops!Idle, Ops!Raise

\* Every step of the engine is a step of Operations, or none.
LEMMA OperationsStep ==
  ASSUME StoreInv, CancelsAgree, [Next]_vars
  PROVE  [Ops!Next]_(Ops!vars)
<1>0. TypeOK /\ TransactionsAgree
  BY DEF StoreInv
<1> USE DEF Ops!vars
<1>1. CASE UNCHANGED vars
  BY <1>1 DEF vars, stepsLeft
<1>2. ASSUME NEW p \in Procs, Read(p)
      PROVE  Ops!Next
  <2>1. UNCHANGED stepsLeft
    BY <1>2 DEF Read, stepsLeft
  <2>2. stepsLeft[p] = << >>
    BY <1>2, StepsAtLabels DEF Read, stepsLeft
  <2>3. Ops!Read(p)
    BY <1>2, <2>1, <2>2 DEF Read, Ops!Read, Ops!Idle
  <2> QED BY <2>3 DEF Ops!Next
<1>3. ASSUME NEW p \in Procs, Operation(p)
      PROVE  Ops!Next
  <2>1. PICK k \in Calls, label \in {"begin", "cancel"} :
          Enter(p, k, label) /\ label = IF CancelsTimers(k) THEN "cancel" ELSE "begin"
    BY <1>3, OperationEnters
  <2>2. /\ stepsLeft' = [stepsLeft EXCEPT ![p] = Ops!Operation(k)]
        /\ stepsLeft[p] = << >>
    <3>1. /\ pc[p] = "ready" /\ pc' = [pc EXCEPT ![p] = label]
          /\ call' = [call EXCEPT ![p] = k]
      BY <2>1 DEF Enter
    <3>2. /\ stepsLeft' = [stepsLeft EXCEPT ![p] = StepsAt(label, k)]
          /\ stepsLeft[p] = StepsAt(pc[p], call[p])
      <4>1. TypeOK
        BY <1>0
      <4> QED BY <3>1, <4>1, OneMoves, Zenon
    <3>3. StepsAt(label, k) = Ops!Operation(k)
      BY <2>1, OperationSteps
    <3> QED BY <3>1, <3>2, <3>3, StepsAtLabels
  <2>3. Ops!CallOperation(p)
    BY <2>1, <2>2, SameCalls DEF Enter, Ops!CallOperation, Ops!Idle
  <2> QED BY <2>3 DEF Ops!Next
<1>4. ASSUME NEW p \in Procs, CancelTimers(p)
      PROVE  Ops!Next
  <2>1. /\ pc[p] = "cancel" /\ call[p].op # "openGate" /\ MayCancel(snap[p], call[p])
        /\ pc' = [pc EXCEPT ![p] = "begin"] /\ call' = [call EXCEPT ![p] = call[p]]
    BY <1>0, <1>4 DEF CancelTimers, Continue, CancelsAgree, CancelsTimers, TypeOK
  <2>2. /\ stepsLeft[p] = << CancelStep(call[p]), WriteStep(call[p]) >>
        /\ stepsLeft' = [stepsLeft EXCEPT ![p] = << WriteStep(call[p]) >>]
    <3>1. /\ stepsLeft' = [stepsLeft EXCEPT ![p] = StepsAt("begin", call[p])]
          /\ stepsLeft[p] = StepsAt("cancel", call[p])
      BY <1>0, <2>1, OneMoves
    <3> QED BY <2>1, <3>1, StepsAtLabels
  <2>3. /\ Head(stepsLeft[p]) = CancelStep(call[p])
        /\ << >> \o Tail(stepsLeft[p]) = << WriteStep(call[p]) >>
    BY <2>2
  <2>4. /\ CancelStep(call[p]).do = "cancel" /\ CancelStep(call[p]).call = call[p]
        /\ stepsLeft[p] # << >>
    BY <2>2 DEF CancelStep
  <2>5. Ops!CancelTimers(p)
    BY <1>4, <2>1, <2>2, <2>3, <2>4, SameCancelChecks, SameCancelledTimers
       DEF CancelTimers, Ops!CancelTimers, Ops!Doing, Ops!Idle, Ops!Then
  <2> QED BY <2>5 DEF Ops!Next, Ops!EngineStep
<1>5. ASSUME NEW p \in Procs,
             Refuse(p) \/ BusyTimeout(p) \/ SaveConflict(p) \/ AuditRefused(p) \/ Crash(p)
      PROVE  Ops!Next
  <2>1. /\ Leave(p) /\ UNCHANGED << row, timers >>
        /\ snap' \in {snap, [snap EXCEPT ![p] = row]}
        /\ pc[p] # "ready"
    BY <1>5 DEF Refuse, BusyTimeout, SaveConflict, AuditRefused, Crash, Rollback
  <2>2. /\ pc[p] \in {"cancel", "begin", "save", "append", "commit"}
             \/ (pc[p] = "arm" /\ call[p].op = "openGate")
        /\ pc[p] = "cancel" => call[p].op # "openGate"
    BY <1>0, <2>1 DEF TypeOK, Labels, TransactionsAgree, CancelsAgree, CancelsTimers
  <2>3. Ops!Lose(p)
    BY <1>0, <2>1, <2>2, LeavingIsLosing
  <2> QED BY <2>3 DEF Ops!Next
<1>6. ASSUME NEW p \in Procs, Begin(p) \/ Save(p) \/ AppendAudit(p)
      PROVE  UNCHANGED Ops!vars
  <2>1. PICK label \in {"save", "append", "commit"} :
          /\ pc' = [pc EXCEPT ![p] = label] /\ call' = [call EXCEPT ![p] = call[p]]
          /\ pc[p] \in {"begin", "save", "append"}
          /\ UNCHANGED << row, timers, snap >>
    BY <1>0, <1>6 DEF Begin, Save, AppendAudit, Continue, TypeOK
  <2>2. StepsAt(label, call[p]) = StepsAt(pc[p], call[p])
    BY <2>1, StepsAtLabels
  <2>3. stepsLeft' = stepsLeft
    BY <1>0, <2>1, <2>2, OneMoves DEF stepsLeft
  <2> QED BY <2>1, <2>3
<1>7. ASSUME NEW p \in Procs, Commit(p)
      PROVE  Ops!Next
  <2> DEFINE k == call[p]
             opens == k.op = "openGate"
  <2>1. /\ pc[p] = "commit" /\ snap[p] = row /\ Allowed(snap[p], k)
        /\ row' = Result(snap[p], k)
        /\ snap' = [snap EXCEPT ![p] = Result(snap[p], k)]
        /\ UNCHANGED timers
    <3>1. pc[p] = "commit" /\ snap[p] = row /\ UNCHANGED timers
      BY <1>0, <1>7 DEF Commit, TransactionsAgree
    <3>2. Allowed(row, k) /\ row' = Result(row, k)
      BY <1>7, CommitOperates DEF Ledger!Operate
    <3>3. snap' = [snap EXCEPT ![p] = row']
      BY <1>7 DEF Commit
    <3> QED BY <3>1, <3>2, <3>3
  <2>2. /\ ~opens => stepsLeft' = [stepsLeft EXCEPT ![p] = << >>]
        /\ opens => stepsLeft' = [stepsLeft EXCEPT ![p] = << ArmStep(k) >>]
    <3>1. CASE ~opens
      <4>1. pc' = [pc EXCEPT ![p] = "ready"] /\ call' = [call EXCEPT ![p] = NoCall]
        BY <1>7, <3>1 DEF Commit, Leave
      <4>2. stepsLeft' = [stepsLeft EXCEPT ![p] = StepsAt("ready", NoCall)]
        BY <1>0, <4>1, OneMoves
      <4> QED BY <3>1, <4>2, StepsAtLabels
    <3>2. CASE opens
      <4>1. pc' = [pc EXCEPT ![p] = "arm"] /\ call' = [call EXCEPT ![p] = k]
        BY <1>0, <1>7, <3>2 DEF Commit, Continue, TypeOK
      <4>2. stepsLeft' = [stepsLeft EXCEPT ![p] = StepsAt("arm", k)]
        BY <1>0, <4>1, OneMoves
      <4> QED BY <3>2, <4>2, StepsAtLabels
    <3> QED BY <3>1, <3>2
  <2>3. /\ ~opens => stepsLeft[p] = << WriteStep(k) >>
        /\ opens => stepsLeft[p] = << WriteStep(k), ArmStep(k) >>
    BY <2>1, StepsAtLabels DEF stepsLeft
  <2>4. /\ Head(stepsLeft[p]) = WriteStep(k) /\ stepsLeft[p] # << >>
        /\ ~opens => << >> \o Tail(stepsLeft[p]) = << >>
        /\ opens => << >> \o Tail(stepsLeft[p]) = << ArmStep(k) >>
    <3>1. CASE opens
      BY <2>3, <3>1, FirstOfTwo
    <3>2. CASE ~opens
      BY <2>3, <3>2, FirstOfOne
    <3> QED BY <3>1, <3>2
  <2>5. WriteStep(k).do = "write" /\ WriteStep(k).call = k
    BY DEF WriteStep
  <2>6. Ops!WriteCase(p)
    <3>1. stepsLeft' = [stepsLeft EXCEPT ![p] = << >> \o Tail(stepsLeft[p])]
      BY <2>2, <2>4
    <3> QED BY <2>1, <2>4, <2>5, <3>1, SameChecks, SameResults
            DEF Ops!WriteCase, Ops!CommitCase, Ops!Doing, Ops!Idle, Ops!Then
  <2> QED BY <2>6 DEF Ops!Next, Ops!EngineStep
<1>8. ASSUME NEW p \in Procs, ArmTimers(p)
      PROVE  Ops!Next
  <2>1. /\ pc[p] = "arm" /\ call[p].op = "openGate"
        /\ pc' = [pc EXCEPT ![p] = "ready"] /\ call' = [call EXCEPT ![p] = NoCall]
    BY <1>0, <1>8 DEF ArmTimers, Leave, TransactionsAgree
  <2>2. /\ stepsLeft[p] = << ArmStep(call[p]) >>
        /\ stepsLeft' = [stepsLeft EXCEPT ![p] = << >>]
    <3>1. /\ stepsLeft' = [stepsLeft EXCEPT ![p] = StepsAt("ready", NoCall)]
          /\ stepsLeft[p] = StepsAt("arm", call[p])
      BY <1>0, <2>1, OneMoves
    <3> QED BY <2>1, <3>1, StepsAtLabels
  <2>3. /\ Head(stepsLeft[p]) = ArmStep(call[p]) /\ stepsLeft[p] # << >>
        /\ << >> \o Tail(stepsLeft[p]) = << >>
    BY <2>2
  <2>4. /\ ArmStep(call[p]).do = "arm" /\ ArmStep(call[p]).kinds = GateTimers(call[p].gate)
    BY DEF ArmStep
  <2>5. Ops!ArmTimers(p)
    BY <1>8, <2>2, <2>3, <2>4 DEF ArmTimers, Ops!ArmTimers, Ops!Doing, Ops!Idle, Ops!Then
  <2> QED BY <2>5 DEF Ops!Next, Ops!EngineStep
<1> QED BY <1>1, <1>2, <1>3, <1>4, <1>5, <1>6, <1>7, <1>8 DEF Next, Progress

----------------------------------------------------------------------------
(* The engine's invariant, for any number of processes, any cap, any set of *)
(* messages and any history the case starts from: the committed row and its *)
(* trail account for each other, every SENT was approved and the loop is     *)
(* bounded (Sound), copies are never ahead of the row, and an open           *)
(* transaction holds what its operation validated.                           *)
THEOREM StoreInvariant == Spec => []StoreInv
<1>1. Init => StoreInv
  BY InitStoreInv
<1>2. StoreInv /\ [Next]_vars => StoreInv'
  BY TypeIsKept, SoundIsKept, CopiesAreKept, TransactionsAreKept DEF StoreInv
<1> QED BY <1>1, <1>2, PTL DEF Spec

(* Whatever the processes do, the store holds a case, a trail, timers and a   *)
(* transaction of the right shape, and every process is where its operation   *)
(* can be.                                                                    *)
THEOREM TypesAreKept == Spec => []TypeOK
<1>1. StoreInv => TypeOK
  BY DEF StoreInv
<1> QED BY <1>1, StoreInvariant, PTL

(* An open transaction holds what its operation validated on a copy that is   *)
(* the committed row: nothing else is ever written.                           *)
THEOREM TransactionsAreHonest == Spec => []TransactionsAgree
<1>1. StoreInv => TransactionsAgree
  BY DEF StoreInv
<1> QED BY <1>1, StoreInvariant, PTL

(* The audit trail always accounts for the row: no crash, conflict or        *)
(* refused audit write separates them.                                       *)
THEOREM AuditIsComplete == Spec => []AuditAccountsForRow
<1>1. StoreInv => AuditAccountsForRow
  BY DEF StoreInv, Sound, AuditAccountsForRow
<1> QED BY <1>1, StoreInvariant, PTL

(* A case is sent only on an approval recorded before it, whatever races.    *)
THEOREM OnlyApprovedIsSent == Spec => []SentWasApproved
<1>1. StoreInv => SentWasApproved
  BY DEF StoreInv, Sound, SentWasApproved
<1> QED BY <1>1, StoreInvariant, PTL

(* The clarification loop never passes its cap, and at the cap the case is   *)
(* flagged for Legal, however many processes count.                          *)
THEOREM LoopNeverPassesCap == Spec => []LoopStaysBounded
<1>1. StoreInv => LoopStaysBounded
  BY DEF StoreInv, Sound, LoopStaysBounded
<1> QED BY <1>1, StoreInvariant, PTL

(* The engine implements the ledger: its commits are the ledger's allowed    *)
(* operations, and every other step leaves the ledger where it was.          *)
THEOREM Refinement == Spec => ImplementsLedger
<1>1. Init => Ledger!Init
  BY DEF Init, Ledger!Init
<1>2. StoreInv /\ [Next]_vars => [Ledger!Next]_(Ledger!ledgerVars)
  BY OnlyCommitWrites, CommitOperates DEF Ledger!Next, Ledger!Operate, Ledger!ledgerVars
<1> QED BY <1>1, <1>2, StoreInvariant, PTL DEF Spec, ImplementsLedger, Ledger!Spec

(* To its callers an operation is the steps that Runtime makes of it: however *)
(* processes interleave inside transactions, crash, conflict or time out, the *)
(* case changes in one step, on a current copy that passed the checks, timers *)
(* move only before and after it, and the caller gets the new case.  What is  *)
(* shown of the specifications that are built on Runtime (Workflow and those  *)
(* above it) is therefore about handlers that run on this engine.             *)
THEOREM OperationsRefinement == Spec => RunsOperations
<1>1. Init => Ops!Init
  <2> SUFFICES ASSUME Init PROVE Ops!Init
    OBVIOUS
  <2>1. stepsLeft = [p \in Procs |-> << >>]
    BY StepsAtLabels DEF Init, stepsLeft
  <2> QED BY <2>1 DEF Init, Ops!Init
<1>2. Init => CancelsAgree
  BY DEF Init, CancelsAgree
<1>3. Spec => []CancelsAgree
  BY <1>2, CancelsAreKept, StoreInvariant, PTL DEF Spec
<1>4. StoreInv /\ CancelsAgree /\ [Next]_vars => [Ops!Next]_(Ops!vars)
  BY OperationsStep
<1> QED BY <1>1, <1>3, <1>4, StoreInvariant, PTL DEF Spec, RunsOperations, Ops!Spec

(* CANCELLED and CLOSED are final, whatever was in flight when the case got  *)
(* there: a write validated on a copy from before loses by its version.      *)
THEOREM TerminalStatusIsFinal == Spec => TerminalIsFinal
<1>1. StoreInv /\ [Next]_vars
        => [row.status \in TerminalStatuses => row'.status = row.status]_row
  <2> SUFFICES ASSUME StoreInv, [Next]_vars, row' # row, row.status \in TerminalStatuses
               PROVE  row'.status = row.status
    OBVIOUS
  <2>1. PICK p \in Procs : Commit(p)
    BY OnlyCommitWrites
  <2>2. /\ call[p] \in Calls /\ Allowed(row, call[p])
        /\ row' = Result(row, call[p])
    BY <2>1, CommitOperates DEF Ledger!Operate
  <2>3. row \in Case
    BY DEF StoreInv, TypeOK
  <2> QED BY <2>2, <2>3, TerminalStep
<1> QED BY <1>1, StoreInvariant, PTL DEF Spec, TerminalIsFinal

(* A copy of the case in some process's memory is never newer than the row,  *)
(* and is the row whenever it has the row's version: the version check tells *)
(* exactly the stale copies apart.                                           *)
THEOREM CopiesAreHonest == Spec => []CopiesAgree
<1>1. StoreInv => CopiesAgree
  BY DEF StoreInv
<1> QED BY <1>1, StoreInvariant, PTL

(* No write undoes what another process recorded: decided gates, the thread, *)
(* the processed ids, the loop count and manual handling survive all races.  *)
THEOREM NoLostUpdate == Spec => EvidenceIsKept
<1>1. StoreInv /\ [Next]_vars => [Keeps(row, row')]_row
  <2> SUFFICES ASSUME StoreInv, [Next]_vars, row' # row
               PROVE  Keeps(row, row')
    OBVIOUS
  <2>1. PICK p \in Procs : Commit(p)
    BY OnlyCommitWrites
  <2>2. call[p] \in Calls /\ row' = Result(row, call[p])
    BY <2>1, CommitOperates DEF Ledger!Operate
  <2>3. row \in Case
    BY DEF StoreInv, TypeOK
  <2> QED BY <2>2, <2>3, KeepsStep
<1> QED BY <1>1, StoreInvariant, PTL DEF Spec, EvidenceIsKept
=============================================================================
