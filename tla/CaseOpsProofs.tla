---------------------------- MODULE CaseOpsProofs ----------------------------
(***************************************************************************)
(* What one engine operation does to a sound row and trail, for every case *)
(* and call: the facts the proofs about CaseLedger and Engine rest on.     *)
(***************************************************************************)
EXTENDS CaseOps, TLAPS

\* Each call is one of the seven kinds.
LEMMA CallKinds ==
  ASSUME NEW k \in Calls
  PROVE  \/ k \in TransitionCalls /\ k.op = "transition"
         \/ k \in UpdateCalls /\ k.op = "update"
         \/ k \in OpenGateCalls /\ k.op = "openGate"
         \/ k \in CloseGateCalls /\ k.op = "closeGate"
         \/ k \in KillCalls /\ k.op = "kill"
         \/ k \in TaskCalls /\ k.op \in {"raiseTask", "resolveTask"}
         \/ k \in RecordCalls /\ k.op = "record"
<1>1. \A c \in TransitionCalls : c.op = "transition"
  BY DEF TransitionCalls, TransitionCall
<1>2. \A c \in CloseGateCalls : c.op = "closeGate"
  BY DEF CloseGateCalls
<1>3. /\ \A c \in UpdateCalls : c.op = "update"
      /\ \A c \in OpenGateCalls : c.op = "openGate"
      /\ \A c \in KillCalls : c.op = "kill"
      /\ \A c \in TaskCalls : c.op \in {"raiseTask", "resolveTask"}
      /\ \A c \in RecordCalls : c.op = "record"
  BY DEF UpdateCalls, OpenGateCalls, KillCalls, TaskCalls, RecordCalls
<1> QED BY <1>1, <1>2, <1>3 DEF Calls

\* A closed gate list is again a gate list, of the same length and types.
LEMMA VerdictType ==
  ASSUME NEW c \in Case, NEW gate \in GateTypes, NEW verdict \in GateStatuses
  PROVE  /\ WithVerdict(c, gate, verdict) \in Seq(GateRecord)
         /\ Len(WithVerdict(c, gate, verdict)) = Len(c.gates)
<1> DEFINE w == WithVerdict(c, gate, verdict)
<1>1. c.gates \in Seq(GateRecord)
  BY DEF Case
<1>2. w \in [1 .. Len(c.gates) -> GateRecord]
  <2>1. w = [i \in 1 .. Len(c.gates) |->
               IF IsOpenGate(c, {gate}, i) THEN [c.gates[i] EXCEPT !.status = verdict]
                                           ELSE c.gates[i]]
    BY <1>1 DEF WithVerdict
  <2>2. \A i \in 1 .. Len(c.gates) : c.gates[i] \in GateRecord
    BY <1>1
  <2>3. \A g \in GateRecord : [g EXCEPT !.status = verdict] \in GateRecord
    BY DEF GateRecord
  <2> QED BY <2>1, <2>2, <2>3
<1>3. Len(c.gates) \in Nat
  BY <1>1
<1> QED BY <1>2, <1>3

\* Closing a gate decides a pending one, and no approval is lost.
LEMMA VerdictKeepsApprovals ==
  ASSUME NEW c \in Case, NEW gate \in GateTypes, NEW verdict \in GateStatuses,
         NEW type \in GateTypes, HasApprovedGate(c, type)
  PROVE  \E i \in DOMAIN WithVerdict(c, gate, verdict) :
            /\ WithVerdict(c, gate, verdict)[i].type = type
            /\ WithVerdict(c, gate, verdict)[i].status = "approved"
<1>1. PICK i \in DOMAIN c.gates : c.gates[i].type = type /\ c.gates[i].status = "approved"
  BY DEF HasApprovedGate
<1>2. ~IsOpenGate(c, {gate}, i)
  BY <1>1 DEF IsOpenGate, PendingGates
<1> QED BY <1>1, <1>2 DEF WithVerdict

\* Overwriting fields of a case with values of their types gives a case; one fact
\* per shape of update that the operations make.
LEMMA CaseUpdates ==
  ASSUME NEW c \in Case, NEW v \in Nat
  PROVE  /\ \A s \in Statuses, r \in Resolutions :
              [c EXCEPT !.status = s, !.version = v, !.resolution = r] \in Case
         /\ \A d \in Drafts : [c EXCEPT !.draft = d, !.version = v] \in Case
         /\ \A g \in Seq(GateRecord), s \in Statuses :
              [c EXCEPT !.gates = g, !.status = s, !.version = v] \in Case
         /\ \A s \in Statuses :
              [c EXCEPT !.status = s, !.version = v, !.manual = TRUE] \in Case
         /\ \A ts \in SUBSET TaskKinds : [c EXCEPT !.tasks = ts, !.version = v] \in Case
         /\ \A th \in Seq(Messages), ms \in SUBSET Messages :
              [c EXCEPT !.thread = th, !.processed = ms, !.version = v] \in Case
BY DEF Case

\* Each kind of operation writes a case.
LEMMA TransitionType ==
  ASSUME NEW c \in Case, NEW k \in TransitionCalls
  PROVE  WithTransition(c, k) \in Case
<1>1. k.target \in Statuses /\ k.resolution \in Resolutions
  BY DEF TransitionCalls, TransitionCall, Statuses, Resolutions
<1>2. WrittenResolution(c, k.resolution) \in Resolutions
  BY <1>1 DEF WrittenResolution, Case
<1>3. c.version + 1 \in Nat
  BY DEF Case
<1> QED BY <1>1, <1>2, <1>3, CaseUpdates DEF WithTransition

LEMMA UpdateType ==
  ASSUME NEW c \in Case, NEW k \in UpdateCalls
  PROVE  WithUpdate(c, k) \in Case
<1>1. (IF k.draft = "keep" THEN c.draft ELSE k.draft) \in Drafts
  BY DEF UpdateCalls, Drafts, Case
<1>2. c.version + 1 \in Nat
  BY DEF Case
<1> QED BY <1>1, <1>2, CaseUpdates DEF WithUpdate

LEMMA OpenGateType ==
  ASSUME NEW c \in Case, NEW k \in OpenGateCalls
  PROVE  WithOpenGate(c, k) \in Case
<1>1. Append(c.gates, [type |-> k.gate, status |-> "pending"]) \in Seq(GateRecord)
  BY DEF Case, OpenGateCalls, GateRecord, GateStatuses
<1>2. TargetStatus(c, k.target) \in Statuses
  BY DEF TargetStatus, Case, OpenGateCalls, Statuses
<1>3. c.version + 1 \in Nat
  BY DEF Case
<1> QED BY <1>1, <1>2, <1>3, CaseUpdates DEF WithOpenGate

LEMMA CloseGateType ==
  ASSUME NEW c \in Case, NEW k \in CloseGateCalls
  PROVE  WithClosedGate(c, k) \in Case
<1> DEFINE g == WithVerdict(c, k.gate, k.verdict)
           s == TargetStatus(c, k.target)
           v == c.version + 1
           n == IF k.target = "AWAITING_CLARIFICATION" THEN c.loops + 1 ELSE c.loops
           b == c.legal \/ (k.target = "AWAITING_CLARIFICATION" /\ n >= LoopCap)
           r == WrittenResolution(c, k.resolution)
<1>1. k.gate \in GateTypes /\ k.verdict \in GateStatuses /\ k.resolution \in Resolutions
  BY DEF CloseGateCalls, GateTypes, GateStatuses, Resolutions
<1>2. g \in Seq(GateRecord)
  BY <1>1, VerdictType
<1>3. s \in Statuses
  BY DEF TargetStatus, Case, CloseGateCalls, Statuses
<1>4. r \in Resolutions
  BY <1>1 DEF WrittenResolution, Case
<1>5. n \in Nat /\ v \in Nat
  BY DEF Case
<1>6. b \in BOOLEAN
  OBVIOUS
<1>7. WithClosedGate(c, k) = [c EXCEPT !.gates = g, !.status = s, !.version = v,
                                       !.loops = n, !.legal = b, !.resolution = r]
  BY DEF WithClosedGate
<1> HIDE DEF g, s, v, n, b, r
<1> QED BY <1>2, <1>3, <1>4, <1>5, <1>6, <1>7 DEF Case

LEMMA KillType ==
  ASSUME NEW c \in Case
  PROVE  WithKill(c) \in Case
<1>1. "CANCELLED" \in Statuses
  BY DEF Statuses
<1>2. c.version + 1 \in Nat
  BY DEF Case
<1> QED BY <1>1, <1>2, CaseUpdates DEF WithKill

LEMMA TaskType ==
  ASSUME NEW c \in Case, NEW k \in TaskCalls
  PROVE  WithTask(c, k) \in Case
<1>1. (IF k.op = "raiseTask" THEN c.tasks \cup {k.kind} ELSE c.tasks \ {k.kind})
        \in SUBSET TaskKinds
  BY DEF TaskCalls, Case
<1>2. c.version + 1 \in Nat
  BY DEF Case
<1> QED BY <1>1, <1>2, CaseUpdates DEF WithTask

LEMMA MessageType ==
  ASSUME NEW c \in Case, NEW k \in RecordCalls
  PROVE  WithMessage(c, k) \in Case
<1>1. Append(c.thread, k.message) \in Seq(Messages)
  BY DEF RecordCalls, Case
<1>2. c.processed \cup {k.message} \in SUBSET Messages
  BY DEF RecordCalls, Case
<1>3. c.version + 1 \in Nat
  BY DEF Case
<1> QED BY <1>1, <1>2, <1>3, CaseUpdates DEF WithMessage

\* An operation turns a case into a case, one version further.
LEMMA ResultType ==
  ASSUME NEW c \in Case, NEW k \in Calls
  PROVE  Result(c, k) \in Case /\ Result(c, k).version = c.version + 1
<1>1. Result(c, k) \in Case
  BY CallKinds, TransitionType, UpdateType, OpenGateType, CloseGateType, KillType,
     TaskType, MessageType DEF Result
<1>2. Result(c, k).version = c.version + 1
  BY CallKinds DEF Result, WithTransition, WithUpdate, WithOpenGate, WithClosedGate,
                   WithKill, WithTask, WithMessage, Case
<1> QED BY <1>1, <1>2

\* The audit entry of an operation is an audit entry, from the case's status to
\* the status the operation leaves.
LEMMA EntryType ==
  ASSUME NEW c \in Case, NEW k \in Calls
  PROVE  /\ Entry(c, k) \in AuditEntries
         /\ Entry(c, k).from = c.status
         /\ Entry(c, k).to = Result(c, k).status
<1>1. k.op \in {"transition", "update", "openGate", "closeGate", "kill", "raiseTask",
                "resolveTask", "record"}
  BY CallKinds
<1>2. c.status \in Statuses /\ Result(c, k).status \in Statuses
  BY ResultType DEF Case
<1> QED BY <1>1, <1>2 DEF Entry, AuditEntries

\* An approved gate stays approved through every operation.
LEMMA ApprovalSurvives ==
  ASSUME NEW c \in Case, NEW k \in Calls, NEW type \in GateTypes, HasApprovedGate(c, type)
  PROVE  HasApprovedGate(Result(c, k), type)
<1>0. c.gates \in Seq(GateRecord)
  BY DEF Case
<1>1. CASE k.op = "openGate" /\ k \in OpenGateCalls
  <2>1. PICK i \in DOMAIN c.gates : c.gates[i].type = type /\ c.gates[i].status = "approved"
    BY DEF HasApprovedGate
  <2>2. Result(c, k).gates = Append(c.gates, [type |-> k.gate, status |-> "pending"])
    BY <1>1 DEF Result, WithOpenGate, Case
  <2>3. i \in DOMAIN Result(c, k).gates /\ Result(c, k).gates[i] = c.gates[i]
    BY <1>0, <2>1, <2>2
  <2> QED BY <2>1, <2>3 DEF HasApprovedGate
<1>2. CASE k.op = "closeGate" /\ k \in CloseGateCalls
  <2>1. k.gate \in GateTypes /\ k.verdict \in GateStatuses
    BY <1>2 DEF CloseGateCalls, GateTypes, GateStatuses
  <2>2. Result(c, k).gates = WithVerdict(c, k.gate, k.verdict)
    BY <1>2 DEF Result, WithClosedGate, Case
  <2> QED BY <2>1, <2>2, VerdictKeepsApprovals DEF HasApprovedGate
<1>3. CASE k.op \notin {"openGate", "closeGate"}
  <2>1. Result(c, k).gates = c.gates
    BY <1>3, CallKinds DEF Result, WithTransition, WithUpdate, WithKill, WithTask,
                           WithMessage, Case
  <2> QED BY <2>1 DEF HasApprovedGate
<1> QED BY <1>1, <1>2, <1>3, CallKinds

----------------------------------------------------------------------------
\* The trail still accounts for the row after the row and its entry are written.
LEMMA TrailStep ==
  ASSUME NEW r \in Case, NEW t \in Seq(AuditEntries), NEW k \in Calls, TrailAccountsFor(r, t)
  PROVE  TrailAccountsFor(Result(r, k), Append(t, Entry(r, k)))
<1> DEFINE e == Entry(r, k)
           u == Append(t, e)
<1>1. e \in AuditEntries /\ e.from = r.status /\ e.to = Result(r, k).status
  BY EntryType
<1>2. Result(r, k).version = r.version + 1
  BY ResultType
<1>3. /\ Len(u) = Len(t) + 1 /\ u[Len(u)] = e /\ u # << >>
      /\ \A i \in 1 .. Len(t) : u[i] = t[i]
  BY <1>1
<1>4. Len(t) \in Nat /\ Len(t) >= 1 /\ Len(t) = r.version /\ t[Len(t)].to = r.status
  BY DEF TrailAccountsFor
<1>5. ASSUME NEW i \in 1 .. Len(u) - 1
      PROVE  u[i + 1].from = u[i].to
  <2>1. CASE i = Len(t)
    BY <1>1, <1>3, <1>4, <2>1
  <2>2. CASE i \in 1 .. Len(t) - 1
    BY <1>3, <1>4, <2>2 DEF TrailAccountsFor
  <2> QED BY <1>3, <1>4, <2>1, <2>2
<1> HIDE DEF e, u
<1> QED BY <1>1, <1>2, <1>3, <1>4, <1>5 DEF TrailAccountsFor, e, u

\* An operation that ends in SENT, from another status, was allowed by an approval.
LEMMA SentNeedsApproval ==
  ASSUME NEW r \in Case, NEW k \in Calls, Allowed(r, k),
         r.status # "SENT", Result(r, k).status = "SENT"
  PROVE  HasApprovedGate(r, "PRE_SEND_REVIEW")
<1>1. k \in TransitionCalls /\ k.op = "transition"
  BY CallKinds DEF Result, WithUpdate, WithOpenGate, WithClosedGate, WithKill, WithTask,
                   WithMessage, TargetStatus, OpenGateCalls, CloseGateCalls, Case
<1>2. k.target = "SENT"
  BY <1>1 DEF Result, WithTransition, Case
<1>3. Guardrails(r, "SENT", Context(k.human, k.eligible))
  BY <1>1, <1>2 DEF Allowed, TransitionAllowed, MayTransition, GuardrailRefuses
<1> QED BY <1>3 DEF Guardrails

\* Nothing that is on the trail as sent loses its approval, and nothing joins it
\* without one.
LEMMA SendStep ==
  ASSUME NEW r \in Case, NEW t \in Seq(AuditEntries), NEW k \in Calls, Allowed(r, k),
         TrailAccountsFor(r, t), SendWasApproved(r, t)
  PROVE  SendWasApproved(Result(r, k), Append(t, Entry(r, k)))
<1> DEFINE u == Append(t, Entry(r, k))
<1> SUFFICES ASSUME NEW i \in DOMAIN u, u[i].to = "SENT"
             PROVE  HasApprovedGate(Result(r, k), "PRE_SEND_REVIEW")
  BY DEF SendWasApproved
<1>1. "PRE_SEND_REVIEW" \in GateTypes
  BY DEF GateTypes
<1>2. HasApprovedGate(r, "PRE_SEND_REVIEW")
  <2>0. Entry(r, k) \in AuditEntries /\ Entry(r, k).to = Result(r, k).status
    BY EntryType
  <2>1. CASE i \in DOMAIN t
    BY <2>0, <2>1 DEF SendWasApproved
  <2>2. CASE i = Len(t) + 1
    <3>1. Result(r, k).status = "SENT"
      BY <2>0, <2>2
    <3>2. CASE r.status = "SENT"
      BY <3>2 DEF SendWasApproved, TrailAccountsFor
    <3> QED BY <3>1, <3>2, SentNeedsApproval
  <2> QED BY <2>0, <2>1, <2>2
<1> QED BY <1>1, <1>2, ApprovalSurvives

\* The loop count moves only in request_more_info, which the guardrail refuses at
\* the cap and which flags the case when it gets there.
LEMMA LoopStep ==
  ASSUME NEW r \in Case, NEW k \in Calls, Allowed(r, k), LoopIsBounded(r)
  PROVE  LoopIsBounded(Result(r, k))
<1>0. r.loops \in Nat /\ r.legal \in BOOLEAN /\ LoopCap \in Nat
  BY LoopCapAssumption DEF Case
<1>1. CASE k \in CloseGateCalls /\ k.target = "AWAITING_CLARIFICATION"
  <2>1. k.op = "closeGate"
    BY <1>1 DEF CloseGateCalls
  <2>2. r.loops < LoopCap
    BY <1>1, <2>1 DEF Allowed, CloseGateAllowed, MayTransition, GuardrailRefuses, Guardrails
  <2>3. /\ Result(r, k).loops = r.loops + 1
        /\ r.loops + 1 >= LoopCap => Result(r, k).legal
    BY <1>1, <2>1 DEF Result, WithClosedGate, Case
  <2> QED BY <1>0, <2>2, <2>3 DEF LoopIsBounded
<1>2. CASE ~(k \in CloseGateCalls /\ k.target = "AWAITING_CLARIFICATION")
  <2>1. Result(r, k).loops = r.loops
    BY <1>2, CallKinds DEF Result, WithTransition, WithUpdate, WithOpenGate,
                           WithClosedGate, WithKill, WithTask, WithMessage, Case
  <2>2. r.legal => Result(r, k).legal
    BY <1>2, CallKinds DEF Result, WithTransition, WithUpdate, WithOpenGate,
                           WithClosedGate, WithKill, WithTask, WithMessage, Case
  <2> QED BY <2>1, <2>2 DEF LoopIsBounded
<1> QED BY <1>1, <1>2

\* An allowed operation on a sound row and trail leaves a sound row and trail.
LEMMA SoundStep ==
  ASSUME NEW r, NEW t, NEW k \in Calls, Sound(r, t), Allowed(r, k)
  PROVE  Sound(Result(r, k), Append(t, Entry(r, k)))
<1>1. r \in Case /\ t \in Seq(AuditEntries)
  BY DEF Sound
<1>2. Result(r, k) \in Case /\ Append(t, Entry(r, k)) \in Seq(AuditEntries)
  BY <1>1, ResultType, EntryType
<1> QED BY <1>1, <1>2, TrailStep, SendStep, LoopStep DEF Sound

\* No allowed operation takes a case out of a terminal status: the transition table
\* has no edge from there, and the operations without a target keep the status.
LEMMA TerminalStep ==
  ASSUME NEW r \in Case, NEW k \in Calls, Allowed(r, k), r.status \in TerminalStatuses
  PROVE  Result(r, k).status = r.status
<1>1. \A target, ctx : ~MayTransition(r, target, ctx)
  BY DEF MayTransition, IllegalTransition, AllowedTargets
<1>2. CASE k \in TransitionCalls /\ k.op = "transition"
  BY <1>1, <1>2 DEF Allowed, TransitionAllowed
<1>3. CASE k \in OpenGateCalls /\ k.op = "openGate"
  <2>1. k.target = "none"
    BY <1>1, <1>3 DEF Allowed, OpenGateAllowed
  <2> QED BY <1>3, <2>1 DEF Result, WithOpenGate, TargetStatus, Case
<1>4. CASE k \in CloseGateCalls /\ k.op = "closeGate"
  <2>1. k.target = "none"
    BY <1>1, <1>4 DEF Allowed, CloseGateAllowed
  <2> QED BY <1>4, <2>1 DEF Result, WithClosedGate, TargetStatus, Case
<1>5. CASE k \in KillCalls /\ k.op = "kill"
  BY <1>1, <1>5 DEF Allowed, KillAllowed
<1>6. CASE k.op \in {"update", "raiseTask", "resolveTask", "record"}
  BY <1>6 DEF Result, WithUpdate, WithTask, WithMessage, Case
<1> QED BY <1>2, <1>3, <1>4, <1>5, <1>6, CallKinds
=============================================================================
