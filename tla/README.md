# Agentic price reconciliation: TLA+ specifications and proofs

The repository automates the reconciliation of price breaks with
counterparties. One **Case** per break goes from detection (Agent 1) through a
human approval (gate 1), a notice to the counterparty, its reply (Agent 2),
possibly a dispute (human gate 2) with bounded clarification loops, to a
booking write and closure. Everything that happens to a case goes through one
deterministic state machine and is audited.

These modules model that workflow from the code under
`src/reconciliation/`. TLC checks small instances; TLAPS proves the safety of
the engine, the workflow of handlers, Agent 1, the tool calls and the auto-close
decision for all instances.

## 1. Inventory

| Component | State it keeps | Operations | How it interacts |
|---|---|---|---|
| Case model (`domain/`) | the Case record: status, gates, manual tasks, thread, processed ids, draft, loop count, flags, resolution, version | pure reads | everything reads it |
| State machine (`orchestrator/state_machine.py`) | none | `validate_transition` | the engine asks it before every status change |
| Engine (`orchestrator/engine.py`) | none of its own | `transition`, `update_without_transition`, `open_gate`, `close_gate`, `kill_switch`, manual tasks, `record_message` | validates the caller's *copy* of the case, then writes row and audit entry in one store transaction; timers outside of it |
| Store (`store/sqlite_store.py`) | `cases`, `audit_log`, `timers` tables | `atomic`, `create`, `get`, `save` (version check), `append`, timer statements | one connection per process, WAL, `BEGIN IMMEDIATE` |
| Timers (`orchestrator/timers.py`) | rows of `timers`, one per case and kind | `arm`, `cancel`, `due`, `mark_fired` | armed by engine and gates; a sweep outside the repository asks for due ones |
| Human gates (`gates/service.py`) | none | submit, approve/edit & send, reject, reassign, resolve manually, request more info, escalate to Legal, kill | called by the approval UI, any number of people at the same time; several engine operations each |
| Agent 2 (`agent2/`) | LangGraph thread, abandoned at END | four graphs: reply, response-timer expiry, clarification request, closing | called by mail hook, timer sweep, scheduler; each node re-reads the case |
| Agent 1 (`agent1/`) | LangGraph thread | one graph: parse, price, detect, create case, term sheet, draft, submit | calls many tools, ends at gate 1 |
| Classifier, auto-close check (`agent2/intent.py`, `auto_close.py`) | none | `classify` a reply; `evaluate` four criteria | the graph asks the one about its mail, the engine the other about the newest mail on the case |
| Tool wrapper (`orchestrator/tool_wrapper.py`) | a log of calls | `call_tool`: bounded retries with back-off | around every tool of both agents but notifications, comms and dashboard |
| Graph runtime (`orchestrator/graph_runtime.py`) | checkpoint database | `parallel_call_tools`; building the checkpointer | Agent 1's price pull runs one `call_tool` per source in a thread pool |
| Settings, tool contracts, drafting | none | thresholds; protocols and error classes; fixed templates | read by all of the above |

What is hard here:

* **Stale copies.** Callers hold a case while others write it. Only the version
  in `save` protects the row, and nothing protects what happens outside of the
  transaction: timers are cancelled before it and armed after it, mail is sent
  between two of them.
* **Partial handlers.** A human action or a graph node is several transactions.
  A crash, a refused operation or a lost version check between two of them
  leaves the case where no test looks.
* **Redelivery and races of triggers**: the same reply twice, the timer against
  the reply, two people at one gate, the kill switch against everything.
* **Things that must happen**: a wait must end, a gate must be there to act on,
  a settled case must close, a detected case must reach a person.
* **Time**: one timer row per case and kind, armed again by every wait, never
  cancelled by a reply, marked as fired by an id that does not tell waits apart.
* **Decisions by one part about the data of another**: the auto-close check judges
  the newest mail on the thread, the graph resolves at the price of its own.

`PROJECT.json` lists these hazards one by one, each at its line.

What makes the components correct, in short: the engine and store look like one
atomic, audited ledger; the state machine's guardrails hold of the *committed*
case whatever races; a notice goes out at most once and only approved; an open
gate holds its case; nothing closes unbooked; the loop is bounded; no wait, gate
or settled case is stuck; a wait is as long as its window; breaks and only breaks
become cases and each gets to a person; what closes without a human meets all of
spec 06; retries are bounded and a pull comes back.

## 2. Modules

```
StateMachine ── CaseOps ──┬── Engine ───── MCEngine
                          │     └ INSTANCE CaseLedger, Operations
                          ├── Runtime ─┬── Operations
                          │            ├── HumanGates ─┐
                          │            └── Agent2 ─────┴── Workflow ─┬── MCWorkflow
                          │                                          ├── TimedWorkflow ── MCTimed
                          │                        AutoClose ────────┴── Agreement ── MCAgreement
                          ├── Agent1 ── MCAgent1
                          └── Replays (starting cases of the MC modules)

ToolCalls ── MCToolCalls
  └ INSTANCE ParallelPull

CaseOpsProofs ──┬── EngineProofs (Engine)
                ├── WorkflowProofs (Workflow) ──┬── TimedProofs (TimedWorkflow)
                └── Agent1Proofs (Agent1)       ├── ReplyProofs (Agreement)
AutoCloseProofs (AutoClose) ────────────────────┘
ToolCallsProofs (ToolCalls)
```

* **StateMachine**: enums, the Case record, `validate_transition` with its table,
  blocking tasks and guardrails. Pure. A list of manual tasks is the set of open
  kinds; a resolution is kept by origin (the id of the reply whose price the agent
  agreed to, `settled` by an SME, `legal`: the only one without a final price).
* **CaseOps**: an engine operation as a *call* record, with `Allowed(case, call)`
  (all checks it makes), `Result(case, call)` (the row it writes) and
  `Entry(case, call)` (the audit entry). Because these are functions of a case,
  the same call can be judged on a stale copy and on the committed row. The
  calls are exactly those that callers in the repository make. The two fields
  that `request_more_info` adds to its `close_gate` are part of that call.
* **CaseLedger**: the abstract specification: a row and a trail; one allowed
  operation at a time replaces the row and appends its entry, indivisibly.
* **Engine**: the detailed one: several processes, each with its copy (`snap`)
  and position (`pc`), one write lock, an open transaction (`work`). Actions are
  the statements: `Read`; entering each operation; `CancelTimers`, after which the
  operation may still be refused (`Refuse`); `Begin`, `Save` or `SaveConflict`, `AppendAudit` or `AuditRefused`, `Commit`; `ArmTimers`;
  `BusyTimeout`; `Crash`. `ImplementsLedger` and `RunsOperations` are the two
  refinements: what the database sees, and what a caller sees.
* **Runtime**: processes running *handlers*. A handler is straight-line code, kept
  as the sequence of steps still to make (`prog`). A transaction is one step here:
  it succeeds exactly when the checks pass on the copy and the copy is current. Timer
  statements before and after a transaction stay steps of their own. A step that raises drops the rest; so
  does `BreakOff` (a crash, a locked database, a refused audit write, a failing
  tool), at any point. The two or four statements that arm or cancel a gate's
  timers are one step.
* **Operations**: the part of Runtime that is the engine's: processes that read the
  case and make one operation after another, in the steps of Runtime (`EngineStep`),
  any of which may raise. `Engine` implements it (`RunsOperations`), which is why the
  specifications of handlers need not go inside a transaction.
* **HumanGates**: every method of `HumanGateService`. **Agent2**: every node and
  route of the four graphs. What `IntentClassifier` and `AutoCloseCheck` may answer
  is a parameter of its nodes, the *judge*.
* **Workflow**: both over one case, any handler called by any idle process, with
  what reached the counterparty (`sent`) and how often booking was updated
  (`booked`) as external state. Its judge may answer anything,
  but every reply states a price: without one the check lets nothing resolve.
* **TimedWorkflow**: Workflow with a clock (`now`) and the due date of the response
  timer (`due`). A step that arms the timer moves the date; the sweep may be
  called from the date on, and the clock does not pass a date that was not swept.
  `since` and `disturbed` are history: when the wait began, and whether handlers
  crossed in one of the four ways of section 5.
* **AutoClose**: `classify` and `evaluate` as operators of a mail, a trade and the
  set of tools that are down; and `MayCloseUnattended`, spec 06 read independently
  (the price compared by cross-multiplication, the source found by membership, the
  parser's own confidence).
* **Agreement**: Workflow with AutoClose as the judge. What the replies say and what
  the trade is are chosen at the start; the payload of a message on the thread is
  looked up by its id, the newest inbound message is found as the code does.
* **Agent1**: the graph of Agent 1, one action per node, several runs at once, over
  a sequence of stored `cases`. A node that acts on the case reads it (`copy`) and
  leaves the engine operations it will make in `calls`; each is one step that
  commits or raises. People kill cases and resolve manual tasks in between.
* **ParallelPull**: what a caller of `parallel_call_tools` may rely on. **ToolCalls**:
  the threads of the pool, the attempts, answers and delays of `call_tool`, its log
  and the collection of outcomes. `ImplementsPull` is the refinement: a call that is
  queued, calling or sleeping is "pending".
* **Replays**: starting cases as results of sequences of calls from the case that
  Agent 1 creates; an assumption checked by TLC says each call was allowed.
* **CaseOpsProofs**, **EngineProofs**, **WorkflowProofs**, **ReplyProofs**,
  **TimedProofs**, **Agent1Proofs**, **ToolCallsProofs**, **AutoCloseProofs**: the proofs (section 4).
  **MC...**: the instances for TLC.

The operators whose comment starts with "Mutant" are wrong variants of the
definition that follows them. No specification uses them; they serve to show
that each property notices a plausible bug.

## 3. Runs

| Run | Question | Bounds |
|---|---|---|
| `engine` | two processes, all operations, conflicts, refused audit writes, crashes, at gate 1 and at gate 2 with the loop used up or not: invariants, loop cap, the ledger and the operations of handlers implemented, nothing undone | 2 processes, cap 1, 1 message, operations begin up to version 17: two new versions (one in the third start), more when both race |
| `engine_live` | lock released, operations return | 2 processes, up to 2 new versions, fair |
| `wf_front` | Agent 1's submission and two people at gate 1; replies, timer and closing racing while a case waits; one handler broken off: one notice, gates that hold, and changes that the engine allows | 2 processes, version < 11 for new human calls (four left to the draft, two to the waiting case), 1 reply, 1 receipt, no closing started after a booking (those that race it go on), 1 break-off |
| `wf_gate2` | two people at gate 2 against Agent 2 | 2 processes, cap 1, 2 bookings, 1 break-off |
| `wf_serial` | one process, no failure, from draft to closing: progress, and replies recorded once however often they are delivered | 2 replies, cap 2, 2 bookings, fair |
| `timers` | a wait is as long as its window and open gates are watched, from the first wait through a dispute into the wait for the clarification | 2 processes, window 2, clock up to 5: two windows and one tick, so that a timer of the first wait can fall due in the second |
| `agreement` | the criteria, on the newest of two replies, decide what an agreement may do | 1 process, 2 replies (10 kinds of a first mail, two of the second), 4 kinds of trades at and around each threshold, any tools down, 1 break-off |
| `agent1` | mails become cases and cases get to people | 2 runs of one mail, 2 cases, prices of zero, exactly at the tolerance and within it, confidence at and below the threshold, 1 source that may fail, 1 break-off, kills |
| `tools` | retries, log, delays; the batch implements the pull and comes back | 3 sources on 2 threads, 3 attempts (the largest that the settings allow), factor 2 |

`bug_*` runs each refute one statement of the documents or tests (section 5).

**Bounds.** `MaxVersion` stops new operations (Engine) or new human calls
(Workflow) from a version on; handlers already running finish. Two processes
are enough for every race here because a race is between a copy and one newer
row; the proofs cover any number. The bounds leave room for a whole handler of
one process between any two steps of the other, and in `engine` and
`wf_gate2` for two racing requests for the last loop. `MaxFailures`
bounds break-offs, `MaxBookings` the retries of the closing. Deadlock checking is
off wherever a story may be over: a case that is closed, a run that returned, a
clock or a version at its bound. In `timers` the model also stops after a crossing,
of which nothing is stated. One source is enough in `agent1` because only whether
the set of prices is empty matters there; how several arrive is the question of
`tools`.

**Fairness.** In `Engine!FairSpec` a process inside an operation is scheduled
again; nothing is asked of callers. In `Workflow!Fairness`: running handlers go
on (weak); a due response timer is handled again and again (strong: the call
needs an idle process), the job of the sweep that `timers.py` serves; a RESOLVED
case is tried again and again and booking does not fail for ever, the "retried
with backoff" of spec 10 section 1. People and the counterparty owe nothing:
`WaitsEnd` holds because of the timer, not because someone replies. In
`Agent1!FairSpec` a run that was started goes on; in `ToolCalls!FairSpec` threads go
on and a tool that is called answers, by a timeout of the adapter if need be
(`ToolTimeout`). Nobody is obliged to start a run, to kill or to resolve.
`TimedWorkflow` states no fairness: that the sweep is in time is the guard of `Tick`,
and its properties are safety properties.

The progress properties of `Workflow` hold of handlers that neither fail nor meet
another one, and `CasesAreHandedOn` of runs that do not fail. That restriction is not
ours to lift: section 5 has what happens otherwise.

## 4. Proofs

`EngineProofs`, for any set of processes and messages, any positive loop cap, any
bound on versions and any sound starting histories:

* `StoreInvariant`: `StoreInv` is inductive. Its parts: types; `Sound` (the trail
  has one chained entry per version up to the row's status, SENT only with an
  approval on the row, loops within the cap and flagged at it); `CopiesAgree` (a
  copy is never newer than the row, and *is* the row if the versions agree);
  `TransactionsAgree` (only the lock's holder has a transaction, which holds
  exactly what its operation wrote over the row it validated).
* Why the last two are needed: the engine validates a copy but commits to the row.
  After `Save` the version check and `CopiesAgree` make copy and row equal, so the
  check made on the copy was a check of the row; `TransactionsAgree` carries that
  to `Commit` (`CommitOperates`). Every other step leaves row and trail alone
  (`OnlyCommitWrites`).
* From it: `TypesAreKept`, `TransactionsAreHonest`, `AuditIsComplete`, `OnlyApprovedIsSent`, `LoopNeverPassesCap`,
  `CopiesAreHonest`, and `Refinement`: a commit is a ledger step, the rest stutters.
* `OperationsRefinement`: every step of the engine is a step of `Operations` or a
  stutter. `StepsAt` maps a process's label and call to the steps that a handler
  would have left; a commit is the handler's `write`, the statements before it
  stutter, the end without a commit is an operation that raised. The case that is
  difficult is the commit: a handler's write is judged on copy and row when it
  happens, the engine's was judged before its transaction began, which
  `TransactionsAgree` and `CopiesAgree` bridge again; and the two timer statements need
  `CancelsAgree`, that only an operation which cancels timers is about to.
* Action properties: `TerminalStatusIsFinal` and `NoLostUpdate`, which combine the
  same argument with `TerminalStep` and `KeepsStep` about single operations.

`CaseOpsProofs` has the lemmas about single operations, for every case and call:
results are cases one version further, approvals survive, the sound row and trail
stay sound (`SoundStep`).

`ToolCallsProofs`, for any set of sources, size of the pool, bound on attempts and
back-off:

* `BatchInvariant`: types, and per source where its call is against what the tool has
  answered: every answer but the last was retryable, there is one answer per attempt
  made, the log is empty until the call ends. It is needed because none of the
  properties alone says why an attempt may follow.
* `DelaysGrow`: with `DelaysInv` beside it, which ties the delay that is next to the
  last one slept, there is one delay between two calls, each the multiple of the one
  before, and none at the end.
* From them `ToolTypes`, `RetriesBounded`, `LogIsRight`; and `PullRefinement`: the end of a
  call settles its source, the collection of the last outcome is what lets the pull
  return, every other step stutters.

`AutoCloseProofs`, for every mail, trade and set of tools that are down:
`AgreementIsCertain` (what is called an agreement is one, at or above the floor),
`SuspectMailNeverAgrees` (with a floor above one half, a suspected mail is not an
agreement; both thresholds of the settings are), `EligibleMeetsCriteria` (what the
check lets through meets spec 06 as `MayCloseUnattended` reads it). The last one
assumes a positive internal price. It has to: `_within_tolerance` divides by
the signed price, so that with a negative one every stated price is within tolerance
(`auto_close.py:86`), as `agent1/rules.py:29` then finds no break.

`WorkflowProofs`, for any processes, replies, receipts and loop cap, any number of
break-offs at any step, and any orderly case to start from:

* `WorkflowInvariant`: `WorkflowInv` is inductive. Of the case it says `Orderly` (only
  the last gate may be open, and in the status it belongs to; gate 1 follows nothing but
  a reassigned gate 1; approvals of gate 2 are resolutions or counted), `NoticesApproved`
  (one notice, with an approval on file) and `ClosedIsBooked`. None of it is
  inductive alone, because a handler that has half of its steps to make is a promise:
* `Handlers` says what the steps left to do may be (`Good`): a chain in which each
  delicate step comes directly after the one that justifies it (`send` after the
  approval, `open_gate2` after the move to ESCALATED, the attempt to resolve after
  AGREED), no booking without a price, no closing before a booking.
* `Prepared` and `Holds` say what the step that is next may count on: on its copy
  (what a transaction is validated against) and on the stored case (what no other
  handler can undo: the approval is on file and nothing was sent yet; no gate is open
  and the case is at ESCALATED or killed). `Alone` says that no two processes are
  about to send, or about to open a gate. That is the heart of it: the approval and
  the escalation are version-checked, so of two handlers racing for one of them one
  loses, and who won is the only one that goes on.
* `CopiesAgree`, as in the engine, turns what was checked on a copy into something
  about the row at the commit (`Committed`).
* From it `WorkflowIsTyped`, `NoticesFollowApprovals`, `OpenGatesHoldCases`,
  `ClosedCasesAreBooked`, `EveryLoopIsCounted`, and `EveryChangeIsAllowed`: every
  change of the case is an operation that the engine allows on the case as stored.

The judge is a parameter of the lemmas about steps, so that they serve `Agreement`
too. `ReplyProofs` has

* `AgreementInvariant` and `AgreementKeepsWorkflow`: with the classifier and the check
  of the code everything above holds as well (replies without a price included, which
  `Workflow` has not), and whatever is attempted or resolved without a human rests on
  a reply that was classified as an agreement;
* `SuspectMailIsPowerless`, from it and `SuspectMailNeverAgrees`: for any number of
  processes, if the floor is above 500 of 1000 and no parser reports more than 1000;
* `RepliesAreNotRepeated`: with one process, `SerialInv` is inductive. A handler that
  is to record a message does so as its next step and the message is not on the
  thread; each message on the thread is known to be processed, so that the check of
  `dedupe_and_parse` stops the next delivery; a receipt on it was sent, so that a new
  one is another;
* `AgreementsAreJudged`: with one process, positive prices and a positive threshold,
  `JudgedInv` is inductive: while an agreement is handled, its reply is the newest on
  the thread or about to be, hence the answer about the newest reply is the answer
  about the one at whose price the case is resolved. Then `EligibleMeetsCriteria`
  applies.

The restriction to one process is not one of the proof: with two, both are false
(section 5).

`TimedProofs`, for any processes, replies, loop cap, response window and bound of the
clock, while no two handlers have crossed (`disturbed`, the four ways of section 5):

* `TimedImplementsWorkflow`: the clock only restrains the workflow, so that everything
  `WorkflowProofs` shows may be used.
* `TimedInvariant`: `TimedInv` is inductive. `WholeHandlers` is the grammar of what is
  left of a handler, which no status shows: timers are cancelled directly before the
  write of the decision and armed directly after the one that opens a gate or begins a wait.
  `GatesAreWatched` then says in which gaps between two such statements no gate timer is
  armed, and that otherwise the armed ones are those of the open gate; `JustBegun` that a
  wait that still has its window to arm began at this instant; `SweptInTime` that a sweep
  which is going to mark the timer fired escalates first when the case waits;
  `WindowArmed` that a wait has its window armed with the date of its own beginning,
  neither earlier nor later, or someone is about to arm it.
* From it `OpenGatesAreWatched` and `WaitsAreBounded`.
* `SweepInvariant`: `SweepInv` is inductive, on top of both. That no wait is cut short
  needs more than the dates: a case is also escalated by the handler of a reply, and
  that handler may still be under way when a human at gate 2 has begun a new wait.
  `TidyHandlers` says that a handler deals with one reply or one expiry; `OneOwner` that
  only one at a time has taken a reply (the taking is version-checked and leaves the
  wait), that the case is then in none of the statuses a reply is taken from, and that,
  when a sweep escalated it meanwhile, gate 2 is not open yet, or its timers are about to
  be armed: whoever decides at it crosses that sweep. `SweepsWait` says that a sweep at
  work on a case that waits was called after the window.
* From it `WaitsAreNotCutShort`.

`Agent1Proofs`, for any processes, mails, prices, clauses and tolerance:

* `Agent1Invariant`: `Agent1Inv` is inductive. `RunFits` relates the node that a run
  is at and the operations left to it to what is stored of its case, but for kills
  and resolved tasks (`Early` before the case is created, `Stage` after); `Apart` says that no two runs
  work on one case; `ResultFits` is what remains true of a run that returned,
  `CaseFits` of a case whose run broke off. It needs all of these: a draft is allowed
  because of a node that was passed two transactions ago, and only because no other
  run has touched the case.
* From it `Agent1IsTyped`, `OnlyBreaksBecomeCases` (if internal prices are not negative,
  `rules.py:29`), `DraftsRestOnClauses`, `ResultsTellCases`, and the action properties
  `KilledCasesAreLeftAlone` and `EachCaseFollowsEngine` (as in the workflow: every change is
  an operation that is allowed on the case as stored).
* `CasesAreFitToHandOver`: every stored case is one that `Workflow`, `TimedWorkflow` and
  `Agreement` may start from (`Orderly`, and never sent, answered, counted or resolved), also
  when its run broke off or it was killed, and an open gate 1 always has its draft.
  `Fresh` is the invariant; that the gate opens after the draft was parked is what
  `Agent1Inv` knows of the operations left to a run. This joins the two halves of the system:
  what is proved of cases at the gates applies to the cases that Agent 1 creates.

Every inductive invariant was first checked by TLC: `StoreInv` and `CancelsAgree` by the run `engine`, `DelaysInv` on that of `tools`,
`WorkflowInv` on those of `wf_gate2` and `wf_front`, `Agent1Inv` and `Fresh` on that of
`agent1`, `SerialInv`, `JudgedInv` and `AgreedInv` on that of `agreement` and from a
draft with two loops and two receipts, `TimedInv` and `SweepInv` on that of `timers`.

Assumptions on the constants, all evaluated by TLC in the runs:

* `LoopCapAssumption` (the settings require a positive cap), `FreeAssumption` (nobody is
  called "Free"), `StartStatesAssumption` (the story starts from a sound row and
  trail); `WorkersAssumption`, `MaxAttemptsAssumption`, `BackoffAssumption`;
  `AutoCloseAssumption` (thresholds in the ranges the settings check);
* `MessagesAssumption`: replies and receipts are messages, no id is one of the three
  words that stand for other resolutions, and the comms service does not return the
  id of a reply as a receipt; `StartRowsAssumption`: the story starts from an orderly
  case (`Orderly` in `CaseOps`) that is not closed, as those of Agent 1 are; `ThreadsAssumption`: whose thread has no repetition, only
  processed messages, and no receipt of a request that is yet to be sent;
* `AgreementAssumption`: the replies say what a mail can say, the trade is one, and the
  case to start from was not resolved by a reply; `Agent1Assumption`: prices are
  integers, the threshold is a percentage, processes are finitely many;
* `TimedAssumption`: the window is not empty; `WaitingRowsAssumption`: a case that waits at
  the start was approved at gate 1, which the guardrail of SENT asks of every case on its
  way there.

Only model-checked: all liveness, since fairness and ENABLED are out of the prover's
reach. Every invariant, action property and refinement of a passing run is stated by a theorem. What recursive folds compute
(`Replays`) is evaluated, not proved; what the runs of section 5 refute is false.

## 5. What the runs refute

| Run | The code | The document |
|---|---|---|
| `bug_send_after_kill` | `approve_and_send` delivers before SENT is validated; a kill leaves gate 1 pending | spec 10 section 6: the kill "takes precedence over agent-initiated transitions in flight" |
| `bug_agreed_unjudged` | `evaluate_auto_close` judges the newest reply, `reconcile_agreement` resolves at the price of its own | spec 06: the criteria "must ALL hold for Agent 2 to close without human sign-off" |
| `bug_case_stranded` | with no source answering, the case is created and then its draft refused; it stays at TERM_SHEET_RESOLVED without gate or task | spec 10 section 1: "proceed with available sources ... route to Human gate 1 with a warning rather than auto-blocking" |

The model reaches more states that the documents do not foresee, for which no run is
kept. With handlers that fail (`MaxFailures` above 0 in `wf_serial`):

* a crash between AWAITING_RESPONSE and the arming of its timer leaves a wait
  without one (`gates/service.py:238`; `timers.py`: "Every wait in this workflow is
  bounded by a timer"), and `WaitsEnd` fails;
* a crash in `approve_and_send` after the approval, or in `reassign` between its two
  transactions, leaves a case at a gate without an open gate record: every gate action
  raises, and `GateIsReachable` fails (`service.py:206`, `:270`; FR7: no status
  "without a defined next action");
* a crash after a reply was recorded leaves RESPONSE_RECEIVED, and the redelivered
  reply is taken for a duplicate: `RepliesMoveOn` fails (`agent2/graph.py:372`);
* in `Agent1` a run that crashes or whose notification raises is not taken up again:
  its case stays where it was.

With a second process:

* two deliveries of one reply at the same time pass the duplicate check before either
  is recorded, and `RepliesAreRecordedOnce` fails (`agent2/graph.py:372` and `:393`;
  `engine.py:435-436`);
* `open_gate2` opens a gate on a case killed after its escalation, because
  `open_gate` without a target status validates nothing (`agent2/graph.py:258`);
* an Edit & Send that finds gate 1 already closed has replaced the draft on file
  by one that was not sent (`gates/service.py:194`).

The crossings that `TimedWorkflow` sets aside, each of which breaks one of its
properties when it is allowed:

1. a sweep overlaps with the beginning of a wait: the old timer, still armed, ends the
   new wait at once, or `mark_fired` comes late and fires the new timer
   (`timers.py:104`);
2. an operation that has cancelled timers is refused: a kill or a gate decision that
   loses the version check leaves the case without them (`engine.py:349`, `:375`);
3. a handler that has begun a wait is refused the update before the arming of its
   timer, for example `request_more_info` by the record of the clarification request
   (`service.py:347`);
4. the timers of a gate are armed after its transaction while someone else acts
   (`engine.py:286`; against `test_kill_switch_cancels_pending_timers`).

And whatever the processes do: a case that went to Legal has no final price and
no operation that could record one, so it stays RESOLVED (`service.py:363`; spec 07:
"still terminates at RESOLVED → CLOSED"); a resolved TERM_SHEET_LOOKUP task re-enters
nothing, so a blocked case stays at PRICES_PULLED until it is killed
(`agent1/graph.py:206`); two runs of one mail create two cases (`agent1/graph.py:167`;
spec 10 section 5).

## 6. Not modelled

* Texts, dates other than the response timer's, notifications, the dashboard, the
  rendering of drafts. Prices are in `Agent1` and `AutoClose`, as integers.
* The lookups by trade and by reference: no code calls them. The listener that
  starts runs and the sweep that calls for due timers are outside of the repository;
  they are modelled as the docstrings describe their calls.
* The due dates of the gate timers: they are armed and cancelled, but no code handles
  them.
* LangGraph's checkpoints: every trigger starts a fresh invocation at the entry
  node and no caller resumes one; state of an earlier invocation of the same
  thread is overwritten before it is read on the paths that matter here.
* The fakes, the loading of settings, `wal` and busy timeouts as times.
* The dashboard entry of gate 2 and `Gate2Package`: a projection of the case.

## 7. Plan

1. *Done*: StateMachine, CaseOps, CaseLedger, Engine with proofs; Runtime,
   HumanGates, Agent2, Workflow.
2. *Done*: ToolCalls with its abstract ParallelPull and proofs; AutoClose with proofs
   and Agreement; Agent1; TimedWorkflow.
3. *Done*: proofs about Workflow, Agreement, Agent1 and TimedWorkflow.
4. *Done*: the engine as an implementation of the operations that handlers make;
   the delays of tool calls; the cases of Agent 1 as those the workflow starts from.
