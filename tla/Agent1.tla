------------------------------- MODULE Agent1 -------------------------------
(***************************************************************************)
(* agent1/graph.py: the graph that turns an inbound mail into a case with  *)
(* a draft at gate 1, run by several processes at the same time, while     *)
(* people kill cases and resolve manual tasks.  A node reads the stored    *)
(* case, asks its tools and then makes its operations of the engine one    *)
(* after the other; an operation is one step here (CaseLedger).  What      *)
(* raises ends the run.                                                    *)
(***************************************************************************)
EXTENDS CaseOps, Integers

CONSTANTS
  Procs,
  Mails,                      \* the messages that may start a run, one per trade
  Quotes, InternalPrices,     \* what the parser and the pricing system may answer
  Sources,                    \* tools.market_data
  Confidences,                \* of the extraction of clauses, in percent
  MinExtractionConfidence,    \* settings.term_sheet.min_extraction_confidence
  Tolerance,                  \* settings.detection.tolerance_for the product, in bps
  NoValue,
  MaxCases,                   \* bound: how many cases are created
  MaxFailures                 \* bound: how many runs crash or fail

ASSUME Agent1Assumption ==
  /\ InternalPrices \subseteq Int /\ Quotes \subseteq Int /\ NoValue \notin Int
  /\ Tolerance \in Nat /\ MinExtractionConfidence \in 0 .. 100
  /\ IsFiniteSet(Procs) /\ MaxCases \in Nat /\ MaxFailures \in Nat

VARIABLES
  cases,      \* the stored cases, in the order they were created
  at,         \* per process: the node that is next, "idle" without a run
  state,      \* per process: the graph state of its run
  copy,       \* per process: the case in the memory of the node
  calls,      \* per process: the operations its last node still has to make
  results,    \* external: the graph states that runs returned
  failures

agent1Vars == << cases, at, state, copy, calls, results, failures >>

Nodes ==
  {"parse_email", "fetch_internal_price", "compute_divergence", "pull_external_prices",
   "create_case", "resolve_term_sheet", "draft_comms", "notify_internal", "submit_gate1"}

\* The fields of Agent1State that routes and operations depend on; case 0 is none.
\* `extract` is the confidence of the clause that was found.
Agent1State ==
  [mail : Mails \cup {NoValue}, quoted : Quotes \cup {NoValue}, internal : InternalPrices \cup {NoValue},
   pulled : SUBSET Sources, extract : Confidences \cup {NoValue}, case : 0 .. MaxCases,
   blocked : BOOLEAN]

Started(m) ==
  [mail |-> m, quoted |-> NoValue, internal |-> NoValue, pulled |-> {},
   extract |-> NoValue, case |-> 0, blocked |-> FALSE]

\* A stored case with the fields that only Agent 1 writes.
StoredCase ==
  [row : Case, mail : Mails, quoted : Quotes, internal : InternalPrices,
   prices : SUBSET Sources, extract : Confidences \cup {NoValue}]

Init ==
  /\ cases = << >>
  /\ at = [p \in Procs |-> "idle"]
  /\ state = [p \in Procs |-> Started(NoValue)]
  /\ copy = [p \in Procs |-> NewCase("DETECTED")]
  /\ calls = [p \in Procs |-> << >>]
  /\ results = {}
  /\ failures = 0

----------------------------------------------------------------------------
(* agent1/rules.py *)

Distance(a, b) == IF a < b THEN b - a ELSE a - b

\* Mutant: the signed difference is compared.
IsBreakSigned(internal, quoted) == (quoted - internal) * 10000 >= Tolerance * internal

\* evaluate_break: abs(quoted - internal) / internal * 10_000 >= tolerance, with the
\* sign of the divisor; compute_divergence raises when it is zero.
IsBreak(internal, quoted) ==
  IF internal > 0 THEN Distance(quoted, internal) * 10000 >= Tolerance * internal
                  ELSE Distance(quoted, internal) * 10000 <= Tolerance * internal

----------------------------------------------------------------------------
(* Steps *)

\* p's run is at a node, and the operations of the one before are made.
Doing(p, node) == at[p] = node /\ calls[p] = << >>

\* The node returns and the run goes on to the next one.
Goto(p, node) == at' = [at EXCEPT ![p] = node]

\* The run is over, and what it had in memory is gone.
Over(p) ==
  /\ Goto(p, "idle")
  /\ state' = [state EXCEPT ![p] = Started(NoValue)]
  /\ copy' = [copy EXCEPT ![p] = NewCase("DETECTED")]
  /\ calls' = [calls EXCEPT ![p] = << >>]

\* An exception ends the run.
Raises(p) == Over(p) /\ UNCHANGED << cases, results, failures >>

\* The case as it is stored.
StoredRow(p) == cases[state[p].case].row

\* A node that reads the stored case and makes operations on it.
CaseNode(p, node, operations, next) ==
  /\ Doing(p, node)
  /\ copy' = [copy EXCEPT ![p] = StoredRow(p)]
  /\ calls' = [calls EXCEPT ![p] = operations]
  /\ Goto(p, next)
  /\ UNCHANGED << cases, results, failures >>

\* The row that operation k writes; TermSheetExtract comes with its transition.
Stored(p, k) ==
  [cases[state[p].case] EXCEPT
     !.row = Result(copy[p], k),
     !.extract = IF k = Move("TERM_SHEET_RESOLVED", FALSE) THEN state[p].extract ELSE @]

\* Mutant: the version is not compared.
OperationUnchecked(p) ==
  /\ calls[p] # << >>
  /\ Allowed(copy[p], Head(calls[p]))
  /\ cases' = [cases EXCEPT ![state[p].case] = Stored(p, Head(calls[p]))]
  /\ copy' = [copy EXCEPT ![p] = Result(@, Head(calls[p]))]
  /\ calls' = [calls EXCEPT ![p] = Tail(@)]
  /\ UNCHANGED << at, state, results, failures >>

\* The transaction of an operation commits ...
Operation(p) ==
  /\ calls[p] # << >>
  /\ Allowed(copy[p], Head(calls[p])) /\ copy[p].version = StoredRow(p).version
  /\ cases' = [cases EXCEPT ![state[p].case] = Stored(p, Head(calls[p]))]
  /\ copy' = [copy EXCEPT ![p] = Result(@, Head(calls[p]))]
  /\ calls' = [calls EXCEPT ![p] = Tail(@)]
  /\ UNCHANGED << at, state, results, failures >>

\* Mutant: the exception is swallowed and the run goes on.
OperationGivenUp(p) ==
  /\ calls[p] # << >>
  /\ ~Allowed(copy[p], Head(calls[p])) \/ copy[p].version # StoredRow(p).version
  /\ calls' = [calls EXCEPT ![p] = << >>]
  /\ UNCHANGED << cases, at, state, copy, results, failures >>

\* ... or it raises.
OperationRaises(p) ==
  /\ calls[p] # << >>
  /\ ~Allowed(copy[p], Head(calls[p])) \/ copy[p].version # StoredRow(p).version
  /\ Raises(p)

----------------------------------------------------------------------------
(* The nodes *)

\* External: the listener starts a run for a mail, whether or not one was started for
\* it before.
Trigger(p, m) ==
  /\ at[p] = "idle"
  /\ Len(cases) + Cardinality({q \in Procs : at[q] # "idle" /\ state[q].case = 0}) < MaxCases
  /\ Goto(p, "parse_email")
  /\ state' = [state EXCEPT ![p] = Started(m)]
  /\ UNCHANGED << cases, copy, calls, results, failures >>

\* A node that only changes the graph state.
StateNode(p, node, newState, next) ==
  /\ Doing(p, node)
  /\ state' = [state EXCEPT ![p] = newState]
  /\ Goto(p, next)
  /\ UNCHANGED << cases, copy, calls, results, failures >>

ParseEmail(p) ==
  \E quoted \in Quotes :
    StateNode(p, "parse_email", [state[p] EXCEPT !.quoted = quoted], "fetch_internal_price")

FetchInternalPrice(p) ==
  \E internal \in InternalPrices :
    StateNode(p, "fetch_internal_price", [state[p] EXCEPT !.internal = internal],
              "compute_divergence")

\* The parser or the pricing system is exhausted, or the mail has no trade or no price.
NoPriceToCompare(p) ==
  (Doing(p, "parse_email") \/ Doing(p, "fetch_internal_price")) /\ Raises(p)

\* route_after_divergence included.
ComputeDivergence(p) ==
  /\ state[p].internal # 0
  /\ StateNode(p, "compute_divergence", state[p],
               IF IsBreak(state[p].internal, state[p].quoted)
               THEN "pull_external_prices" ELSE "END")

ZeroPriceRaises(p) ==
  Doing(p, "compute_divergence") /\ state[p].internal = 0 /\ Raises(p)

\* parallel_call_tools keeps the sources that answered (ParallelPull).
PullExternalPrices(p) ==
  \E pulled \in SUBSET Sources :
    StateNode(p, "pull_external_prices", [state[p] EXCEPT !.pulled = pulled], "create_case")

\* Orchestrator.create_case and then the transition.
CreateCase(p) ==
  /\ Doing(p, "create_case")
  /\ cases' = Append(cases,
       [row |-> NewCase("DETECTED"), mail |-> state[p].mail, quoted |-> state[p].quoted,
        internal |-> state[p].internal, prices |-> state[p].pulled, extract |-> NoValue])
  /\ state' = [state EXCEPT ![p].case = Len(cases')]
  /\ copy' = [copy EXCEPT ![p] = NewCase("DETECTED")]
  /\ calls' = [calls EXCEPT ![p] = << Move("PRICES_PULLED", FALSE) >>]
  /\ Goto(p, "resolve_term_sheet")
  /\ UNCHANGED << results, failures >>

ClauseIsCertain(extract) == extract # NoValue /\ extract >= MinExtractionConfidence

\* Mutant: any clause that was found is drafted on.
ResolveTermSheetAnyClause(p) ==
  \E extract \in Confidences :
    /\ CaseNode(p, "resolve_term_sheet", << Move("TERM_SHEET_RESOLVED", FALSE) >>, "draft_comms")
    /\ state' = [state EXCEPT ![p].extract = extract]

ResolveTermSheet(p) ==
  \E extract \in Confidences :
    /\ ClauseIsCertain(extract)
    /\ CaseNode(p, "resolve_term_sheet", << Move("TERM_SHEET_RESOLVED", FALSE) >>, "draft_comms")
    /\ state' = [state EXCEPT ![p].extract = extract]

\* Mutant: a kind of task that blocks nothing.
BlockOnUnknownTask(p) ==
  /\ CaseNode(p, "resolve_term_sheet", << [op |-> "raiseTask", kind |-> "TERM_SHEET"] >>, "END")
  /\ state' = [state EXCEPT ![p].blocked = TRUE]

\* Mutant: the run ends without a task for anyone.
BlockWithoutTask(p) ==
  /\ CaseNode(p, "resolve_term_sheet", << >>, "END")
  /\ state' = [state EXCEPT ![p].blocked = TRUE]

\* The document or the extraction is exhausted, or there is no clause that is certain.
BlockOnTermSheet(p) ==
  /\ CaseNode(p, "resolve_term_sheet",
              << [op |-> "raiseTask", kind |-> "TERM_SHEET_LOOKUP"] >>, "END")
  /\ state' = [state EXCEPT ![p].blocked = TRUE]

DraftComms(p) ==
  /\ Doing(p, "draft_comms") /\ cases[state[p].case].prices # {}
  /\ CaseNode(p, "draft_comms", << Move("COMMS_DRAFTED", FALSE) >>, "notify_internal")
  /\ UNCHANGED state

\* build_draft refuses a case without reference prices.
DraftRaises(p) == Doing(p, "draft_comms") /\ cases[state[p].case].prices = {} /\ Raises(p)

\* The notification is not wrapped in call_tool; that it raises is a BreakOff.
NotifyInternal(p) == StateNode(p, "notify_internal", state[p], "submit_gate1")

\* HumanGateService.submit_for_approval.
SubmitGate1(p) ==
  /\ CaseNode(p, "submit_gate1",
              << Update("agent"), Open("PRE_SEND_REVIEW", "PENDING_ANALYST_APPROVAL") >>, "END")
  /\ UNCHANGED state

\* invoke returns the graph state to whoever triggered the run.
Return(p) ==
  /\ Doing(p, "END")
  /\ results' = results \cup {state[p]}
  /\ Over(p)
  /\ UNCHANGED << cases, failures >>

----------------------------------------------------------------------------
(* A person's operation on the case as it is stored. *)

HumanOperation(i, k) ==
  /\ Allowed(cases[i].row, k)
  /\ cases' = [cases EXCEPT ![i].row = Result(@, k)]
  /\ UNCHANGED << at, state, copy, calls, results, failures >>

KillSwitch(i) == HumanOperation(i, Kill)

ResolveManualTask(i) ==
  /\ "TERM_SHEET_LOOKUP" \in cases[i].row.tasks
  /\ HumanOperation(i, [op |-> "resolveTask", kind |-> "TERM_SHEET_LOOKUP"])

\* p crashes, or its step fails for a reason of its own.
BreakOff(p) ==
  /\ at[p] # "idle" /\ failures < MaxFailures
  /\ failures' = failures + 1
  /\ Over(p)
  /\ UNCHANGED << cases, results >>

----------------------------------------------------------------------------
RunStep(p) ==
  \/ ParseEmail(p) \/ FetchInternalPrice(p) \/ NoPriceToCompare(p) \/ ComputeDivergence(p)
  \/ ZeroPriceRaises(p) \/ PullExternalPrices(p) \/ CreateCase(p) \/ ResolveTermSheet(p)
  \/ BlockOnTermSheet(p) \/ DraftComms(p) \/ DraftRaises(p) \/ NotifyInternal(p)
  \/ SubmitGate1(p) \/ Return(p) \/ Operation(p) \/ OperationRaises(p)

Next ==
  \/ \E p \in Procs : (\E m \in Mails : Trigger(p, m)) \/ RunStep(p) \/ BreakOff(p)
  \/ \E i \in DOMAIN cases : KillSwitch(i) \/ ResolveManualTask(i)

Spec == Init /\ [][Next]_agent1Vars

\* A run that was started goes on; who triggers runs, kills and resolves owes nothing.
FairSpec == Spec /\ \A p \in Procs : WF_agent1Vars(RunStep(p))

----------------------------------------------------------------------------
TypeOK ==
  /\ cases \in Seq(StoredCase) /\ Len(cases) <= MaxCases
  /\ at \in [Procs -> Nodes \cup {"idle", "END"}]
  /\ state \in [Procs -> Agent1State]
  /\ copy \in [Procs -> Case]
  /\ \A p \in Procs : calls[p] \in Seq(Calls)
  /\ results \subseteq Agent1State
  /\ failures \in 0 .. MaxFailures

(* A break at or above the tolerance, in either direction, of a price that   *)
(* is positive.                                                              *)
Breaks(internal, quoted) ==
  \/ quoted * 10000 >= internal * (10000 + Tolerance)
  \/ quoted * 10000 <= internal * (10000 - Tolerance)

(* Breaks, and only breaks, become cases: every stored case is one, and a    *)
(* run that returned without a case saw none (rules.py:25-48, FR1).          *)
BreaksBecomeCases ==
  /\ \A i \in DOMAIN cases : Breaks(cases[i].internal, cases[i].quoted)
  /\ \A r \in results : r.case = 0 => ~Breaks(r.internal, r.quoted)

(* Nothing is drafted, parked or put to an analyst on a clause that was not  *)
(* extracted with enough confidence, nor while someone still has to look the *)
(* clause up (agent1/graph.py:192-251, spec 05 G4, spec 10 s1).              *)
DraftRestsOnClause ==
  \A i \in DOMAIN cases :
    LET row == cases[i].row
    IN  \/ row.status \in {"TERM_SHEET_RESOLVED", "COMMS_DRAFTED", "PENDING_ANALYST_APPROVAL"}
        \/ row.draft # "none" \/ row.gates # << >>
        => /\ cases[i].extract # NoValue /\ cases[i].extract >= MinExtractionConfidence
           /\ row.tasks = {}

(* What a run returned is what it left in the store, however often it met a  *)
(* person or another run on the way: a blocked case was never drafted, any   *)
(* other was put to an analyst with its draft (graph.py:300-313).            *)
ResultTellsTheCase ==
  \A r \in results :
    r.case # 0 =>
      LET row == cases[r.case].row
      IN  IF r.blocked
          THEN row.status \in {"PRICES_PULLED", "CANCELLED"} /\ row.draft = "none"
          ELSE /\ row.status \in {"PENDING_ANALYST_APPROVAL", "CANCELLED"}
               /\ row.draft = "agent" /\ HasOpenGate(row, {"PRE_SEND_REVIEW"})

(* A run that is under way when its case is killed neither revives it nor    *)
(* puts it to an analyst (engine.py:369-371, spec 10 s6).                    *)
KilledIsLeftAlone ==
  [][\A i \in DOMAIN cases :
       cases[i].row.status = "CANCELLED" =>
         /\ cases'[i].row.status = "CANCELLED"
         /\ cases'[i].row.gates = cases[i].row.gates]_agent1Vars

InHands(i) ==
  /\ i \in DOMAIN cases
  /\ LET row == cases[i].row
     IN  row.status = "CANCELLED" \/ HasOpenGate(row, GateTypes) \/ row.tasks # {}

Created(i) == i \in DOMAIN cases /\ cases[i].row.status = "DETECTED"
Unpriced(i) == i \in DOMAIN cases /\ cases[i].prices = {}

(* Unless a run fails, a case that was created ends up with a person: at     *)
(* gate 1, as a manual task, or killed (FR7).  A case for which no source    *)
(* gave a reference price is the exception.                                  *)
CasesAreHandedOn ==
  \A i \in 1 .. MaxCases :
    Created(i) ~> failures > 0 \/ Unpriced(i) \/ InHands(i)

(* What the repository's documents say, and a run refutes: with all of its   *)
(* sources failing a case goes on to gate 1 as well, "flag                   *)
(* partial_price_data=true on the Case; route to Human gate 1 with a warning *)
(* rather than auto-blocking" (spec 10 s1), and every failure mode resolves  *)
(* to a defined state.                                                       *)
NoCaseIsStranded == \A i \in 1 .. MaxCases : Created(i) ~> failures > 0 \/ InHands(i)
=============================================================================
