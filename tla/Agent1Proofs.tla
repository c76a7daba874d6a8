---------------------------- MODULE Agent1Proofs ----------------------------
(***************************************************************************)
(* Proofs about Agent1: for any number of runs and people, what a run      *)
(* still has to do fits the case it works on, so that breaks and only      *)
(* breaks become cases, drafts rest on certain clauses, and the results    *)
(* of runs tell what is in the store.                                      *)
(***************************************************************************)
EXTENDS Agent1, CaseOpsProofs, FiniteSetTheorems

----------------------------------------------------------------------------
(* The invariant *)

\* The graph state s fits the node before a case is created.
Early(node, s) ==
  /\ s.case = 0 /\ s.blocked = FALSE
  /\ node = "idle" \/ s.mail \in Mails
  /\ node \in {"idle", "parse_email"} \/ s.quoted \in Quotes
  /\ node \in {"idle", "parse_email", "fetch_internal_price"} \/ s.internal \in InternalPrices
  /\ node \in {"pull_external_prices", "create_case"} =>
       s.internal # 0 /\ IsBreak(s.internal, s.quoted)
  /\ node = "END" => s.internal # 0 /\ ~IsBreak(s.internal, s.quoted)
  /\ node \in {"idle", "parse_email", "fetch_internal_price", "compute_divergence",
               "pull_external_prices", "create_case", "END"}

\* The row is as a run of Agent 1 left it, but for kills and resolved tasks.
Looks(r, status, draft, gates, tasks) ==
  /\ r.status \in {status, "CANCELLED"} /\ r.draft = draft /\ r.gates = gates
  /\ r.tasks \subseteq tasks

Gate1Open == << [type |-> "PRE_SEND_REVIEW", status |-> "pending"] >>
LookUp == [op |-> "raiseTask", kind |-> "TERM_SHEET_LOOKUP"]
ParkDraft == Update("agent")
OpenGate1 == Open("PRE_SEND_REVIEW", "PENDING_ANALYST_APPROVAL")

\* What is stored of its case fits the node that a run is at, the graph state and the
\* operations that are still to be made.
Unclaused(c) == c.extract = NoValue
Claused(c) == ClauseIsCertain(c.extract)

Stage(node, ops, s, c) ==
  \/ /\ node = "resolve_term_sheet" /\ ops = << Move("PRICES_PULLED", FALSE) >>
     /\ Looks(c.row, "DETECTED", "none", << >>, {}) /\ Unclaused(c) /\ s.blocked = FALSE
  \/ /\ node = "resolve_term_sheet" /\ ops = << >>
     /\ Looks(c.row, "PRICES_PULLED", "none", << >>, {}) /\ Unclaused(c) /\ s.blocked = FALSE
  \/ /\ node = "draft_comms" /\ ops = << Move("TERM_SHEET_RESOLVED", FALSE) >>
     /\ Looks(c.row, "PRICES_PULLED", "none", << >>, {}) /\ Unclaused(c)
     /\ s.blocked = FALSE /\ ClauseIsCertain(s.extract)
  \/ /\ node = "draft_comms" /\ ops = << >>
     /\ Looks(c.row, "TERM_SHEET_RESOLVED", "none", << >>, {}) /\ Claused(c) /\ s.blocked = FALSE
  \/ /\ node = "notify_internal" /\ ops = << Move("COMMS_DRAFTED", FALSE) >>
     /\ Looks(c.row, "TERM_SHEET_RESOLVED", "none", << >>, {}) /\ Claused(c) /\ s.blocked = FALSE
  \/ /\ node \in {"notify_internal", "submit_gate1"} /\ ops = << >>
     /\ Looks(c.row, "COMMS_DRAFTED", "none", << >>, {}) /\ Claused(c) /\ s.blocked = FALSE
  \/ /\ node = "END" /\ ops = << ParkDraft, OpenGate1 >>
     /\ Looks(c.row, "COMMS_DRAFTED", "none", << >>, {}) /\ Claused(c) /\ s.blocked = FALSE
  \/ /\ node = "END" /\ ops = << OpenGate1 >>
     /\ Looks(c.row, "COMMS_DRAFTED", "agent", << >>, {}) /\ Claused(c) /\ s.blocked = FALSE
  \/ /\ node = "END" /\ ops = << >>
     /\ Looks(c.row, "PENDING_ANALYST_APPROVAL", "agent", Gate1Open, {}) /\ Claused(c)
     /\ s.blocked = FALSE
  \/ /\ node = "END" /\ ops = << LookUp >>
     /\ Looks(c.row, "PRICES_PULLED", "none", << >>, {}) /\ Unclaused(c) /\ s.blocked = TRUE
  \/ /\ node = "END" /\ ops = << >>
     /\ Looks(c.row, "PRICES_PULLED", "none", << >>, {"TERM_SHEET_LOOKUP"}) /\ Unclaused(c)
     /\ s.blocked = TRUE

\* A copy is not ahead of the row, and is the row when it has its version.
Current(held, r) == held.version <= r.version /\ (held.version = r.version => held = r)

RunFits(p) ==
  IF state[p].case = 0
  THEN Early(at[p], state[p]) /\ calls[p] = << >>
  ELSE /\ state[p].case \in DOMAIN cases
       /\ Stage(at[p], calls[p], state[p], cases[state[p].case])
       /\ Current(copy[p], cases[state[p].case].row)

\* A case is the work of one run.
Apart ==
  \A p, q \in Procs : p # q /\ state[p].case # 0 => state[p].case # state[q].case

\* A returned run has left its case alone since.
ResultFits(r) ==
  IF r.case = 0
  THEN Early("END", r)
  ELSE /\ r.case \in DOMAIN cases
       /\ Stage("END", << >>, r, cases[r.case])
       /\ \A p \in Procs : state[p].case # r.case

\* Also of cases whose run is over.
CaseFits(c) ==
  /\ c.internal # 0 /\ IsBreak(c.internal, c.quoted)
  /\ \/ Claused(c) /\ c.row.tasks = {}
     \/ Unclaused(c) /\ c.row.status \in {"DETECTED", "PRICES_PULLED", "CANCELLED"}
        /\ c.row.draft = "none" /\ c.row.gates = << >>

Types ==
  /\ cases \in Seq(StoredCase)
  /\ at \in [Procs -> Nodes \cup {"idle", "END"}]
  /\ state \in [Procs -> Agent1State]
  /\ copy \in [Procs -> Case]
  /\ calls \in [Procs -> Seq(Calls)]
  /\ results \subseteq Agent1State
  /\ failures \in 0 .. MaxFailures

\* The runs that may still create a case.
Creating == {q \in Procs : at[q] # "idle" /\ state[q].case = 0}

Agent1Inv ==
  /\ Types
  /\ Len(cases) + Cardinality(Creating) <= MaxCases
  /\ \A i \in DOMAIN cases : CaseFits(cases[i])
  /\ \A p \in Procs : RunFits(p)
  /\ Apart
  /\ \A r \in results : ResultFits(r)

----------------------------------------------------------------------------
(* Values *)

LEMMA StateType ==
  ASSUME NEW s
  PROVE  s \in Agent1State <=>
           /\ s = [mail |-> s.mail, quoted |-> s.quoted, internal |-> s.internal,
                   pulled |-> s.pulled, extract |-> s.extract, case |-> s.case,
                   blocked |-> s.blocked]
           /\ s.mail \in Mails \cup {NoValue} /\ s.quoted \in Quotes \cup {NoValue}
           /\ s.internal \in InternalPrices \cup {NoValue} /\ s.pulled \in SUBSET Sources
           /\ s.extract \in Confidences \cup {NoValue} /\ s.case \in 0 .. MaxCases
           /\ s.blocked \in BOOLEAN
BY DEF Agent1State

\* The graph states that nodes return.
LEMMA StateUpdates ==
  ASSUME NEW s \in Agent1State
  PROVE  /\ \A q \in Quotes : [s EXCEPT !.quoted = q] \in Agent1State
         /\ \A v \in InternalPrices : [s EXCEPT !.internal = v] \in Agent1State
         /\ \A u \in SUBSET Sources : [s EXCEPT !.pulled = u] \in Agent1State
         /\ \A e \in Confidences : [s EXCEPT !.extract = e] \in Agent1State
         /\ [s EXCEPT !.blocked = TRUE] \in Agent1State
         /\ \A i \in 0 .. MaxCases : [s EXCEPT !.case = i] \in Agent1State
BY DEF Agent1State

LEMMA StartedType ==
  ASSUME NEW m \in Mails \cup {NoValue}
  PROVE  Started(m) \in Agent1State
BY Agent1Assumption DEF Started, Agent1State

LEMMA NewCaseType == NewCase("DETECTED") \in Case
<1>1. "DETECTED" \in Statuses /\ "none" \in Drafts /\ "none" \in Resolutions
  BY DEF Statuses, Drafts, Resolutions
<1>2. << >> \in Seq(GateRecord) /\ << >> \in Seq(Messages)
  OBVIOUS
<1> QED BY <1>1, <1>2 DEF NewCase, Case

\* The operations that the graph makes are operations of the engine.
LEMMA GraphCalls ==
  /\ Move("PRICES_PULLED", FALSE) \in Calls /\ Move("TERM_SHEET_RESOLVED", FALSE) \in Calls
  /\ Move("COMMS_DRAFTED", FALSE) \in Calls
  /\ ParkDraft \in Calls /\ OpenGate1 \in Calls /\ LookUp \in Calls
  /\ Kill \in Calls /\ [op |-> "resolveTask", kind |-> "TERM_SHEET_LOOKUP"] \in Calls
<1>1. /\ Move("PRICES_PULLED", FALSE) \in TransitionCalls
      /\ Move("TERM_SHEET_RESOLVED", FALSE) \in TransitionCalls
      /\ Move("COMMS_DRAFTED", FALSE) \in TransitionCalls
  BY DEF Move, TransitionCalls, TransitionCall
<1>2. ParkDraft \in UpdateCalls /\ OpenGate1 \in OpenGateCalls
  BY DEF ParkDraft, Update, UpdateCalls, OpenGate1, Open, OpenGateCalls, GateTypes
<1>3. LookUp \in TaskCalls /\ [op |-> "resolveTask", kind |-> "TERM_SHEET_LOOKUP"] \in TaskCalls
  BY DEF LookUp, TaskCalls, TaskKinds
<1>4. Kill \in KillCalls
  BY DEF Kill, KillCalls
<1> QED BY <1>1, <1>2, <1>3, <1>4 DEF Calls

\* A stage before whose operations are made begins with the first of them.
LEMMA StageCalls ==
  ASSUME NEW node, NEW ops, NEW s, NEW c, Stage(node, ops, s, c), ops # << >>
  PROVE  /\ ops \in Seq(Calls)
         /\ Head(ops) \in {Move("PRICES_PULLED", FALSE), Move("TERM_SHEET_RESOLVED", FALSE),
                           Move("COMMS_DRAFTED", FALSE), ParkDraft, OpenGate1, LookUp}
<1>1. \/ \E k \in {Move("PRICES_PULLED", FALSE), Move("TERM_SHEET_RESOLVED", FALSE),
                   Move("COMMS_DRAFTED", FALSE), OpenGate1, LookUp} : ops = << k >>
      \/ ops = << ParkDraft, OpenGate1 >>
  BY DEF Stage
<1>2. CASE ops = << ParkDraft, OpenGate1 >>
  BY <1>2, GraphCalls
<1>3. CASE \E k \in {Move("PRICES_PULLED", FALSE), Move("TERM_SHEET_RESOLVED", FALSE),
                     Move("COMMS_DRAFTED", FALSE), OpenGate1, LookUp} : ops = << k >>
  <2>1. PICK k \in {Move("PRICES_PULLED", FALSE), Move("TERM_SHEET_RESOLVED", FALSE),
                    Move("COMMS_DRAFTED", FALSE), OpenGate1, LookUp} : ops = << k >>
    BY <1>3
  <2>2. k \in Calls
    BY GraphCalls
  <2>3. ops \in Seq(Calls) /\ Head(ops) = k
    BY <2>1, <2>2
  <2> QED BY <2>3
<1> QED BY <1>1, <1>2, <1>3

\* One element of a list is replaced.
LEMMA Replaced ==
  ASSUME NEW S, NEW list \in Seq(S), NEW i \in DOMAIN list, NEW e \in S
  PROVE  LET new == [list EXCEPT ![i] = e]
         IN  /\ new \in Seq(S) /\ Len(new) = Len(list) /\ DOMAIN new = DOMAIN list
             /\ new[i] = e
             /\ \A j \in DOMAIN list : j # i => new[j] = list[j]
<1>1. [list EXCEPT ![i] = e] \in [1 .. Len(list) -> S]
  OBVIOUS
<1> QED BY <1>1

----------------------------------------------------------------------------
(* Steps that leave the stored cases alone *)

\* What p has in memory becomes n, s, c and k, and `returned` the results.
LEMMA LocalStep ==
  ASSUME Agent1Inv, NEW p \in Procs,
         NEW n \in Nodes \cup {"idle", "END"}, NEW s \in Agent1State, NEW c \in Case,
         NEW k \in Seq(Calls),
         at' = [at EXCEPT ![p] = n], state' = [state EXCEPT ![p] = s],
         copy' = [copy EXCEPT ![p] = c], calls' = [calls EXCEPT ![p] = k],
         cases' = cases,
         \/ results' = results
         \/ results' = results \cup {state[p]} /\ at[p] = "END" /\ calls[p] = << >> /\ s.case = 0,
         failures' \in 0 .. MaxFailures,
         s.case \in {0, state[p].case},
         s.case = 0 => Early(n, s) /\ k = << >>,
         s.case # 0 => /\ Stage(n, k, s, cases[s.case])
                       /\ Current(c, cases[s.case].row),
         n # "idle" /\ s.case = 0 =>
           p \in Creating \/ Len(cases) + Cardinality(Creating) < MaxCases
  PROVE  Agent1Inv'
<1>1. Types'
  <2>1. state[p] \in Agent1State
    BY DEF Agent1Inv, Types
  <2> QED BY <2>1 DEF Agent1Inv, Types
<1>2. /\ at'[p] = n /\ state'[p] = s /\ copy'[p] = c /\ calls'[p] = k
      /\ \A q \in Procs \ {p} : /\ at'[q] = at[q] /\ state'[q] = state[q]
                                /\ copy'[q] = copy[q] /\ calls'[q] = calls[q]
  BY DEF Agent1Inv, Types
<1>3. (Len(cases) + Cardinality(Creating) <= MaxCases)'
  <2>0. IsFiniteSet(Creating) /\ Cardinality(Creating) \in Nat /\ Len(cases) \in Nat
        /\ MaxCases \in Nat
    <3>1. IsFiniteSet(Creating)
      BY FS_Subset, Agent1Assumption DEF Creating
    <3> QED BY <3>1, FS_CardinalityType, Agent1Assumption DEF Agent1Inv, Types
  <2>1. Creating' \subseteq Creating \cup {p}
    BY <1>2 DEF Creating
  <2>2. CASE Creating' \subseteq Creating
    <3>1. Cardinality(Creating') <= Cardinality(Creating) /\ Cardinality(Creating') \in Nat
      BY <2>0, <2>2, FS_Subset, FS_CardinalityType
    <3> QED BY <2>0, <3>1 DEF Agent1Inv
  <2>3. CASE ~(Creating' \subseteq Creating)
    <3>1. p \in Creating' /\ p \notin Creating
      BY <2>1, <2>3
    <3>2. Len(cases) + Cardinality(Creating) < MaxCases
      BY <1>2, <3>1 DEF Creating
    <3>3. Cardinality(Creating \cup {p}) = Cardinality(Creating) + 1
          /\ IsFiniteSet(Creating \cup {p})
      BY <2>0, <3>1, FS_AddElement
    <3>4. Cardinality(Creating') <= Cardinality(Creating) + 1 /\ Cardinality(Creating') \in Nat
      BY <2>1, <3>3, FS_Subset, FS_CardinalityType
    <3> QED BY <2>0, <3>2, <3>4
  <2> QED BY <2>2, <2>3
<1>4. (\A i \in DOMAIN cases : CaseFits(cases[i]))'
  BY DEF Agent1Inv
<1>5. (\A q \in Procs : RunFits(q))'
  <2>1. RunFits(p)'
    <3>1. s.case # 0 => s.case \in DOMAIN cases
      BY DEF Agent1Inv, RunFits
    <3> QED BY <1>2, <3>1 DEF RunFits
  <2>2. \A q \in Procs \ {p} : RunFits(q)'
    BY <1>2 DEF Agent1Inv, RunFits
  <2> QED BY <2>1, <2>2
<1>6. \A q \in Procs : state'[q].case \in {0, state[q].case}
  BY <1>2
<1>7. Apart'
  BY <1>6 DEF Agent1Inv, Apart
<1>8. (\A r \in results : ResultFits(r))'
  <2> SUFFICES ASSUME NEW r \in results' PROVE ResultFits(r)'
    OBVIOUS
  <2>1. CASE r \in results
    BY <1>6, <2>1 DEF Agent1Inv, ResultFits
  <2>2. CASE r \notin results
    <3>1. r = state[p] /\ at[p] = "END" /\ calls[p] = << >> /\ s.case = 0
      BY <2>2
    <3>2. RunFits(p)
      BY DEF Agent1Inv
    <3>3. r.case # 0 => \A q \in Procs : state'[q].case # r.case
      BY <1>2, <3>1 DEF Agent1Inv, Apart
    <3> QED BY <3>1, <3>2, <3>3 DEF RunFits, ResultFits
  <2> QED BY <2>1, <2>2
<1> QED BY <1>1, <1>3, <1>4, <1>5, <1>7, <1>8 DEF Agent1Inv

\* The run of p is over.
LEMMA OverStep ==
  ASSUME Agent1Inv, NEW p \in Procs, Over(p), cases' = cases,
         \/ results' = results
         \/ results' = results \cup {state[p]} /\ at[p] = "END" /\ calls[p] = << >>,
         failures' \in 0 .. MaxFailures
  PROVE  Agent1Inv'
<1>1. Started(NoValue) \in Agent1State /\ NewCase("DETECTED") \in Case /\ << >> \in Seq(Calls)
  BY StartedType, NewCaseType
<1>2. Started(NoValue).case = 0 /\ Early("idle", Started(NoValue))
  BY DEF Started, Early
<1> QED BY <1>1, <1>2, LocalStep DEF Over, Goto

LEMMA RaisesStep ==
  ASSUME Agent1Inv, NEW p \in Procs, Raises(p)
  PROVE  Agent1Inv'
<1>1. failures' \in 0 .. MaxFailures
  BY DEF Raises, Agent1Inv, Types
<1> QED BY <1>1, OverStep DEF Raises

LEMMA BreakOffStep ==
  ASSUME Agent1Inv, NEW p \in Procs, BreakOff(p)
  PROVE  Agent1Inv'
<1>1. failures' \in 0 .. MaxFailures
  BY Agent1Assumption DEF BreakOff, Agent1Inv, Types
<1> QED BY <1>1, OverStep DEF BreakOff

LEMMA ReturnStep ==
  ASSUME Agent1Inv, NEW p \in Procs, Return(p)
  PROVE  Agent1Inv'
<1>1. failures' \in 0 .. MaxFailures
  BY DEF Return, Agent1Inv, Types
<1> QED BY <1>1, OverStep DEF Return, Doing

\* Where a run is when no operation is left to be made.
LEMMA AtNode ==
  ASSUME Agent1Inv, NEW p \in Procs, NEW node, Doing(p, node)
  PROVE  /\ state[p] \in Agent1State /\ copy[p] \in Case /\ at[p] = node /\ calls[p] = << >>
         /\ node \in {"parse_email", "fetch_internal_price", "compute_divergence",
                      "pull_external_prices", "create_case"} =>
              /\ state[p].case = 0 /\ Early(node, state[p]) /\ p \in Creating
              /\ state[p].blocked = FALSE
         /\ node \in {"resolve_term_sheet", "draft_comms", "notify_internal", "submit_gate1"} =>
              /\ state[p].case # 0 /\ state[p].case \in DOMAIN cases
              /\ cases[state[p].case] \in StoredCase
              /\ Stage(node, << >>, state[p], cases[state[p].case])
              /\ Current(copy[p], cases[state[p].case].row)
<1>1. state[p] \in Agent1State /\ copy[p] \in Case
  BY DEF Agent1Inv, Types
<1>2. RunFits(p) /\ at[p] = node /\ calls[p] = << >>
  BY DEF Agent1Inv, Doing
<1>3. ASSUME node \in {"parse_email", "fetch_internal_price", "compute_divergence",
                       "pull_external_prices", "create_case"}
      PROVE  /\ state[p].case = 0 /\ Early(node, state[p]) /\ p \in Creating
             /\ state[p].blocked = FALSE
  <2>1. state[p].case = 0
    BY <1>2, <1>3 DEF RunFits, Stage
  <2>2. Early(node, state[p])
    BY <1>2, <2>1 DEF RunFits
  <2> QED BY <1>2, <1>3, <2>1, <2>2 DEF Creating, Early
<1>4. ASSUME node \in {"resolve_term_sheet", "draft_comms", "notify_internal", "submit_gate1"}
      PROVE  /\ state[p].case # 0 /\ state[p].case \in DOMAIN cases
             /\ cases[state[p].case] \in StoredCase
             /\ Stage(node, << >>, state[p], cases[state[p].case])
             /\ Current(copy[p], cases[state[p].case].row)
  <2>1. state[p].case # 0
    BY <1>2, <1>4 DEF RunFits, Early
  <2>2. cases \in Seq(StoredCase)
    BY DEF Agent1Inv, Types
  <2> QED BY <1>2, <2>1, <2>2 DEF RunFits
<1> QED BY <1>1, <1>2, <1>3, <1>4

\* A node that only changes the graph state, before a case is created ...
LEMMA EarlyNodeStep ==
  ASSUME Agent1Inv, NEW p \in Procs,
         NEW node \in {"parse_email", "fetch_internal_price", "compute_divergence",
                       "pull_external_prices"},
         NEW s \in Agent1State, NEW next \in Nodes \cup {"END"},
         StateNode(p, node, s, next), s.case = 0, Early(next, s)
  PROVE  Agent1Inv'
<1>1. Doing(p, node)
  BY DEF StateNode
<1>2. p \in Creating /\ copy[p] \in Case /\ calls[p] = << >>
  BY <1>1, AtNode
<1>3. copy' = [copy EXCEPT ![p] = copy[p]] /\ calls' = [calls EXCEPT ![p] = << >>]
      /\ failures' \in 0 .. MaxFailures
  BY <1>2 DEF StateNode, Agent1Inv, Types
<1>4. << >> \in Seq(Calls)
  OBVIOUS
<1> QED BY <1>2, <1>3, <1>4, LocalStep DEF StateNode, Goto

LEMMA TriggerStep ==
  ASSUME Agent1Inv, NEW p \in Procs, NEW m \in Mails, Trigger(p, m)
  PROVE  Agent1Inv'
<1>1. RunFits(p) /\ copy[p] \in Case /\ at[p] = "idle"
  BY DEF Agent1Inv, Types, Trigger
<1>2. calls[p] = << >>
  BY <1>1 DEF RunFits, Stage
<1>3. copy' = [copy EXCEPT ![p] = copy[p]] /\ calls' = [calls EXCEPT ![p] = << >>]
      /\ failures' \in 0 .. MaxFailures
  BY <1>2 DEF Trigger, Agent1Inv, Types
<1>4. Started(m) \in Agent1State /\ << >> \in Seq(Calls) /\ "parse_email" \in Nodes
  BY StartedType DEF Nodes
<1>5. Started(m).case = 0 /\ Early("parse_email", Started(m))
  BY DEF Started, Early
<1> QED BY <1>1, <1>3, <1>4, <1>5, LocalStep DEF Trigger, Goto, Creating

LEMMA ParseEmailStep ==
  ASSUME Agent1Inv, NEW p \in Procs, ParseEmail(p)
  PROVE  Agent1Inv'
<1>1. PICK quoted \in Quotes :
        StateNode(p, "parse_email", [state[p] EXCEPT !.quoted = quoted], "fetch_internal_price")
  BY DEF ParseEmail
<1> DEFINE s == [state[p] EXCEPT !.quoted = quoted]
<1>2. state[p] \in Agent1State /\ Early("parse_email", state[p])
  BY <1>1, AtNode DEF StateNode
<1>3. s \in Agent1State
  BY <1>2, StateUpdates
<1>4. s.case = 0 /\ Early("fetch_internal_price", s)
  BY <1>2 DEF Early, Agent1State
<1>5. "fetch_internal_price" \in Nodes
  BY DEF Nodes
<1> QED BY <1>1, <1>3, <1>4, <1>5, EarlyNodeStep

LEMMA FetchInternalPriceStep ==
  ASSUME Agent1Inv, NEW p \in Procs, FetchInternalPrice(p)
  PROVE  Agent1Inv'
<1>1. PICK internal \in InternalPrices :
        StateNode(p, "fetch_internal_price", [state[p] EXCEPT !.internal = internal],
                  "compute_divergence")
  BY DEF FetchInternalPrice
<1> DEFINE s == [state[p] EXCEPT !.internal = internal]
<1>2. state[p] \in Agent1State /\ Early("fetch_internal_price", state[p])
  BY <1>1, AtNode DEF StateNode
<1>3. s \in Agent1State
  BY <1>2, StateUpdates
<1>4. s.case = 0 /\ Early("compute_divergence", s)
  BY <1>2 DEF Early, Agent1State
<1>5. "compute_divergence" \in Nodes
  BY DEF Nodes
<1> QED BY <1>1, <1>3, <1>4, <1>5, EarlyNodeStep

LEMMA ComputeDivergenceStep ==
  ASSUME Agent1Inv, NEW p \in Procs, ComputeDivergence(p)
  PROVE  Agent1Inv'
<1> DEFINE next == IF IsBreak(state[p].internal, state[p].quoted)
                   THEN "pull_external_prices" ELSE "END"
<1>1. state[p].internal # 0 /\ StateNode(p, "compute_divergence", state[p], next)
  BY DEF ComputeDivergence
<1>2. state[p] \in Agent1State /\ Early("compute_divergence", state[p])
  BY <1>1, AtNode DEF StateNode
<1>3. state[p].case = 0 /\ Early(next, state[p]) /\ next \in Nodes \cup {"END"}
  BY <1>1, <1>2 DEF Early, Nodes
<1> QED BY <1>1, <1>2, <1>3, EarlyNodeStep

LEMMA PullExternalPricesStep ==
  ASSUME Agent1Inv, NEW p \in Procs, PullExternalPrices(p)
  PROVE  Agent1Inv'
<1>1. PICK pulled \in SUBSET Sources :
        StateNode(p, "pull_external_prices", [state[p] EXCEPT !.pulled = pulled], "create_case")
  BY DEF PullExternalPrices
<1> DEFINE s == [state[p] EXCEPT !.pulled = pulled]
<1>2. state[p] \in Agent1State /\ Early("pull_external_prices", state[p])
  BY <1>1, AtNode DEF StateNode
<1>3. s \in Agent1State
  BY <1>2, StateUpdates
<1>4. s.case = 0 /\ Early("create_case", s)
  BY <1>2 DEF Early, Agent1State
<1>5. "create_case" \in Nodes
  BY DEF Nodes
<1> QED BY <1>1, <1>3, <1>4, <1>5, EarlyNodeStep

LEMMA NotifyInternalStep ==
  ASSUME Agent1Inv, NEW p \in Procs, NotifyInternal(p)
  PROVE  Agent1Inv'
<1>1. StateNode(p, "notify_internal", state[p], "submit_gate1")
      /\ Doing(p, "notify_internal")
  BY DEF NotifyInternal, StateNode
<1>2. /\ state[p] \in Agent1State /\ copy[p] \in Case /\ calls[p] = << >>
      /\ state[p].case # 0
      /\ Stage("notify_internal", << >>, state[p], cases[state[p].case])
      /\ Current(copy[p], cases[state[p].case].row)
  BY <1>1, AtNode
<1>3. Stage("submit_gate1", << >>, state[p], cases[state[p].case])
  BY <1>2 DEF Stage
<1>4. copy' = [copy EXCEPT ![p] = copy[p]] /\ calls' = [calls EXCEPT ![p] = << >>]
      /\ failures' \in 0 .. MaxFailures
  BY <1>1, <1>2 DEF StateNode, Agent1Inv, Types
<1>5. << >> \in Seq(Calls) /\ "submit_gate1" \in Nodes
  BY DEF Nodes
<1> QED BY <1>1, <1>2, <1>3, <1>4, <1>5, LocalStep DEF StateNode, Goto

\* ... and one that reads the stored case and has operations to make on it.
LEMMA CaseNodeStep ==
  ASSUME Agent1Inv, NEW p \in Procs,
         NEW node \in {"resolve_term_sheet", "draft_comms", "submit_gate1"},
         NEW s \in Agent1State, NEW next \in Nodes \cup {"END"}, NEW operations,
         CaseNode(p, node, operations, next), state' = [state EXCEPT ![p] = s],
         s.case = state[p].case, operations # << >>,
         Stage(next, operations, s, cases[s.case])
  PROVE  Agent1Inv'
<1>1. Doing(p, node)
  BY DEF CaseNode
<1>2. state[p].case # 0 /\ cases[s.case] \in StoredCase
  BY <1>1, AtNode
<1>3. operations \in Seq(Calls)
  BY StageCalls
<1>4. cases[s.case].row \in Case /\ failures' \in 0 .. MaxFailures
  BY <1>2 DEF StoredCase, CaseNode, Agent1Inv, Types
<1>5. Current(cases[s.case].row, cases[s.case].row)
  <2>1. cases[s.case].row.version \in Nat
    BY <1>4 DEF Case
  <2> QED BY <2>1 DEF Current
<1> QED BY <1>2, <1>3, <1>4, <1>5, LocalStep DEF CaseNode, Goto, StoredRow

LEMMA ResolveTermSheetStep ==
  ASSUME Agent1Inv, NEW p \in Procs, ResolveTermSheet(p)
  PROVE  Agent1Inv'
<1>1. PICK extract \in Confidences :
        /\ ClauseIsCertain(extract)
        /\ CaseNode(p, "resolve_term_sheet", << Move("TERM_SHEET_RESOLVED", FALSE) >>,
                    "draft_comms")
        /\ state' = [state EXCEPT ![p].extract = extract]
  BY DEF ResolveTermSheet
<1> DEFINE s == [state[p] EXCEPT !.extract = extract]
<1>2. /\ state[p] \in Agent1State
      /\ Stage("resolve_term_sheet", << >>, state[p], cases[state[p].case])
  BY <1>1, AtNode DEF CaseNode
<1>3. s \in Agent1State /\ s.case = state[p].case /\ s.blocked = state[p].blocked
      /\ s.extract = extract
  BY <1>2, StateUpdates DEF Agent1State
<1>4. state' = [state EXCEPT ![p] = s]
  BY <1>1
<1>5. Stage("draft_comms", << Move("TERM_SHEET_RESOLVED", FALSE) >>, s, cases[s.case])
  BY <1>1, <1>2, <1>3 DEF Stage
<1>6. "draft_comms" \in Nodes
  BY DEF Nodes
<1> HIDE DEF s
<1> QED BY <1>1, <1>3, <1>4, <1>5, <1>6, CaseNodeStep

LEMMA BlockOnTermSheetStep ==
  ASSUME Agent1Inv, NEW p \in Procs, BlockOnTermSheet(p)
  PROVE  Agent1Inv'
<1>1. /\ CaseNode(p, "resolve_term_sheet", << LookUp >>, "END")
      /\ state' = [state EXCEPT ![p].blocked = TRUE]
  BY DEF BlockOnTermSheet, LookUp
<1> DEFINE s == [state[p] EXCEPT !.blocked = TRUE]
<1>2. /\ state[p] \in Agent1State
      /\ Stage("resolve_term_sheet", << >>, state[p], cases[state[p].case])
  BY <1>1, AtNode DEF CaseNode
<1>3. s \in Agent1State /\ s.case = state[p].case /\ s.blocked = TRUE
  BY <1>2, StateUpdates DEF Agent1State
<1>4. state' = [state EXCEPT ![p] = s]
  BY <1>1
<1>5. Stage("END", << LookUp >>, s, cases[s.case])
  BY <1>2, <1>3 DEF Stage
<1> HIDE DEF s
<1> QED BY <1>1, <1>3, <1>4, <1>5, CaseNodeStep

LEMMA DraftCommsStep ==
  ASSUME Agent1Inv, NEW p \in Procs, DraftComms(p)
  PROVE  Agent1Inv'
<1>1. /\ CaseNode(p, "draft_comms", << Move("COMMS_DRAFTED", FALSE) >>, "notify_internal")
      /\ state' = state
  BY DEF DraftComms
<1>2. /\ state[p] \in Agent1State
      /\ Stage("draft_comms", << >>, state[p], cases[state[p].case])
  BY <1>1, AtNode DEF CaseNode
<1>3. state' = [state EXCEPT ![p] = state[p]]
  BY <1>1 DEF Agent1Inv, Types
<1>4. Stage("notify_internal", << Move("COMMS_DRAFTED", FALSE) >>, state[p],
            cases[state[p].case])
  BY <1>2 DEF Stage
<1>5. "notify_internal" \in Nodes
  BY DEF Nodes
<1> QED BY <1>1, <1>2, <1>3, <1>4, <1>5, CaseNodeStep

LEMMA SubmitGate1Step ==
  ASSUME Agent1Inv, NEW p \in Procs, SubmitGate1(p)
  PROVE  Agent1Inv'
<1>1. /\ CaseNode(p, "submit_gate1", << ParkDraft, OpenGate1 >>, "END")
      /\ state' = state
  BY DEF SubmitGate1, ParkDraft, OpenGate1
<1>2. /\ state[p] \in Agent1State
      /\ Stage("submit_gate1", << >>, state[p], cases[state[p].case])
  BY <1>1, AtNode DEF CaseNode
<1>3. state' = [state EXCEPT ![p] = state[p]]
  BY <1>1 DEF Agent1Inv, Types
<1>4. Stage("END", << ParkDraft, OpenGate1 >>, state[p], cases[state[p].case])
  BY <1>2 DEF Stage
<1> QED BY <1>1, <1>2, <1>3, <1>4, CaseNodeStep

----------------------------------------------------------------------------
(* Steps that change a stored case *)

LEMMA CaseStep ==
  ASSUME Agent1Inv, NEW i \in DOMAIN cases, NEW d \in StoredCase,
         cases' = [cases EXCEPT ![i] = d], CaseFits(d),
         at' = at, state' = state, results' = results, failures' = failures,
         copy' \in [Procs -> Case], calls' \in [Procs -> Seq(Calls)],
         \A p \in Procs :
           IF state[p].case = i
           THEN Stage(at[p], calls'[p], state[p], d) /\ Current(copy'[p], d.row)
           ELSE copy'[p] = copy[p] /\ calls'[p] = calls[p],
         \A r \in results : r.case = i => Stage("END", << >>, r, d)
  PROVE  Agent1Inv'
<1>1. cases \in Seq(StoredCase)
  BY DEF Agent1Inv, Types
<1>2. /\ cases' \in Seq(StoredCase) /\ Len(cases') = Len(cases) /\ DOMAIN cases' = DOMAIN cases
      /\ cases'[i] = d /\ \A j \in DOMAIN cases : j # i => cases'[j] = cases[j]
  BY <1>1, Replaced
<1>3. 0 \notin DOMAIN cases
  BY <1>1
<1>4. Types'
  BY <1>2 DEF Agent1Inv, Types
<1>5. (Len(cases) + Cardinality(Creating) <= MaxCases)'
  BY <1>2 DEF Agent1Inv, Creating
<1>6. (\A j \in DOMAIN cases : CaseFits(cases[j]))'
  BY <1>2 DEF Agent1Inv
<1>7. (\A p \in Procs : RunFits(p))'
  <2> SUFFICES ASSUME NEW p \in Procs PROVE RunFits(p)'
    OBVIOUS
  <2>1. RunFits(p)
    BY DEF Agent1Inv
  <2>2. CASE state[p].case = i
    BY <1>2, <1>3, <2>2 DEF RunFits
  <2>3. CASE state[p].case # i
    <3>1. copy'[p] = copy[p] /\ calls'[p] = calls[p]
      BY <2>3
    <3>2. CASE state[p].case = 0
      BY <2>1, <3>1, <3>2 DEF RunFits
    <3>3. CASE state[p].case # 0
      <4>1. state[p].case \in DOMAIN cases /\ cases'[state[p].case] = cases[state[p].case]
        BY <1>2, <2>1, <2>3, <3>3 DEF RunFits
      <4> QED BY <1>2, <2>1, <3>1, <3>3, <4>1 DEF RunFits
    <3> QED BY <3>2, <3>3
  <2> QED BY <2>2, <2>3
<1>8. Apart'
  BY DEF Agent1Inv, Apart
<1>9. (\A r \in results : ResultFits(r))'
  <2> SUFFICES ASSUME NEW r \in results PROVE ResultFits(r)'
    OBVIOUS
  <2>1. ResultFits(r)
    BY DEF Agent1Inv
  <2>2. CASE r.case = 0
    BY <2>1, <2>2 DEF ResultFits
  <2>3. CASE r.case = i
    BY <1>2, <1>3, <2>1, <2>3 DEF ResultFits
  <2>4. CASE r.case # 0 /\ r.case # i
    BY <1>2, <2>1, <2>4 DEF ResultFits
  <2> QED BY <2>2, <2>3, <2>4
<1> QED BY <1>4, <1>5, <1>6, <1>7, <1>8, <1>9 DEF Agent1Inv

\* What people do to a case leaves of it what a run looks for.
LEMMA PeopleLeave ==
  ASSUME NEW r \in Case,
         NEW k \in {Kill, [op |-> "resolveTask", kind |-> "TERM_SHEET_LOOKUP"]}
  PROVE  /\ Result(r, k) \in Case /\ Result(r, k).version = r.version + 1
         /\ Result(r, k).tasks \subseteq r.tasks
         /\ \A status, draft, gates, tasks :
              Looks(r, status, draft, gates, tasks) =>
                Looks(Result(r, k), status, draft, gates, tasks)
<1>1. Result(r, k) \in Case /\ Result(r, k).version = r.version + 1
  BY GraphCalls, ResultType
<1>2. CASE k = Kill
  <2>1. Result(r, k) = WithKill(r)
    BY <1>2 DEF Kill, Result
  <2>2. /\ WithKill(r).status = "CANCELLED" /\ WithKill(r).draft = r.draft
        /\ WithKill(r).gates = r.gates /\ WithKill(r).tasks = r.tasks
    BY DEF WithKill, Case
  <2> QED BY <1>1, <2>1, <2>2 DEF Looks
<1>3. CASE k = [op |-> "resolveTask", kind |-> "TERM_SHEET_LOOKUP"]
  <2>1. Result(r, k) = WithTask(r, k)
    BY <1>3 DEF Result
  <2>2. /\ WithTask(r, k).status = r.status /\ WithTask(r, k).draft = r.draft
        /\ WithTask(r, k).gates = r.gates /\ WithTask(r, k).tasks \subseteq r.tasks
    BY <1>3 DEF WithTask, Case
  <2> QED BY <1>1, <2>1, <2>2 DEF Looks
<1> QED BY <1>2, <1>3

LEMMA StageSurvives ==
  ASSUME NEW node, NEW ops, NEW s, NEW c, NEW d, Stage(node, ops, s, c),
         d.extract = c.extract,
         \A status, draft, gates, tasks :
           Looks(c.row, status, draft, gates, tasks) => Looks(d.row, status, draft, gates, tasks)
  PROVE  Stage(node, ops, s, d)
<1>1. (Claused(c) => Claused(d)) /\ (Unclaused(c) => Unclaused(d))
  BY DEF Claused, Unclaused
<1>2. CASE node \in {"resolve_term_sheet", "draft_comms"}
  BY <1>1, <1>2 DEF Stage
<1>3. CASE node \in {"notify_internal", "submit_gate1"}
  BY <1>1, <1>3 DEF Stage
<1>4. CASE node = "END"
  BY <1>1, <1>4 DEF Stage
<1> QED BY <1>2, <1>3, <1>4 DEF Stage

LEMMA HumanStep ==
  ASSUME Agent1Inv, NEW i \in DOMAIN cases,
         NEW k \in {Kill, [op |-> "resolveTask", kind |-> "TERM_SHEET_LOOKUP"]},
         HumanOperation(i, k)
  PROVE  Agent1Inv'
<1> DEFINE c == cases[i]
           d == [c EXCEPT !.row = Result(c.row, k)]
<1>1. c \in StoredCase /\ CaseFits(c)
  BY DEF Agent1Inv, Types
<1>2. c.row \in Case
  BY <1>1 DEF StoredCase
<1>3. /\ Result(c.row, k) \in Case /\ Result(c.row, k).version = c.row.version + 1
      /\ Result(c.row, k).tasks \subseteq c.row.tasks
      /\ \A status, draft, gates, tasks :
           Looks(c.row, status, draft, gates, tasks) =>
             Looks(Result(c.row, k), status, draft, gates, tasks)
  BY <1>2, PeopleLeave
<1>4. /\ d \in StoredCase /\ d.row = Result(c.row, k) /\ d.extract = c.extract
      /\ d.internal = c.internal /\ d.quoted = c.quoted
  BY <1>1, <1>3 DEF StoredCase
<1>5. cases' = [cases EXCEPT ![i] = d]
  BY DEF HumanOperation
<1>6. CaseFits(d)
  <2>1. CASE Claused(c) /\ c.row.tasks = {}
    <3>1. Claused(d) /\ d.row.tasks = {}
      BY <1>3, <1>4, <2>1 DEF Claused
    <3> QED BY <1>1, <1>4, <3>1 DEF CaseFits
  <2>2. CASE Unclaused(c) /\ c.row.status \in {"DETECTED", "PRICES_PULLED", "CANCELLED"}
             /\ c.row.draft = "none" /\ c.row.gates = << >>
    <3>1. Looks(c.row, c.row.status, "none", << >>, c.row.tasks)
      BY <2>2 DEF Looks
    <3>2. Looks(d.row, c.row.status, "none", << >>, c.row.tasks)
      BY <1>3, <1>4, <3>1
    <3>3. Unclaused(d)
      BY <1>4, <2>2 DEF Unclaused
    <3> QED BY <1>1, <1>4, <2>2, <3>2, <3>3 DEF CaseFits, Looks
  <2> QED BY <1>1, <2>1, <2>2 DEF CaseFits
<1>7. \A node, ops, s : Stage(node, ops, s, c) => Stage(node, ops, s, d)
  <2>1. \A status, draft, gates, tasks :
          Looks(c.row, status, draft, gates, tasks) => Looks(d.row, status, draft, gates, tasks)
    BY <1>3, <1>4
  <2>2. SUFFICES ASSUME NEW node, NEW ops, NEW s, Stage(node, ops, s, c)
                 PROVE  Stage(node, ops, s, d)
    OBVIOUS
  <2>3. d.extract = c.extract
    BY <1>4
  <2> HIDE DEF c, d
  <2> QED BY <2>1, <2>2, <2>3, StageSurvives
<1>8. \A p \in Procs : state[p].case = i => Current(copy[p], d.row)
  <2> SUFFICES ASSUME NEW p \in Procs, state[p].case = i PROVE Current(copy[p], d.row)
    OBVIOUS
  <2>1. Current(copy[p], c.row) /\ copy[p] \in Case
    BY DEF Agent1Inv, Types, RunFits
  <2>2. copy[p].version \in Nat /\ c.row.version \in Nat
    BY <1>2, <2>1 DEF Case
  <2> QED BY <1>3, <1>4, <2>1, <2>2 DEF Current
<1>9. 0 \notin DOMAIN cases
  BY DEF Agent1Inv, Types
<1>10. /\ \A p \in Procs : state[p].case = i => Stage(at[p], calls[p], state[p], c)
       /\ \A r \in results : r.case = i => Stage("END", << >>, r, c)
  BY <1>9 DEF Agent1Inv, RunFits, ResultFits
<1>11. copy \in [Procs -> Case] /\ calls \in [Procs -> Seq(Calls)]
  BY DEF Agent1Inv, Types
<1>12. /\ at' = at /\ state' = state /\ copy' = copy /\ calls' = calls
       /\ results' = results /\ failures' = failures
  BY DEF HumanOperation
<1> HIDE DEF d
<1> QED BY <1>4, <1>5, <1>6, <1>7, <1>8, <1>10, <1>11, <1>12, CaseStep

\* What the operations of the graph leave of a row.
LEMMA MoveResult ==
  ASSUME NEW r \in Case, NEW target,
         NEW status, NEW draft, NEW gates, NEW tasks, Looks(r, status, draft, gates, tasks)
  PROVE  Looks(Result(r, Move(target, FALSE)), target, draft, gates, tasks)
<1>1. Result(r, Move(target, FALSE)) = WithTransition(r, Move(target, FALSE))
  BY DEF Result, Move
<1>2. LET d == WithTransition(r, Move(target, FALSE))
      IN  d.status = target /\ d.draft = r.draft /\ d.gates = r.gates /\ d.tasks = r.tasks
  BY DEF WithTransition, Move, Case
<1> QED BY <1>1, <1>2 DEF Looks

LEMMA ParkResult ==
  ASSUME NEW r \in Case,
         NEW status, NEW draft, NEW gates, NEW tasks, Looks(r, status, draft, gates, tasks)
  PROVE  Looks(Result(r, ParkDraft), status, "agent", gates, tasks)
<1>1. Result(r, ParkDraft) = WithUpdate(r, ParkDraft)
  BY DEF Result, ParkDraft, Update
<1>2. LET d == WithUpdate(r, ParkDraft)
      IN  d.status = r.status /\ d.draft = "agent" /\ d.gates = r.gates /\ d.tasks = r.tasks
  BY DEF WithUpdate, ParkDraft, Update, Case
<1> QED BY <1>1, <1>2 DEF Looks

LEMMA OpenResult ==
  ASSUME NEW r \in Case, NEW status, NEW draft, NEW tasks, Looks(r, status, draft, << >>, tasks)
  PROVE  Looks(Result(r, OpenGate1), "PENDING_ANALYST_APPROVAL", draft, Gate1Open, tasks)
<1>1. Result(r, OpenGate1) = WithOpenGate(r, OpenGate1)
  BY DEF Result, OpenGate1, Open
<1>2. Append(<< >>, [type |-> "PRE_SEND_REVIEW", status |-> "pending"]) = Gate1Open
  BY DEF Gate1Open
<1>3. LET d == WithOpenGate(r, OpenGate1)
      IN  /\ d.status = "PENDING_ANALYST_APPROVAL" /\ d.draft = r.draft /\ d.tasks = r.tasks
          /\ d.gates = Append(r.gates, [type |-> "PRE_SEND_REVIEW", status |-> "pending"])
  BY DEF WithOpenGate, OpenGate1, Open, TargetStatus, Case
<1> QED BY <1>1, <1>2, <1>3 DEF Looks

LEMMA LookUpResult ==
  ASSUME NEW r \in Case, NEW status, NEW draft, NEW gates, Looks(r, status, draft, gates, {})
  PROVE  Looks(Result(r, LookUp), status, draft, gates, {"TERM_SHEET_LOOKUP"})
<1>1. Result(r, LookUp) = WithTask(r, LookUp)
  BY DEF Result, LookUp
<1>2. LET d == WithTask(r, LookUp)
      IN  /\ d.status = r.status /\ d.draft = r.draft /\ d.gates = r.gates
          /\ d.tasks = r.tasks \cup {"TERM_SHEET_LOOKUP"}
  BY DEF WithTask, LookUp, Case
<1> QED BY <1>1, <1>2 DEF Looks

\* The first of the operations that are to be made takes the case to the next stage.
LEMMA StageAdvances ==
  ASSUME NEW node, NEW ops, NEW s \in Agent1State, NEW c \in StoredCase, CaseFits(c),
         Stage(node, ops, s, c), ops # << >>,
         NEW d,
         d = [c EXCEPT !.row = Result(c.row, Head(ops)),
                       !.extract = IF Head(ops) = Move("TERM_SHEET_RESOLVED", FALSE)
                                   THEN s.extract ELSE @]
  PROVE  d \in StoredCase /\ CaseFits(d) /\ Stage(node, Tail(ops), s, d)
<1> DEFINE k == Head(ops)
           r == Result(c.row, k)
<1>1. k \in {Move("PRICES_PULLED", FALSE), Move("TERM_SHEET_RESOLVED", FALSE),
             Move("COMMS_DRAFTED", FALSE), ParkDraft, OpenGate1, LookUp}
  BY StageCalls
<1>2. c.row \in Case /\ s.extract \in Confidences \cup {NoValue}
  BY DEF StoredCase, Agent1State
<1>3. r \in Case
  BY <1>1, <1>2, GraphCalls, ResultType
<1>4. /\ d \in StoredCase /\ d.row = r /\ d.internal = c.internal /\ d.quoted = c.quoted
      /\ d.extract = IF k = Move("TERM_SHEET_RESOLVED", FALSE) THEN s.extract ELSE c.extract
  BY <1>2, <1>3 DEF StoredCase
<1>5. d.internal # 0 /\ IsBreak(d.internal, d.quoted)
  BY <1>4 DEF CaseFits
<1>6. /\ \A t1, t2 : Move(t1, FALSE) = Move(t2, FALSE) => t1 = t2
      /\ \A t : Move(t, FALSE) # ParkDraft /\ Move(t, FALSE) # OpenGate1
                /\ Move(t, FALSE) # LookUp
  BY DEF Move, ParkDraft, Update, OpenGate1, Open, LookUp
<1> HIDE DEF k, r
<1>7. CASE /\ node = "resolve_term_sheet" /\ ops = << Move("PRICES_PULLED", FALSE) >>
           /\ Looks(c.row, "DETECTED", "none", << >>, {}) /\ Unclaused(c)
           /\ s.blocked = FALSE
  <2>1. k = Move("PRICES_PULLED", FALSE) /\ Tail(ops) = << >>
    BY <1>7 DEF k
  <2>2. Looks(r, "PRICES_PULLED", "none", << >>, {})
    BY <1>2, <1>7, <2>1, MoveResult DEF r
  <2>3. Unclaused(d)
    BY <1>4, <1>6, <1>7, <2>1 DEF Unclaused
  <2>4. CaseFits(d)
    BY <1>4, <1>5, <2>2, <2>3 DEF CaseFits, Looks
  <2> QED BY <1>4, <1>7, <2>1, <2>2, <2>3, <2>4 DEF Stage
<1>8. CASE /\ node = "draft_comms" /\ ops = << Move("TERM_SHEET_RESOLVED", FALSE) >>
           /\ Looks(c.row, "PRICES_PULLED", "none", << >>, {}) /\ Unclaused(c)
           /\ s.blocked = FALSE /\ ClauseIsCertain(s.extract)
  <2>1. k = Move("TERM_SHEET_RESOLVED", FALSE) /\ Tail(ops) = << >>
    BY <1>8 DEF k
  <2>2. Looks(r, "TERM_SHEET_RESOLVED", "none", << >>, {})
    BY <1>2, <1>8, <2>1, MoveResult DEF r
  <2>3. Claused(d)
    BY <1>4, <1>8, <2>1 DEF Claused
  <2>4. CaseFits(d)
    BY <1>4, <1>5, <2>2, <2>3 DEF CaseFits, Looks
  <2> QED BY <1>4, <1>8, <2>1, <2>2, <2>3, <2>4 DEF Stage
<1>9. CASE /\ node = "notify_internal" /\ ops = << Move("COMMS_DRAFTED", FALSE) >>
           /\ Looks(c.row, "TERM_SHEET_RESOLVED", "none", << >>, {}) /\ Claused(c)
           /\ s.blocked = FALSE
  <2>1. k = Move("COMMS_DRAFTED", FALSE) /\ Tail(ops) = << >>
    BY <1>9 DEF k
  <2>2. Looks(r, "COMMS_DRAFTED", "none", << >>, {})
    BY <1>2, <1>9, <2>1, MoveResult DEF r
  <2>3. Claused(d)
    BY <1>4, <1>6, <1>9, <2>1 DEF Claused
  <2>4. CaseFits(d)
    BY <1>4, <1>5, <2>2, <2>3 DEF CaseFits, Looks
  <2> QED BY <1>4, <1>9, <2>1, <2>2, <2>3, <2>4 DEF Stage
<1>10. CASE /\ node = "END" /\ ops = << ParkDraft, OpenGate1 >>
            /\ Looks(c.row, "COMMS_DRAFTED", "none", << >>, {}) /\ Claused(c)
            /\ s.blocked = FALSE
  <2>1. k = ParkDraft /\ Tail(ops) = << OpenGate1 >>
    BY <1>10 DEF k
  <2>2. Looks(r, "COMMS_DRAFTED", "agent", << >>, {})
    BY <1>2, <1>10, <2>1, ParkResult DEF r
  <2>3. Claused(d)
    BY <1>4, <1>6, <1>10, <2>1 DEF Claused
  <2>4. CaseFits(d)
    BY <1>4, <1>5, <2>2, <2>3 DEF CaseFits, Looks
  <2> QED BY <1>4, <1>10, <2>1, <2>2, <2>3, <2>4 DEF Stage
<1>11. CASE /\ node = "END" /\ ops = << OpenGate1 >>
            /\ Looks(c.row, "COMMS_DRAFTED", "agent", << >>, {}) /\ Claused(c)
            /\ s.blocked = FALSE
  <2>1. k = OpenGate1 /\ Tail(ops) = << >>
    BY <1>11 DEF k
  <2>2. Looks(r, "PENDING_ANALYST_APPROVAL", "agent", Gate1Open, {})
    BY <1>2, <1>11, <2>1, OpenResult DEF r
  <2>3. Claused(d)
    BY <1>4, <1>6, <1>11, <2>1 DEF Claused
  <2>4. CaseFits(d)
    BY <1>4, <1>5, <2>2, <2>3 DEF CaseFits, Looks
  <2> QED BY <1>4, <1>11, <2>1, <2>2, <2>3, <2>4 DEF Stage
<1>12. CASE /\ node = "END" /\ ops = << LookUp >>
            /\ Looks(c.row, "PRICES_PULLED", "none", << >>, {}) /\ Unclaused(c)
            /\ s.blocked = TRUE
  <2>1. k = LookUp /\ Tail(ops) = << >>
    BY <1>12 DEF k
  <2>2. Looks(r, "PRICES_PULLED", "none", << >>, {"TERM_SHEET_LOOKUP"})
    BY <1>2, <1>12, <2>1, LookUpResult DEF r
  <2>3. Unclaused(d)
    BY <1>4, <1>6, <1>12, <2>1 DEF Unclaused
  <2>4. CaseFits(d)
    BY <1>4, <1>5, <2>2, <2>3 DEF CaseFits, Looks
  <2> QED BY <1>4, <1>12, <2>1, <2>2, <2>3, <2>4 DEF Stage
<1> QED BY <1>7, <1>8, <1>9, <1>10, <1>11, <1>12 DEF Stage

LEMMA OperationStep ==
  ASSUME Agent1Inv, NEW p \in Procs, Operation(p)
  PROVE  Agent1Inv'
<1> DEFINE i == state[p].case
           c == cases[i]
           k == Head(calls[p])
           d == Stored(p, k)
<1>1. /\ calls[p] # << >> /\ copy[p].version = c.row.version
      /\ cases' = [cases EXCEPT ![i] = d]
      /\ copy' = [copy EXCEPT ![p] = Result(copy[p], k)]
      /\ calls' = [calls EXCEPT ![p] = Tail(calls[p])]
      /\ at' = at /\ state' = state /\ results' = results /\ failures' = failures
  BY DEF Operation, StoredRow
<1>2. RunFits(p) /\ i # 0
  BY <1>1 DEF Agent1Inv, RunFits
<1>3. /\ i \in DOMAIN cases /\ Stage(at[p], calls[p], state[p], c) /\ copy[p] = c.row
  BY <1>1, <1>2 DEF RunFits, Current
<1>4. c \in StoredCase /\ CaseFits(c) /\ state[p] \in Agent1State
  BY <1>3 DEF Agent1Inv, Types
<1>5. d = [c EXCEPT !.row = Result(c.row, k),
                    !.extract = IF k = Move("TERM_SHEET_RESOLVED", FALSE)
                                THEN state[p].extract ELSE @]
  BY <1>3 DEF Stored
<1>6. d \in StoredCase /\ CaseFits(d) /\ Stage(at[p], Tail(calls[p]), state[p], d)
  BY <1>1, <1>3, <1>4, <1>5, StageAdvances
<1>7. d.row = Result(c.row, k) /\ d.row \in Case
  BY <1>4, <1>5, <1>6 DEF StoredCase
<1>8. copy' \in [Procs -> Case] /\ calls' \in [Procs -> Seq(Calls)]
  <2>1. calls[p] \in Seq(Calls) /\ Tail(calls[p]) \in Seq(Calls)
    BY <1>1 DEF Agent1Inv, Types
  <2> QED BY <1>1, <1>3, <1>7, <2>1 DEF Agent1Inv, Types
<1>9. ASSUME NEW q \in Procs
      PROVE  IF state[q].case = i
             THEN Stage(at[q], calls'[q], state[q], d) /\ Current(copy'[q], d.row)
             ELSE copy'[q] = copy[q] /\ calls'[q] = calls[q]
  <2>1. CASE q = p
    <3>1. calls'[p] = Tail(calls[p]) /\ copy'[p] = d.row
      BY <1>1, <1>3, <1>7 DEF Agent1Inv, Types
    <3>2. d.row.version \in Nat
      BY <1>7 DEF Case
    <3> QED BY <1>6, <2>1, <3>1, <3>2 DEF Current
  <2>2. CASE q # p
    <3>1. state[q].case # i
      BY <1>2, <2>2 DEF Agent1Inv, Apart
    <3> QED BY <1>1, <2>2, <3>1 DEF Agent1Inv, Types
  <2> QED BY <2>1, <2>2
<1>10. \A r \in results : r.case # i
  BY <1>2 DEF Agent1Inv, ResultFits
<1> HIDE DEF i, d, k
<1> QED BY <1>1, <1>3, <1>6, <1>8, <1>9, <1>10, CaseStep

LEMMA CreateCaseStep ==
  ASSUME Agent1Inv, NEW p \in Procs, CreateCase(p)
  PROVE  Agent1Inv'
<1> DEFINE s == state[p]
           n == Len(cases) + 1
           d == [row |-> NewCase("DETECTED"), mail |-> s.mail, quoted |-> s.quoted,
                 internal |-> s.internal, prices |-> s.pulled, extract |-> NoValue]
           k == << Move("PRICES_PULLED", FALSE) >>
           t == [s EXCEPT !.case = n]
<1>1. Doing(p, "create_case")
  BY DEF CreateCase
<1>2. /\ s \in Agent1State /\ s.case = 0 /\ Early("create_case", s) /\ p \in Creating
      /\ s.blocked = FALSE
  BY <1>1, AtNode
<1>3. cases \in Seq(StoredCase) /\ Len(cases) \in Nat /\ MaxCases \in Nat
  BY Agent1Assumption DEF Agent1Inv, Types
<1>4. IsFiniteSet(Creating) /\ Cardinality(Creating) \in Nat
  <2>1. IsFiniteSet(Creating)
    BY FS_Subset, Agent1Assumption DEF Creating
  <2> QED BY <2>1, FS_CardinalityType
<1>5. Cardinality(Creating \ {p}) = Cardinality(Creating) - 1
      /\ Cardinality(Creating \ {p}) \in Nat
  <2>1. IsFiniteSet(Creating \ {p})
    BY <1>4, FS_Subset
  <2> QED BY <1>2, <1>4, <2>1, FS_RemoveElement, FS_CardinalityType
<1>6. n \in 1 .. MaxCases /\ Len(cases) + Cardinality(Creating) <= MaxCases
  BY <1>3, <1>4, <1>5 DEF Agent1Inv
<1>7. d \in StoredCase
  <2>1. s.mail \in Mails /\ s.quoted \in Quotes /\ s.internal \in InternalPrices
        /\ s.pulled \in SUBSET Sources
    BY <1>2 DEF Early, Agent1State
  <2> QED BY <2>1, NewCaseType DEF StoredCase
<1>8. /\ cases' = Append(cases, d) /\ cases' \in Seq(StoredCase) /\ Len(cases') = n
      /\ cases'[n] = d /\ \A i \in DOMAIN cases : cases'[i] = cases[i]
      /\ DOMAIN cases' = DOMAIN cases \cup {n}
  <2>1. cases' = Append(cases, d)
    BY DEF CreateCase
  <2> QED BY <1>3, <1>7, <2>1
<1>9. /\ state' = [state EXCEPT ![p] = t] /\ calls' = [calls EXCEPT ![p] = k]
      /\ copy' = [copy EXCEPT ![p] = NewCase("DETECTED")]
      /\ at' = [at EXCEPT ![p] = "resolve_term_sheet"]
      /\ results' = results /\ failures' = failures
  BY <1>8 DEF CreateCase, Goto
<1>10. t \in Agent1State /\ t.case = n /\ t.blocked = FALSE
  <2>1. n \in 0 .. MaxCases
    BY <1>3, <1>6
  <2> QED BY <1>2, <2>1, StateUpdates DEF Agent1State
<1>11. k \in Seq(Calls) /\ "resolve_term_sheet" \in Nodes
  <2>1. Move("PRICES_PULLED", FALSE) \in Calls
    BY GraphCalls
  <2>2. \A x \in Calls : << x >> \in Seq(Calls)
    OBVIOUS
  <2> QED BY <2>1, <2>2 DEF Nodes
<1>12. /\ at'[p] = "resolve_term_sheet" /\ state'[p] = t /\ calls'[p] = k
       /\ copy'[p] = NewCase("DETECTED")
       /\ \A q \in Procs \ {p} : /\ at'[q] = at[q] /\ state'[q] = state[q]
                                 /\ copy'[q] = copy[q] /\ calls'[q] = calls[q]
  BY <1>9 DEF Agent1Inv, Types
<1>13. Types'
  BY <1>8, <1>9, <1>10, <1>11, NewCaseType DEF Agent1Inv, Types
<1>14. /\ d.row = NewCase("DETECTED") /\ d.extract = NoValue /\ d.internal = s.internal
       /\ d.quoted = s.quoted
  OBVIOUS
<1>15. Looks(d.row, "DETECTED", "none", << >>, {}) /\ Unclaused(d)
  BY <1>14 DEF Looks, NewCase, Unclaused
<1>16. \A i \in DOMAIN cases : i # n /\ i # 0
  BY <1>3
<1>17. n # 0
  BY <1>3
<1> HIDE DEF s, n, d, k, t
<1>18. (Len(cases) + Cardinality(Creating) <= MaxCases)'
  <2>1. Creating' = Creating \ {p}
    BY <1>10, <1>12, <1>17 DEF Creating
  <2> QED BY <1>3, <1>4, <1>5, <1>6, <1>8, <2>1 DEF n
<1>19. (\A i \in DOMAIN cases : CaseFits(cases[i]))'
  <2>1. CaseFits(d)
    BY <1>2, <1>14, <1>15 DEF CaseFits, Looks, Early
  <2> QED BY <1>8, <2>1 DEF Agent1Inv
<1>20. (\A q \in Procs : RunFits(q))'
  <2>1. RunFits(p)'
    <3>1. Stage("resolve_term_sheet", k, t, d)
      BY <1>10, <1>15 DEF Stage, k
    <3>2. Current(NewCase("DETECTED"), d.row)
      BY <1>14 DEF Current, NewCase
    <3> QED BY <1>8, <1>10, <1>12, <1>17, <3>1, <3>2 DEF RunFits
  <2>2. ASSUME NEW q \in Procs \ {p} PROVE RunFits(q)'
    BY <1>8, <1>12 DEF Agent1Inv, RunFits
  <2> QED BY <2>1, <2>2
<1>21. \A q \in Procs : state[q].case # n
  BY <1>16, <1>17 DEF Agent1Inv, RunFits
<1>22. Apart'
  <2> SUFFICES ASSUME NEW q1 \in Procs, NEW q2 \in Procs, q1 # q2, state'[q1].case # 0
               PROVE  state'[q1].case # state'[q2].case
    BY DEF Apart
  <2>1. CASE q1 = p
    BY <1>10, <1>12, <1>21, <2>1
  <2>2. CASE q2 = p
    BY <1>10, <1>12, <1>21, <2>2
  <2>3. CASE q1 # p /\ q2 # p
    BY <1>12, <2>3 DEF Agent1Inv, Apart
  <2> QED BY <2>1, <2>2, <2>3
<1>23. (\A r \in results : ResultFits(r))'
  <2> SUFFICES ASSUME NEW r \in results PROVE ResultFits(r)'
    BY <1>9
  <2>1. ResultFits(r)
    BY DEF Agent1Inv
  <2>2. CASE r.case = 0
    BY <2>1, <2>2 DEF ResultFits
  <2>3. CASE r.case # 0
    <3>1. r.case \in DOMAIN cases /\ r.case # n
      BY <1>16, <2>1, <2>3 DEF ResultFits
    <3>2. \A q \in Procs : state'[q].case # r.case
      BY <1>10, <1>12, <2>1, <2>3, <3>1 DEF ResultFits
    <3> QED BY <1>8, <2>1, <2>3, <3>1, <3>2 DEF ResultFits
  <2> QED BY <2>2, <2>3
<1> QED BY <1>13, <1>18, <1>19, <1>20, <1>22, <1>23 DEF Agent1Inv

----------------------------------------------------------------------------
(* The invariant holds *)

LEMMA InitialState ==
  ASSUME Init
  PROVE  Agent1Inv
<1>1. Types
  <2>1. 0 \in 0 .. MaxFailures
    BY Agent1Assumption
  <2>2. Started(NoValue) \in Agent1State /\ NewCase("DETECTED") \in Case
    BY StartedType, NewCaseType
  <2> QED BY <2>1, <2>2 DEF Init, Types
<1>2. Len(cases) + Cardinality(Creating) <= MaxCases
  <2>1. Creating = {}
    BY DEF Init, Creating
  <2>2. Cardinality(Creating) = 0
    BY <2>1, FS_EmptySet
  <2> QED BY <2>2, Agent1Assumption DEF Init
<1>3. \A p \in Procs : RunFits(p)
  BY DEF Init, RunFits, Started, Early
<1>4. Apart
  BY DEF Init, Apart, Started
<1> QED BY <1>1, <1>2, <1>3, <1>4 DEF Agent1Inv, Init

LEMMA RunStepStep ==
  ASSUME Agent1Inv, NEW p \in Procs, RunStep(p)
  PROVE  Agent1Inv'
BY ParseEmailStep, FetchInternalPriceStep, ComputeDivergenceStep, PullExternalPricesStep,
   CreateCaseStep, ResolveTermSheetStep, BlockOnTermSheetStep, DraftCommsStep,
   NotifyInternalStep, SubmitGate1Step, ReturnStep, OperationStep, RaisesStep
   DEF RunStep, NoPriceToCompare, ZeroPriceRaises, DraftRaises, OperationRaises

LEMMA NextStep ==
  ASSUME Agent1Inv, [Next]_agent1Vars
  PROVE  Agent1Inv'
<1>1. ASSUME NEW p \in Procs, (\E m \in Mails : Trigger(p, m)) \/ RunStep(p) \/ BreakOff(p)
      PROVE  Agent1Inv'
  BY <1>1, TriggerStep, RunStepStep, BreakOffStep
<1>2. ASSUME NEW i \in DOMAIN cases, KillSwitch(i) \/ ResolveManualTask(i)
      PROVE  Agent1Inv'
  BY <1>2, HumanStep DEF KillSwitch, ResolveManualTask
<1>3. ASSUME UNCHANGED agent1Vars
      PROVE  Agent1Inv'
  BY <1>3 DEF agent1Vars, Agent1Inv, Types, Creating, CaseFits, RunFits, Apart, ResultFits
<1> QED BY <1>1, <1>2, <1>3 DEF Next

(* The inductive invariant of Agent 1, for any number of runs and people: at *)
(* every node, and between any two operations, what a run still has to make  *)
(* fits what is stored of its case, and a run that returned has left its     *)
(* case as its result says (agent1/graph.py).                                *)
THEOREM Agent1Invariant == Spec => []Agent1Inv
<1>1. Init => Agent1Inv
  BY InitialState
<1>2. Agent1Inv /\ [Next]_agent1Vars => Agent1Inv'
  BY NextStep
<1> QED BY <1>1, <1>2, PTL DEF Spec

(* Types are kept, and no more cases are created than runs were started.     *)
THEOREM Agent1IsTyped == Spec => []TypeOK
<1>1. Agent1Inv => TypeOK
  <2> SUFFICES ASSUME Agent1Inv PROVE TypeOK
    OBVIOUS
  <2>1. IsFiniteSet(Creating)
    BY FS_Subset, Agent1Assumption DEF Creating
  <2>2. Cardinality(Creating) \in Nat
    BY <2>1, FS_CardinalityType
  <2>3. Len(cases) \in Nat /\ Len(cases) <= MaxCases
    BY <2>2, Agent1Assumption DEF Agent1Inv, Types
  <2> QED BY <2>3 DEF Agent1Inv, Types, TypeOK
<1> QED BY <1>1, Agent1Invariant, PTL

\* The comparison of rules.py is the comparison of the spec for positive prices.
LEMMA BreakIsBreak ==
  ASSUME NEW internal \in Nat, internal # 0, NEW quoted \in Int
  PROVE  IsBreak(internal, quoted) <=> Breaks(internal, quoted)
<1>1. Tolerance \in Int
  BY Agent1Assumption
<1>2. Tolerance * internal \in Int
  BY <1>1
<1>3. /\ internal * (10000 + Tolerance) = 10000 * internal + Tolerance * internal
      /\ internal * (10000 - Tolerance) = 10000 * internal - Tolerance * internal
  BY <1>1
<1> QED BY <1>2, <1>3 DEF IsBreak, Breaks, Distance

(* Whatever prices are quoted, and with positive internal prices, breaks and *)
(* only breaks become cases (rules.py:25-48).  A negative internal price     *)
(* turns the comparison of the code round.                                   *)
THEOREM OnlyBreaksBecomeCases ==
  ASSUME InternalPrices \subseteq Nat
  PROVE  Spec => []BreaksBecomeCases
<1>1. Agent1Inv => BreaksBecomeCases
  <2> SUFFICES ASSUME Agent1Inv PROVE BreaksBecomeCases
    OBVIOUS
  <2>1. ASSUME NEW i \in DOMAIN cases
        PROVE  Breaks(cases[i].internal, cases[i].quoted)
    <3>1. cases[i] \in StoredCase /\ CaseFits(cases[i])
      BY DEF Agent1Inv, Types
    <3>2. cases[i].internal \in Nat /\ cases[i].quoted \in Int
      BY <3>1, Agent1Assumption DEF StoredCase
    <3> QED BY <3>1, <3>2, BreakIsBreak DEF CaseFits
  <2>2. ASSUME NEW r \in results, r.case = 0
        PROVE  ~Breaks(r.internal, r.quoted)
    <3>1. Early("END", r)
      BY <2>2 DEF Agent1Inv, ResultFits
    <3>2. r.internal \in Nat /\ r.quoted \in Int
      BY <3>1, Agent1Assumption DEF Early
    <3> QED BY <3>1, <3>2, BreakIsBreak DEF Early
  <2> QED BY <2>1, <2>2 DEF BreaksBecomeCases
<1> QED BY <1>1, Agent1Invariant, PTL

(* For any threshold and any extraction, nothing is drafted or put to an     *)
(* analyst on a clause that is not certain or still to be looked up          *)
(* (agent1/graph.py:192-251).                                                *)
THEOREM DraftsRestOnClauses == Spec => []DraftRestsOnClause
<1>1. Agent1Inv => DraftRestsOnClause
  <2> SUFFICES ASSUME Agent1Inv, NEW i \in DOMAIN cases,
                      \/ cases[i].row.status \in
                           {"TERM_SHEET_RESOLVED", "COMMS_DRAFTED", "PENDING_ANALYST_APPROVAL"}
                      \/ cases[i].row.draft # "none" \/ cases[i].row.gates # << >>
               PROVE  /\ cases[i].extract # NoValue
                      /\ cases[i].extract >= MinExtractionConfidence
                      /\ cases[i].row.tasks = {}
    BY DEF DraftRestsOnClause
  <2>1. CaseFits(cases[i])
    BY DEF Agent1Inv
  <2>2. Claused(cases[i]) /\ cases[i].row.tasks = {}
    BY <2>1 DEF CaseFits
  <2> QED BY <2>2 DEF Claused, ClauseIsCertain
<1> QED BY <1>1, Agent1Invariant, PTL

(* However many runs and people there are, what a run returned is what it    *)
(* left in the store (graph.py:300-313).                                     *)
THEOREM ResultsTellCases == Spec => []ResultTellsTheCase
<1>1. Agent1Inv => ResultTellsTheCase
  <2> SUFFICES ASSUME Agent1Inv, NEW r \in results, r.case # 0
               PROVE  LET row == cases[r.case].row
                      IN  IF r.blocked
                          THEN row.status \in {"PRICES_PULLED", "CANCELLED"} /\ row.draft = "none"
                          ELSE /\ row.status \in {"PENDING_ANALYST_APPROVAL", "CANCELLED"}
                               /\ row.draft = "agent" /\ HasOpenGate(row, {"PRE_SEND_REVIEW"})
    BY DEF ResultTellsTheCase
  <2> DEFINE row == cases[r.case].row
  <2>1. Stage("END", << >>, r, cases[r.case])
    BY DEF Agent1Inv, ResultFits
  <2>2. \/ r.blocked = TRUE /\ Looks(row, "PRICES_PULLED", "none", << >>, {"TERM_SHEET_LOOKUP"})
        \/ r.blocked = FALSE /\ Looks(row, "PENDING_ANALYST_APPROVAL", "agent", Gate1Open, {})
    BY <2>1 DEF Stage
  <2>3. row.gates = Gate1Open => HasOpenGate(row, {"PRE_SEND_REVIEW"})
    <3>1. DOMAIN Gate1Open = 1 .. 1 /\ Gate1Open[1] = [type |-> "PRE_SEND_REVIEW", status |-> "pending"]
      BY DEF Gate1Open
    <3>2. row.gates = Gate1Open => 1 \in PendingGates(row, {"PRE_SEND_REVIEW"})
      BY <3>1 DEF PendingGates
    <3> QED BY <3>2 DEF HasOpenGate
  <2> QED BY <2>2, <2>3 DEF Looks
<1> QED BY <1>1, Agent1Invariant, PTL

\* Of the operations a stage begins with, the gate's opening follows the parking.
LEMMA OpensAfterParking ==
  ASSUME NEW node, NEW ops, NEW s, NEW c, Stage(node, ops, s, c), ops # << >>,
         Head(ops) = OpenGate1
  PROVE  c.row.draft = "agent"
<1>1. \/ \E k \in {Move("PRICES_PULLED", FALSE), Move("TERM_SHEET_RESOLVED", FALSE),
                   Move("COMMS_DRAFTED", FALSE), LookUp} : ops = << k >>
      \/ ops = << ParkDraft, OpenGate1 >>
      \/ ops = << OpenGate1 >> /\ Looks(c.row, "COMMS_DRAFTED", "agent", << >>, {})
  BY Zenon DEF Stage
<1>2. /\ \A t : Move(t, FALSE) # OpenGate1
      /\ ParkDraft # OpenGate1 /\ LookUp # OpenGate1
  BY DEF Move, ParkDraft, Update, OpenGate1, Open, LookUp
<1>3. CASE \E k \in {Move("PRICES_PULLED", FALSE), Move("TERM_SHEET_RESOLVED", FALSE),
                     Move("COMMS_DRAFTED", FALSE), LookUp} : ops = << k >>
  <2>1. PICK k \in {Move("PRICES_PULLED", FALSE), Move("TERM_SHEET_RESOLVED", FALSE),
                    Move("COMMS_DRAFTED", FALSE), LookUp} : ops = << k >>
    BY <1>3
  <2>2. Head(ops) = k
    BY <2>1
  <2> QED BY <1>2, <2>2
<1>4. CASE ops = << ParkDraft, OpenGate1 >>
  <2>1. Head(ops) = ParkDraft
    BY <1>4
  <2> QED BY <1>2, <2>1
<1> QED BY <1>1, <1>3, <1>4 DEF Looks

\* No operation of the graph, and none of the people, revives or gates a killed case.
LEMMA KilledStays ==
  ASSUME NEW r \in Case, r.status = "CANCELLED", NEW k \in Calls, Allowed(r, k),
         k \notin CloseGateCalls, k.op = "openGate" => k.target # "none"
  PROVE  Result(r, k).status = "CANCELLED" /\ Result(r, k).gates = r.gates
<1>1. r.status \in TerminalStatuses
  BY DEF TerminalStatuses
<1>2. Result(r, k).status = r.status
  BY <1>1, TerminalStep
<1>3. k.op # "openGate"
  <2>1. \A target, ctx : ~MayTransition(r, target, ctx)
    BY <1>1 DEF MayTransition, IllegalTransition, AllowedTargets
  <2> QED BY <2>1 DEF Allowed, OpenGateAllowed
<1>4. Result(r, k).gates = r.gates
  BY <1>3, CallKinds DEF Result, WithTransition, WithUpdate, WithKill, WithTask,
                         WithMessage, Case
<1> QED BY <1>2, <1>4

\* The operations that the graph and the people make on the cases of Agent 1.
RunCalls ==
  {Move("PRICES_PULLED", FALSE), Move("TERM_SHEET_RESOLVED", FALSE),
   Move("COMMS_DRAFTED", FALSE), ParkDraft, OpenGate1, LookUp, Kill,
   [op |-> "resolveTask", kind |-> "TERM_SHEET_LOOKUP"]}

\* The operation k of them takes a row to another; a gate opens on a parked draft only.
Operates(k, r, new) ==
  /\ Allowed(r, k) /\ new = Result(r, k)
  /\ k = OpenGate1 => r.draft = "agent"

\* None of them closes a gate or opens one in another status.
LEMMA RunCallKinds ==
  ASSUME NEW k \in RunCalls
  PROVE  k \in Calls /\ k \notin CloseGateCalls /\ (k.op = "openGate" => k.target # "none")
<1>1. k \in Calls
  BY GraphCalls DEF RunCalls
<1>2. k.op # "closeGate" /\ (k.op = "openGate" => k.target # "none")
  BY DEF RunCalls, Move, ParkDraft, Update, OpenGate1, Open, LookUp, Kill
<1> QED BY <1>1, <1>2 DEF CloseGateCalls

\* What a run does apart from creating its case and operating on it.
LEMMA OthersKeepCases ==
  ASSUME NEW p \in Procs,
         \/ \E m \in Mails : Trigger(p, m)
         \/ RunStep(p) /\ ~CreateCase(p) /\ ~Operation(p)
         \/ BreakOff(p)
  PROVE  cases' = cases
BY DEF RunStep, Trigger, ParseEmail, FetchInternalPrice, NoPriceToCompare,
     ComputeDivergence, ZeroPriceRaises, PullExternalPrices, ResolveTermSheet, BlockOnTermSheet,
     DraftComms, DraftRaises, NotifyInternal, SubmitGate1, Return, OperationRaises, BreakOff,
     StateNode, CaseNode, Raises

\* Only operations change stored cases, and they change one.
LEMMA CasesChange ==
  ASSUME Agent1Inv, [Next]_agent1Vars, NEW i \in DOMAIN cases
  PROVE  \/ cases'[i].row = cases[i].row
         \/ \E k \in RunCalls : Operates(k, cases[i].row, cases'[i].row)
<1>0. cases \in Seq(StoredCase)
  BY DEF Agent1Inv, Types
<1>1. ASSUME NEW p \in Procs, Operation(p)
      PROVE  \/ cases'[i] = cases[i]
             \/ \E k \in RunCalls : Operates(k, cases[i].row, cases'[i].row)
  <2> DEFINE k == Head(calls[p])
             j == state[p].case
  <2>1. /\ calls[p] # << >> /\ Allowed(copy[p], k) /\ copy[p].version = cases[j].row.version
        /\ cases' = [cases EXCEPT ![j] = Stored(p, k)]
    BY <1>1 DEF Operation, StoredRow
  <2>2. RunFits(p)
    BY DEF Agent1Inv
  <2>3. /\ j \in DOMAIN cases /\ Stage(at[p], calls[p], state[p], cases[j])
        /\ copy[p] = cases[j].row
    BY <2>1, <2>2 DEF RunFits, Current
  <2>4. k \in {Move("PRICES_PULLED", FALSE), Move("TERM_SHEET_RESOLVED", FALSE),
               Move("COMMS_DRAFTED", FALSE), ParkDraft, OpenGate1, LookUp}
    BY <2>1, <2>3, StageCalls
  <2>5. k \in RunCalls
    BY <2>4 DEF RunCalls
  <2>6. k = OpenGate1 => cases[j].row.draft = "agent"
    BY <2>1, <2>3, OpensAfterParking
  <2>7. CASE i = j
    <3>1. cases'[i] = Stored(p, k)
      BY <1>0, <2>1, <2>3, <2>7
    <3>2. cases[j] \in StoredCase
      BY <1>0, <2>3
    <3>3. Stored(p, k).row = Result(cases[i].row, k)
      BY <2>3, <2>7, <3>2 DEF Stored, StoredCase
    <3> QED BY <2>1, <2>3, <2>5, <2>6, <2>7, <3>1, <3>3 DEF Operates
  <2>8. CASE i # j
    BY <1>0, <2>1, <2>8
  <2> QED BY <2>7, <2>8
<1>2. ASSUME NEW j \in DOMAIN cases, KillSwitch(j) \/ ResolveManualTask(j)
      PROVE  \/ cases'[i] = cases[i]
             \/ \E k \in RunCalls : Operates(k, cases[i].row, cases'[i].row)
  <2>1. PICK k \in {Kill, [op |-> "resolveTask", kind |-> "TERM_SHEET_LOOKUP"]} :
          HumanOperation(j, k)
    BY <1>2 DEF KillSwitch, ResolveManualTask
  <2>2. k \in RunCalls
    BY DEF RunCalls
  <2>3. k # OpenGate1
    BY DEF Kill, OpenGate1, Open
  <2>4. /\ Allowed(cases[j].row, k)
        /\ cases' = [cases EXCEPT ![j] = [cases[j] EXCEPT !.row = Result(cases[j].row, k)]]
    BY <2>1 DEF HumanOperation
  <2>5. CASE i = j
    <3>1. cases[j] \in StoredCase
      BY <1>0
    <3>2. cases'[i].row = Result(cases[i].row, k)
      BY <1>0, <2>4, <2>5, <3>1 DEF StoredCase
    <3> QED BY <2>2, <2>3, <2>4, <2>5, <3>2 DEF Operates
  <2>6. CASE i # j
    BY <1>0, <2>4, <2>6
  <2> QED BY <2>5, <2>6
<1>3. ASSUME NEW p \in Procs, CreateCase(p)
      PROVE  cases'[i] = cases[i]
  BY <1>0, <1>3 DEF CreateCase
<1>4. ASSUME NEW p \in Procs,
             \/ \E m \in Mails : Trigger(p, m)
             \/ RunStep(p) /\ ~CreateCase(p) /\ ~Operation(p)
             \/ BreakOff(p)
      PROVE  cases' = cases
  BY <1>4, OthersKeepCases
<1> QED BY <1>1, <1>2, <1>3, <1>4 DEF Next, RunStep, agent1Vars

(* The kill switch is final for every run that is under way: it neither      *)
(* revives the case nor opens a gate on it (engine.py:369-371).              *)
THEOREM KilledCasesAreLeftAlone == Spec => KilledIsLeftAlone
<1>1. ASSUME Agent1Inv, [Next]_agent1Vars, NEW i \in DOMAIN cases,
             cases[i].row.status = "CANCELLED"
      PROVE  cases'[i].row.status = "CANCELLED" /\ cases'[i].row.gates = cases[i].row.gates
  <2>1. cases[i].row \in Case
    <3>1. cases[i] \in StoredCase
      BY <1>1 DEF Agent1Inv, Types
    <3> QED BY <3>1 DEF StoredCase
  <2> QED BY <1>1, <2>1, CasesChange, RunCallKinds, KilledStays DEF Operates
<1>2. Agent1Inv /\ [Next]_agent1Vars =>
        [\A i \in DOMAIN cases :
           cases[i].row.status = "CANCELLED" =>
             /\ cases'[i].row.status = "CANCELLED"
             /\ cases'[i].row.gates = cases[i].row.gates]_agent1Vars
  BY <1>1
<1> QED BY <1>2, Agent1Invariant, PTL DEF Spec, KilledIsLeftAlone

\* The list of cases is kept or grows by a new one.
LEMMA CasesAppear ==
  ASSUME Agent1Inv, [Next]_agent1Vars
  PROVE  \/ DOMAIN cases' = DOMAIN cases
         \/ \E n : /\ DOMAIN cases' = DOMAIN cases \cup {n}
                   /\ cases'[n].row = NewCase("DETECTED")
<1>1. cases \in Seq(StoredCase) /\ cases' \in Seq(StoredCase)
  BY NextStep DEF Agent1Inv, Types
<1>2. ASSUME NEW p \in Procs, CreateCase(p)
      PROVE  \E n : /\ DOMAIN cases' = DOMAIN cases \cup {n}
                    /\ cases'[n].row = NewCase("DETECTED")
  <2>1. PICK d : cases' = Append(cases, d) /\ d.row = NewCase("DETECTED")
    BY <1>2 DEF CreateCase
  <2>2. /\ DOMAIN cases' = DOMAIN cases \cup {Len(cases) + 1}
        /\ cases'[Len(cases) + 1] = d
    BY <1>1, <2>1
  <2> QED BY <2>1, <2>2
<1>3. ASSUME NEW p \in Procs, Operation(p)
      PROVE  DOMAIN cases' = DOMAIN cases
  BY <1>3 DEF Operation
<1>4. ASSUME NEW j \in DOMAIN cases, KillSwitch(j) \/ ResolveManualTask(j)
      PROVE  DOMAIN cases' = DOMAIN cases
  BY <1>4 DEF KillSwitch, ResolveManualTask, HumanOperation
<1>5. ASSUME NEW p \in Procs,
             \/ \E m \in Mails : Trigger(p, m)
             \/ RunStep(p) /\ ~CreateCase(p) /\ ~Operation(p)
             \/ BreakOff(p)
      PROVE  cases' = cases
  BY <1>5, OthersKeepCases
<1> QED BY <1>2, <1>3, <1>4, <1>5 DEF Next, RunStep, agent1Vars

(* However many runs and people there are, each stored case changes by one   *)
(* operation at a time that the engine allows on it as it is stored, and     *)
(* none is ever removed (engine.py:156-180, sqlite_store.py:172-192).        *)
CasesFollowEngine ==
  [][\A i \in DOMAIN cases :
       /\ i \in DOMAIN cases'
       /\ \/ cases'[i].row = cases[i].row
          \/ \E k \in Calls : Allowed(cases[i].row, k)
                              /\ cases'[i].row = Result(cases[i].row, k)]_agent1Vars

(* Agent 1's handlers, whose nodes read a case and write it later, make no    *)
(* change that the engine would not allow on the case as it is by then.      *)
THEOREM EachCaseFollowsEngine == Spec => CasesFollowEngine
<1>1. ASSUME Agent1Inv, [Next]_agent1Vars, NEW i \in DOMAIN cases
      PROVE  /\ i \in DOMAIN cases'
             /\ \/ cases'[i].row = cases[i].row
                \/ \E k \in Calls : Allowed(cases[i].row, k)
                                    /\ cases'[i].row = Result(cases[i].row, k)
  BY <1>1, CasesAppear, CasesChange, RunCallKinds DEF Operates
<1>2. Agent1Inv /\ [Next]_agent1Vars =>
        [\A i \in DOMAIN cases :
           /\ i \in DOMAIN cases'
           /\ \/ cases'[i].row = cases[i].row
              \/ \E k \in Calls : Allowed(cases[i].row, k)
                                  /\ cases'[i].row = Result(cases[i].row, k)]_agent1Vars
  BY <1>1
<1> QED BY <1>2, Agent1Invariant, PTL DEF Spec, CasesFollowEngine

----------------------------------------------------------------------------
(* What the rest of the system starts from *)

\* A row no handler but Agent 1, a resolved task or a kill has touched.
Fresh(r) ==
  /\ r.thread = << >> /\ r.loops = 0 /\ r.resolution = "none"
  /\ \/ /\ r.gates = << >>
        /\ r.status \in {"DETECTED", "PRICES_PULLED", "TERM_SHEET_RESOLVED", "COMMS_DRAFTED",
                         "CANCELLED"}
     \/ /\ r.gates = Gate1Open /\ r.draft = "agent"
        /\ r.status \in {"PENDING_ANALYST_APPROVAL", "CANCELLED"}

LEMMA FreshStep ==
  ASSUME NEW r \in Case, Fresh(r), NEW k \in RunCalls, NEW d, Operates(k, r, d)
  PROVE  Fresh(d)
<1>1. CASE k \in {Move("PRICES_PULLED", FALSE), Move("TERM_SHEET_RESOLVED", FALSE),
                  Move("COMMS_DRAFTED", FALSE)}
  <2>1. PICK target \in {"PRICES_PULLED", "TERM_SHEET_RESOLVED", "COMMS_DRAFTED"} :
          k = Move(target, FALSE)
    BY <1>1
  <2>2. d = WithTransition(r, k)
    BY <2>1 DEF Operates, Result, Move
  <2>3. /\ d.status = target /\ d.draft = r.draft /\ d.gates = r.gates /\ d.thread = r.thread
        /\ d.loops = r.loops /\ d.resolution = r.resolution
    BY <2>1, <2>2 DEF WithTransition, WrittenResolution, Move, Case
  <2>4. target \in AllowedTargets(r.status)
    BY <2>1 DEF Operates, Allowed, TransitionAllowed, MayTransition, IllegalTransition, Move
  <2>5. r.status \notin {"PENDING_ANALYST_APPROVAL", "CANCELLED"}
    BY <2>4 DEF AllowedTargets, TerminalStatuses, Transitions
  <2> QED BY <2>3, <2>5 DEF Fresh
<1>2. CASE k = ParkDraft
  <2>1. d = WithUpdate(r, k)
    BY <1>2 DEF Operates, Result, ParkDraft, Update
  <2>2. /\ d.status = r.status /\ d.draft = "agent" /\ d.gates = r.gates /\ d.thread = r.thread
        /\ d.loops = r.loops /\ d.resolution = r.resolution
    BY <1>2, <2>1 DEF WithUpdate, ParkDraft, Update, Case
  <2> QED BY <2>2 DEF Fresh
<1>3. CASE k = OpenGate1
  <2>1. d = WithOpenGate(r, k) /\ r.draft = "agent"
    BY <1>3 DEF Operates, Result, OpenGate1, Open
  <2>2. /\ d.status = "PENDING_ANALYST_APPROVAL" /\ d.draft = r.draft /\ d.thread = r.thread
        /\ d.gates = Append(r.gates, [type |-> "PRE_SEND_REVIEW", status |-> "pending"])
        /\ d.loops = r.loops /\ d.resolution = r.resolution
    BY <1>3, <2>1 DEF WithOpenGate, TargetStatus, OpenGate1, Open, Case
  <2>3. "PENDING_ANALYST_APPROVAL" \in AllowedTargets(r.status)
    BY <1>3 DEF Operates, Allowed, OpenGateAllowed, MayTransition, IllegalTransition,
                OpenGate1, Open
  <2>4. r.status \notin {"PENDING_ANALYST_APPROVAL", "CANCELLED"}
    BY <2>3 DEF AllowedTargets, TerminalStatuses, Transitions
  <2>5. r.gates = << >>
    BY <2>4 DEF Fresh
  <2>6. Append(<< >>, [type |-> "PRE_SEND_REVIEW", status |-> "pending"]) = Gate1Open
    BY DEF Gate1Open
  <2> QED BY <2>1, <2>2, <2>5, <2>6 DEF Fresh
<1>4. CASE k = Kill
  <2>1. d = WithKill(r)
    BY <1>4 DEF Operates, Result, Kill
  <2>2. /\ d.status = "CANCELLED" /\ d.draft = r.draft /\ d.gates = r.gates
        /\ d.thread = r.thread /\ d.loops = r.loops /\ d.resolution = r.resolution
    BY <2>1 DEF WithKill, Case
  <2> QED BY <2>2 DEF Fresh
<1>5. CASE k \in {LookUp, [op |-> "resolveTask", kind |-> "TERM_SHEET_LOOKUP"]}
  <2>1. d = WithTask(r, k)
    BY <1>5 DEF Operates, Result, LookUp
  <2>2. /\ d.status = r.status /\ d.draft = r.draft /\ d.gates = r.gates
        /\ d.thread = r.thread /\ d.loops = r.loops /\ d.resolution = r.resolution
    BY <2>1 DEF WithTask, Case
  <2> QED BY <2>2 DEF Fresh
<1> QED BY <1>1, <1>2, <1>3, <1>4, <1>5 DEF RunCalls

LEMMA FreshIsOrderly ==
  ASSUME NEW r \in Case, Fresh(r)
  PROVE  /\ Orderly(r)
         /\ HasOpenGate(r, GateTypes) => r.draft = "agent"
         /\ \A g \in GateTypes : ~HasApprovedGate(r, g)
<1>1. /\ \/ r.gates = << >> /\ DOMAIN r.gates = {}
         \/ r.gates = Gate1Open /\ DOMAIN r.gates = {1} /\ r.draft = "agent"
              /\ r.gates[1] = [type |-> "PRE_SEND_REVIEW", status |-> "pending"]
              /\ r.status \in {"PENDING_ANALYST_APPROVAL", "CANCELLED"}
      /\ r.loops = 0 /\ r.resolution = "none"
  BY DEF Fresh, Gate1Open
<1>2. GatesInOrder(r)
  BY <1>1 DEF GatesInOrder
<1>3. /\ HasOpenGate(r, {"PRE_SEND_REVIEW"}) =>
           r.status \in {"PENDING_ANALYST_APPROVAL", "CANCELLED"}
      /\ ~HasOpenGate(r, {"DISPUTE_ESCALATION"})
      /\ HasOpenGate(r, GateTypes) => r.draft = "agent"
      /\ r.status = "COMMS_DRAFTED" => r.gates = << >>
  BY <1>1 DEF HasOpenGate, PendingGates
<1>4. Approvals(r, "DISPUTE_ESCALATION") = {} /\ \A g \in GateTypes : ~HasApprovedGate(r, g)
  BY <1>1 DEF Approvals, HasApprovedGate
<1>5. Cardinality(Approvals(r, "DISPUTE_ESCALATION")) = 0
  BY <1>4, FS_EmptySet
<1> QED BY <1>1, <1>2, <1>3, <1>4, <1>5 DEF Orderly

(* Whatever runs and people did to it, a stored case is one that the people  *)
(* at the gates and Agent 2 may take over: it is orderly, nothing was sent,  *)
(* received, counted or resolved, it is at gate 1 at the most, and whoever   *)
(* finds gate 1 open finds the draft beside it (graph.py:275-313,            *)
(* gates/service.py:119-141).  Together with CasesFollowEngine this is what  *)
(* Workflow, TimedWorkflow and Agreement assume of the case they begin with. *)
HandsOver ==
  \A i \in DOMAIN cases :
    LET row == cases[i].row
    IN  /\ row \in Case /\ Orderly(row)
        /\ row.thread = << >> /\ row.loops = 0 /\ row.resolution = "none"
        /\ row.status \in {"DETECTED", "PRICES_PULLED", "TERM_SHEET_RESOLVED",
                           "COMMS_DRAFTED", "PENDING_ANALYST_APPROVAL", "CANCELLED"}
        /\ HasOpenGate(row, GateTypes) => row.draft = "agent"
        /\ \A g \in GateTypes : ~HasApprovedGate(row, g)

(* For any number of runs and kills at any moment, and with runs that broke   *)
(* off anywhere: Fresh is kept by every operation that is made on a case.    *)
THEOREM CasesAreFitToHandOver == Spec => []HandsOver
<1> DEFINE AllFresh == \A i \in DOMAIN cases : Fresh(cases[i].row)
<1>1. Init => AllFresh
  BY DEF Init
<1>2. Agent1Inv /\ AllFresh /\ [Next]_agent1Vars => AllFresh'
  <2> SUFFICES ASSUME Agent1Inv, AllFresh, [Next]_agent1Vars, NEW i \in DOMAIN cases'
               PROVE  Fresh(cases'[i].row)
    OBVIOUS
  <2>1. CASE i \in DOMAIN cases
    <3>1. cases[i].row \in Case /\ Fresh(cases[i].row)
      <4>1. cases[i] \in StoredCase
        BY <2>1 DEF Agent1Inv, Types
      <4> QED BY <2>1, <4>1 DEF StoredCase
    <3>2. CASE cases'[i].row = cases[i].row
      BY <3>1, <3>2
    <3>3. CASE cases'[i].row # cases[i].row
      <4>1. PICK k \in RunCalls : Operates(k, cases[i].row, cases'[i].row)
        BY <2>1, <3>3, CasesChange
      <4> QED BY <3>1, <4>1, FreshStep
    <3> QED BY <3>2, <3>3
  <2>2. CASE i \notin DOMAIN cases
    <3>1. cases'[i].row = NewCase("DETECTED")
      BY <2>2, CasesAppear
    <3> QED BY <3>1 DEF Fresh, NewCase
  <2> QED BY <2>1, <2>2
<1>3. Agent1Inv /\ AllFresh => HandsOver
  <2> SUFFICES ASSUME Agent1Inv, AllFresh, NEW i \in DOMAIN cases
               PROVE  LET row == cases[i].row
                      IN  /\ row \in Case /\ Orderly(row)
                          /\ row.thread = << >> /\ row.loops = 0 /\ row.resolution = "none"
                          /\ row.status \in {"DETECTED", "PRICES_PULLED", "TERM_SHEET_RESOLVED",
                                "COMMS_DRAFTED", "PENDING_ANALYST_APPROVAL", "CANCELLED"}
                          /\ HasOpenGate(row, GateTypes) => row.draft = "agent"
                          /\ \A g \in GateTypes : ~HasApprovedGate(row, g)
    BY DEF HandsOver
  <2> DEFINE r == cases[i].row
  <2>1. r \in Case /\ Fresh(r)
    <3>1. cases[i] \in StoredCase
      BY DEF Agent1Inv, Types
    <3> QED BY <3>1 DEF StoredCase
  <2> HIDE DEF r
  <2>2. /\ Orderly(r)
        /\ HasOpenGate(r, GateTypes) => r.draft = "agent"
        /\ \A g \in GateTypes : ~HasApprovedGate(r, g)
    BY <2>1, FreshIsOrderly
  <2>3. /\ r.thread = << >> /\ r.loops = 0 /\ r.resolution = "none"
        /\ r.status \in {"DETECTED", "PRICES_PULLED", "TERM_SHEET_RESOLVED",
                         "COMMS_DRAFTED", "PENDING_ANALYST_APPROVAL", "CANCELLED"}
    BY <2>1 DEF Fresh
  <2> QED BY <2>1, <2>2, <2>3 DEF r
<1> QED BY <1>1, <1>2, <1>3, Agent1Invariant, PTL DEF Spec
=============================================================================
