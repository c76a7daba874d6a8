--------------------------- MODULE ToolCallsProofs ---------------------------
(***************************************************************************)
(* Proofs about ToolCalls for any set of sources, any pool, any bound on   *)
(* the attempts and any back-off: the retries are bounded, the delays grow *)
(* as configured, the log is right, and the batch is a parallel pull.      *)
(***************************************************************************)
EXTENDS ToolCalls, TLAPS

\* What one call_tool keeps true of its place, its loop variable, the answers it got
\* and its records: the loop has made `attempt` calls, or is about to make the last
\* of them, and everything before the last answer was retryable.
CallOK(pl, at, an, lg) ==
  /\ at \in 1 .. MaxAttempts
  /\ an \in Seq(Answers)
  /\ lg \in Seq(Records)
  /\ Len(an) = IF pl \in {"queued", "calling"} THEN at - 1 ELSE at
  /\ \A i \in 1 .. Len(an) - 1 : an[i] = "retryable"
  /\ pl \in {"calling", "sleeping"} => \A i \in 1 .. Len(an) : an[i] = "retryable"
  /\ pl = "queued" => at = 1
  /\ pl = "sleeping" => at < MaxAttempts
  /\ pl = "exhausted" => an[Len(an)] = "permanent" \/ at = MaxAttempts
  /\ lg = IF pl \in {"value", "exhausted"}
          THEN << [attempts |-> at, succeeded |-> pl = "value"] >>
          ELSE << >>

\* The inductive invariant: every call is in order, only settled calls are collected,
\* and the pull has returned only with all of them.
BatchInv ==
  /\ place \in [Sources -> Places]
  /\ attempt \in [Sources -> Nat]
  /\ answers \in [Sources -> Seq(Answers)]
  /\ backoff \in [Sources -> Nat]
  /\ delays \in [Sources -> Seq(Nat)]
  /\ log \in [Sources -> Seq(Records)]
  /\ \A s \in Sources : CallOK(place[s], attempt[s], answers[s], log[s])
  /\ results \in SUBSET {s \in Sources : place[s] \in Outcomes}
  /\ returned \in BOOLEAN
  /\ returned => results = Sources

LEMMA InitBatch == Init => BatchInv
<1> SUFFICES ASSUME Init PROVE BatchInv
  OBVIOUS
<1> USE MaxAttemptsAssumption, BackoffAssumption DEF Init
<1>1. \A s \in Sources : CallOK(place[s], attempt[s], answers[s], log[s])
  BY DEF CallOK, Outcomes
<1>2. /\ place \in [Sources -> Places] /\ attempt \in [Sources -> Nat]
      /\ answers \in [Sources -> Seq(Answers)] /\ backoff \in [Sources -> Nat]
      /\ delays \in [Sources -> Seq(Nat)] /\ log \in [Sources -> Seq(Records)]
  BY DEF Places
<1> QED BY <1>1, <1>2 DEF BatchInv

\* An answer is appended to a sequence of retryable ones.
LEMMA AnswerAppended ==
  ASSUME NEW an \in Seq(Answers), NEW a \in Answers,
         \A i \in 1 .. Len(an) : an[i] = "retryable"
  PROVE  /\ Append(an, a) \in Seq(Answers)
         /\ Len(Append(an, a)) = Len(an) + 1
         /\ Append(an, a)[Len(an) + 1] = a
         /\ \A i \in 1 .. Len(an) : Append(an, a)[i] = "retryable"
OBVIOUS

\* A step of the source s that takes its call from one good state to another keeps
\* the invariant.
LEMMA OneCallMoves ==
  ASSUME BatchInv, NEW s \in Sources, NEW pl \in Places, NEW at \in Nat,
         NEW an \in Seq(Answers), NEW lg \in Seq(Records),
         CallOK(pl, at, an, lg),
         place[s] \notin Outcomes,
         place' = [place EXCEPT ![s] = pl], attempt' = [attempt EXCEPT ![s] = at],
         answers' = [answers EXCEPT ![s] = an], log' = [log EXCEPT ![s] = lg],
         backoff' \in [Sources -> Nat], delays' \in [Sources -> Seq(Nat)],
         UNCHANGED << results, returned >>
  PROVE  BatchInv'
<1> USE DEF BatchInv
<1>1. /\ place' \in [Sources -> Places] /\ attempt' \in [Sources -> Nat]
      /\ answers' \in [Sources -> Seq(Answers)] /\ log' \in [Sources -> Seq(Records)]
  OBVIOUS
<1>2. ASSUME NEW t \in Sources
      PROVE  CallOK(place'[t], attempt'[t], answers'[t], log'[t])
  <2>1. CASE t = s
    BY <2>1
  <2>2. CASE t # s
    BY <2>2
  <2> QED BY <2>1, <2>2
<1>3. results' \in SUBSET {t \in Sources : place'[t] \in Outcomes}
  OBVIOUS
<1> QED BY <1>1, <1>2, <1>3

LEMMA StartKeeps == ASSUME BatchInv, NEW s \in Sources, Start(s) PROVE BatchInv'
<1> USE DEF BatchInv, Start
<1>1. CallOK("calling", attempt[s], answers[s], log[s])
  <2>1. CallOK("queued", attempt[s], answers[s], log[s])
    OBVIOUS
  <2> QED BY <2>1 DEF CallOK
<1>2. place[s] \notin Outcomes /\ "calling" \in Places
  BY DEF Outcomes, Places
<1>3. /\ attempt' = [attempt EXCEPT ![s] = attempt[s]]
      /\ answers' = [answers EXCEPT ![s] = answers[s]]
      /\ log' = [log EXCEPT ![s] = log[s]]
  OBVIOUS
<1> HIDE DEF BatchInv
<1> QED BY <1>1, <1>2, <1>3, OneCallMoves DEF BatchInv

\* What holds where a tool is about to be called.
LEMMA AboutToCall ==
  ASSUME BatchInv, NEW s \in Sources, place[s] = "calling"
  PROVE  /\ attempt[s] \in 1 .. MaxAttempts /\ answers[s] \in Seq(Answers)
         /\ Len(answers[s]) = attempt[s] - 1
         /\ \A i \in 1 .. Len(answers[s]) : answers[s][i] = "retryable"
         /\ log[s] = << >>
BY DEF BatchInv, CallOK

\* The three ways in which a call ends.
LEMMA EndKeeps ==
  ASSUME BatchInv, NEW s \in Sources, NEW a \in Answers, NEW o \in Outcomes,
         Invoke(s, a), End(s, o),
         o = "exhausted" => a = "permanent" \/ attempt[s] = MaxAttempts,
         IF o = "error" THEN UNCHANGED log ELSE Report(s, o = "value")
  PROVE  BatchInv'
<1> DEFINE an == Append(answers[s], a)
           lg == IF o = "error" THEN << >>
                 ELSE << [attempts |-> attempt[s], succeeded |-> o = "value"] >>
<1>1. place[s] = "calling"
  BY DEF Invoke
<1>2. /\ attempt[s] \in 1 .. MaxAttempts /\ answers[s] \in Seq(Answers)
      /\ Len(answers[s]) = attempt[s] - 1
      /\ \A i \in 1 .. Len(answers[s]) : answers[s][i] = "retryable"
      /\ log[s] = << >>
  BY <1>1, AboutToCall
<1>3. /\ an \in Seq(Answers) /\ Len(an) = attempt[s] /\ an[attempt[s]] = a
      /\ \A i \in 1 .. attempt[s] - 1 : an[i] = "retryable"
  BY <1>2, AnswerAppended, MaxAttemptsAssumption
<1>4. lg \in Seq(Records)
  <2>1. [attempts |-> attempt[s], succeeded |-> o = "value"] \in Records
    <3>1. attempt[s] \in Nat
      BY <1>2, MaxAttemptsAssumption
    <3>2. (o = "value") \in BOOLEAN
      OBVIOUS
    <3> QED BY <3>1, <3>2, Zenon DEF Records
  <2> QED BY <2>1
<1>5. CallOK(o, attempt[s], an, lg)
  <2> HIDE DEF an
  <2>1. o \notin {"queued", "calling", "sleeping"} /\ o \in {"value", "exhausted", "error"}
    BY DEF Outcomes
  <2>2. lg = IF o \in {"value", "exhausted"}
             THEN << [attempts |-> attempt[s], succeeded |-> o = "value"] >> ELSE << >>
    BY <2>1
  <2> HIDE DEF lg
  <2> QED BY <1>2, <1>3, <1>4, <2>1, <2>2 DEF CallOK
<1>6. /\ place' = [place EXCEPT ![s] = o] /\ attempt' = [attempt EXCEPT ![s] = attempt[s]]
      /\ answers' = [answers EXCEPT ![s] = an] /\ UNCHANGED << results, returned >>
      /\ backoff' \in [Sources -> Nat] /\ delays' \in [Sources -> Seq(Nat)]
  BY DEF Invoke, End, BatchInv
<1>7. log' = [log EXCEPT ![s] = lg]
  <2>1. CASE o = "error"
    BY <1>2, <2>1 DEF BatchInv
  <2>2. CASE o # "error"
    BY <1>2, <2>2 DEF Report, BatchInv
  <2> QED BY <2>1, <2>2
<1>8. place[s] \notin Outcomes /\ o \in Places /\ attempt[s] \in Nat
  BY <1>1, <1>2, MaxAttemptsAssumption DEF Outcomes, Places
<1> HIDE DEF an, lg
<1> QED BY <1>3, <1>4, <1>5, <1>6, <1>7, <1>8, OneCallMoves

LEMMA RetryKeeps == ASSUME BatchInv, NEW s \in Sources, Retry(s) PROVE BatchInv'
<1> DEFINE an == Append(answers[s], "retryable")
<1>1. place[s] = "calling"
  BY DEF Retry, Invoke
<1>2. /\ attempt[s] \in 1 .. MaxAttempts /\ answers[s] \in Seq(Answers)
      /\ Len(answers[s]) = attempt[s] - 1
      /\ \A i \in 1 .. Len(answers[s]) : answers[s][i] = "retryable"
      /\ log[s] = << >>
  BY <1>1, AboutToCall
<1>3. /\ an \in Seq(Answers) /\ Len(an) = attempt[s]
      /\ \A i \in 1 .. attempt[s] : an[i] = "retryable"
  <2>1. "retryable" \in Answers
    BY DEF Answers
  <2> QED BY <1>2, <2>1, AnswerAppended, MaxAttemptsAssumption
<1>4. CallOK("sleeping", attempt[s], an, log[s])
  <2> HIDE DEF an
  <2>1. attempt[s] < MaxAttempts
    BY DEF Retry
  <2> QED BY <1>2, <1>3, <2>1, MaxAttemptsAssumption DEF CallOK
<1>5. /\ place' = [place EXCEPT ![s] = "sleeping"]
      /\ attempt' = [attempt EXCEPT ![s] = attempt[s]]
      /\ answers' = [answers EXCEPT ![s] = an] /\ log' = [log EXCEPT ![s] = log[s]]
      /\ UNCHANGED << results, returned >>
      /\ backoff' \in [Sources -> Nat] /\ delays' \in [Sources -> Seq(Nat)]
  BY DEF Retry, Invoke, BatchInv
<1>6. /\ place[s] \notin Outcomes /\ "sleeping" \in Places
      /\ attempt[s] \in Nat /\ log[s] \in Seq(Records)
  BY <1>1 DEF Outcomes, Places, BatchInv
<1> HIDE DEF an
<1> QED BY <1>3, <1>4, <1>5, <1>6, OneCallMoves

LEMMA WakeKeeps == ASSUME BatchInv, NEW s \in Sources, Wake(s) PROVE BatchInv'
<1>1. place[s] = "sleeping"
  BY DEF Wake
<1>2. CallOK("sleeping", attempt[s], answers[s], log[s])
  BY <1>1 DEF BatchInv
<1>3. CallOK("calling", attempt[s] + 1, answers[s], log[s])
  BY <1>2, MaxAttemptsAssumption DEF CallOK
<1>4. /\ place' = [place EXCEPT ![s] = "calling"]
      /\ attempt' = [attempt EXCEPT ![s] = attempt[s] + 1]
      /\ answers' = [answers EXCEPT ![s] = answers[s]]
      /\ log' = [log EXCEPT ![s] = log[s]] /\ UNCHANGED << results, returned >>
  BY DEF Wake, BatchInv
<1>5. backoff' \in [Sources -> Nat] /\ delays' \in [Sources -> Seq(Nat)]
  <2>1. backoff[s] * Multiplier \in Nat /\ Append(delays[s], backoff[s]) \in Seq(Nat)
    BY BackoffAssumption DEF BatchInv
  <2> QED BY <2>1 DEF Wake, BatchInv
<1>6. /\ place[s] \notin Outcomes /\ "calling" \in Places /\ attempt[s] + 1 \in Nat
      /\ answers[s] \in Seq(Answers) /\ log[s] \in Seq(Records)
  BY <1>1 DEF Outcomes, Places, BatchInv
<1> QED BY <1>3, <1>4, <1>5, <1>6, OneCallMoves

LEMMA BatchStep == ASSUME BatchInv, [Next]_vars PROVE BatchInv'
<1>1. CASE UNCHANGED vars
  BY <1>1 DEF vars, BatchInv
<1>2. CASE PullReturns
  BY <1>2 DEF PullReturns, BatchInv
<1>3. ASSUME NEW s \in Sources, Step(s) PROVE BatchInv'
  <2>1. CASE Start(s)
    BY <2>1, StartKeeps
  <2>2. CASE Return(s)
    <3>1. /\ "value" \in Answers /\ "value" \in Outcomes
          /\ Invoke(s, "value") /\ End(s, "value") /\ Report(s, "value" = "value")
      BY <2>2 DEF Return, Answers, Outcomes
    <3> QED BY <3>1, EndKeeps
  <2>3. CASE Exhausted(s)
    <3>1. PICK a \in {"retryable", "permanent"} :
            Invoke(s, a) /\ (a = "retryable" => attempt[s] = MaxAttempts)
      BY <2>3 DEF Exhausted
    <3>2. /\ a \in Answers /\ "exhausted" \in Outcomes
          /\ End(s, "exhausted") /\ Report(s, "exhausted" = "value")
          /\ a = "permanent" \/ attempt[s] = MaxAttempts
      BY <2>3, <3>1 DEF Exhausted, Answers, Outcomes
    <3> QED BY <3>1, <3>2, EndKeeps
  <2>4. CASE Escape(s)
    <3>1. /\ "error" \in Answers /\ "error" \in Outcomes
          /\ Invoke(s, "error") /\ End(s, "error") /\ UNCHANGED log
      BY <2>4 DEF Escape, Answers, Outcomes
    <3> QED BY <3>1, EndKeeps
  <2>5. CASE Retry(s)
    BY <2>5, RetryKeeps
  <2>6. CASE Wake(s)
    BY <2>6, WakeKeeps
  <2>7. CASE Collect(s)
    BY <2>7 DEF Collect, BatchInv
  <2> QED BY <1>3, <2>1, <2>2, <2>3, <2>4, <2>5, <2>6, <2>7 DEF Step, Call
<1> QED BY <1>1, <1>2, <1>3 DEF Next

THEOREM BatchInvariant == Spec => []BatchInv
BY InitBatch, BatchStep, PTL DEF Spec

(* Types, for every number of sources, threads and attempts. *)
THEOREM ToolTypes == Spec => []TypeOK
<1>1. BatchInv => TypeOK
  <2> SUFFICES ASSUME BatchInv PROVE TypeOK
    OBVIOUS
  <2>1. \A s \in Sources : attempt[s] \in 1 .. MaxAttempts
    BY DEF BatchInv, CallOK
  <2>2. attempt \in [Sources -> 1 .. MaxAttempts]
    BY <2>1 DEF BatchInv
  <2> QED BY <2>2 DEF BatchInv, TypeOK
<1> QED BY <1>1, BatchInvariant, PTL

(* Whatever the settings, a tool is called at most max_attempts times, again *)
(* only after an error that may be retried (spec 05 G5, G7).                 *)
THEOREM RetriesBounded == Spec => []RetriesAreBounded
<1>1. ASSUME BatchInv, NEW s \in Sources
      PROVE  /\ Len(answers[s]) <= MaxAttempts
             /\ \A i \in 1 .. Len(answers[s]) - 1 : answers[s][i] = "retryable"
             /\ place[s] = "exhausted" =>
                  answers[s][Len(answers[s])] = "permanent" \/ Len(answers[s]) = MaxAttempts
  <2>1. CallOK(place[s], attempt[s], answers[s], log[s])
    BY <1>1 DEF BatchInv
  <2>2. attempt[s] \in 1 .. MaxAttempts /\ Len(answers[s]) \in {attempt[s] - 1, attempt[s]}
    BY <2>1 DEF CallOK
  <2>3. Len(answers[s]) <= MaxAttempts
    BY <2>2, MaxAttemptsAssumption
  <2>4. place[s] = "exhausted" => Len(answers[s]) = attempt[s]
    BY <2>1 DEF CallOK
  <2> QED BY <2>1, <2>3, <2>4 DEF CallOK
<1>2. BatchInv => RetriesAreBounded
  BY <1>1 DEF RetriesAreBounded
<1> QED BY <1>2, BatchInvariant, PTL

(* The records say how often the tool was called and what came of it. *)
THEOREM LogIsRight == Spec => []LogTellsTheCall
<1>1. BatchInv => LogTellsTheCall
  BY DEF BatchInv, CallOK, LogTellsTheCall
<1> QED BY <1>1, BatchInvariant, PTL

\* What the loop keeps true of the delay to come and the delays slept so far: they
\* grow by the factor, and the delay to come continues them.
DelaysOK(at, next, slept) ==
  /\ Len(slept) = at - 1
  /\ slept # << >> => slept[1] = InitialBackoff
  /\ \A i \in 1 .. Len(slept) - 1 : slept[i + 1] = slept[i] * Multiplier
  /\ next = IF slept = << >> THEN InitialBackoff ELSE slept[Len(slept)] * Multiplier

DelaysInv == \A s \in Sources : DelaysOK(attempt[s], backoff[s], delays[s])

\* One more delay, the one that was to come.
LEMMA DelayAppended ==
  ASSUME NEW at \in Nat \ {0}, NEW next \in Nat, NEW slept \in Seq(Nat),
         DelaysOK(at, next, slept)
  PROVE  DelaysOK(at + 1, next * Multiplier, Append(slept, next))
<1> DEFINE longer == Append(slept, next)
<1>1. /\ longer \in Seq(Nat) /\ Len(longer) = Len(slept) + 1 /\ Len(slept) = at - 1
      /\ longer[Len(slept) + 1] = next
      /\ \A i \in 1 .. Len(slept) : longer[i] = slept[i]
  BY DEF DelaysOK
<1>2. longer # << >>
  BY <1>1
<1> HIDE DEF longer
<1>3. longer[1] = InitialBackoff
  <2>1. CASE slept = << >>
    BY <1>1, <2>1 DEF DelaysOK
  <2>2. CASE slept # << >>
    <3>1. Len(slept) \in Nat \ {0}
      BY <2>2
    <3> QED BY <1>1, <2>2, <3>1 DEF DelaysOK
  <2> QED BY <2>1, <2>2
<1>4. ASSUME NEW i \in 1 .. Len(longer) - 1
      PROVE  longer[i + 1] = longer[i] * Multiplier
  <2>1. i \in 1 .. Len(slept) /\ slept # << >> /\ Len(slept) \in Nat
    BY <1>1
  <2>2. CASE i = Len(slept)
    BY <1>1, <2>1, <2>2 DEF DelaysOK
  <2>3. CASE i # Len(slept)
    <3>1. i \in 1 .. Len(slept) - 1 /\ i + 1 \in 1 .. Len(slept)
      BY <2>1, <2>3
    <3> QED BY <1>1, <2>1, <3>1 DEF DelaysOK
  <2> QED BY <2>2, <2>3
<1>5. Len(longer) = at + 1 - 1 /\ longer[Len(longer)] = next
  BY <1>1
<1>6. DelaysOK(at + 1, next * Multiplier, longer)
  <2>1. Len(longer) = at + 1 - 1 /\ next * Multiplier = longer[Len(longer)] * Multiplier
    BY <1>5
  <2>2. \A i \in 1 .. Len(longer) - 1 : longer[i + 1] = longer[i] * Multiplier
    BY <1>4
  <2>3. next * Multiplier = IF longer = << >> THEN InitialBackoff
                            ELSE longer[Len(longer)] * Multiplier
    BY <1>2, <2>1
  <2> QED BY <1>3, <2>1, <2>2, <2>3 DEF DelaysOK
<1> QED BY <1>6 DEF longer

LEMMA InitDelays == Init => DelaysInv
BY BackoffAssumption DEF Init, DelaysInv, DelaysOK

LEMMA DelaysStep == ASSUME BatchInv, DelaysInv, [Next]_vars PROVE DelaysInv'
<1>1. CASE UNCHANGED << attempt, backoff, delays >>
  BY <1>1 DEF DelaysInv
<1>2. ASSUME NEW s \in Sources, Wake(s) PROVE DelaysInv'
  <2>1. /\ attempt' = [attempt EXCEPT ![s] = attempt[s] + 1]
        /\ backoff' = [backoff EXCEPT ![s] = backoff[s] * Multiplier]
        /\ delays' = [delays EXCEPT ![s] = Append(delays[s], backoff[s])]
    BY <1>2 DEF Wake
  <2>2. /\ attempt \in [Sources -> Nat] /\ backoff \in [Sources -> Nat]
        /\ delays \in [Sources -> Seq(Nat)] /\ attempt[s] \in Nat \ {0}
    BY DEF BatchInv, CallOK
  <2>3. DelaysOK(attempt[s] + 1, backoff[s] * Multiplier, Append(delays[s], backoff[s]))
    BY <2>2, DelayAppended DEF DelaysInv
  <2>4. ASSUME NEW t \in Sources PROVE DelaysOK(attempt[t], backoff[t], delays[t])'
    <3>1. CASE t = s
      BY <2>1, <2>2, <2>3, <3>1 DEF DelaysOK
    <3>2. CASE t # s
      <4>1. attempt'[t] = attempt[t] /\ backoff'[t] = backoff[t] /\ delays'[t] = delays[t]
        BY <2>1, <2>2, <3>2
      <4> QED BY <4>1 DEF DelaysInv, DelaysOK
    <3> QED BY <3>1, <3>2
  <2> QED BY <2>4 DEF DelaysInv
<1> QED BY <1>1, <1>2 DEF Next, Step, Call, Start, Return, Exhausted, Escape, Retry, Collect,
                          PullReturns, Invoke, End, vars

(* However a call goes, there is one delay between two calls of the tool, the *)
(* first as configured and each of the others longer than the one before it by *)
(* the factor; after the last call there is none.                             *)
THEOREM DelaysGrow == Spec => []DelaysAreExponential
<1>1. Init => BatchInv /\ DelaysInv
  BY InitBatch, InitDelays
<1>2. (BatchInv /\ DelaysInv) /\ [Next]_vars => (BatchInv /\ DelaysInv)'
  BY BatchStep, DelaysStep
<1>3. BatchInv /\ DelaysInv => DelaysAreExponential
  <2> SUFFICES ASSUME BatchInv, DelaysInv, NEW s \in Sources
               PROVE  /\ Len(delays[s]) = IF place[s] \in {"queued", "calling"}
                                          THEN Len(answers[s]) ELSE Len(answers[s]) - 1
                      /\ delays[s] # << >> => delays[s][1] = InitialBackoff
                      /\ \A i \in 1 .. Len(delays[s]) - 1 :
                           delays[s][i + 1] = delays[s][i] * Multiplier
    BY DEF DelaysAreExponential
  <2>1. /\ Len(answers[s]) = IF place[s] \in {"queued", "calling"}
                             THEN attempt[s] - 1 ELSE attempt[s]
    BY DEF BatchInv, CallOK
  <2>2. DelaysOK(attempt[s], backoff[s], delays[s])
    BY DEF DelaysInv
  <2> QED BY <2>1, <2>2 DEF DelaysOK
<1> QED BY <1>1, <1>2, <1>3, PTL DEF Spec

\* The outcome of the call of t, as ParallelPull sees it.
OutcomeOf(t) == IF place[t] \in Outcomes THEN place[t] ELSE "pending"

\* A call that moves without ending is invisible to the caller of the pull.
LEMMA QuietStep ==
  ASSUME BatchInv, NEW s \in Sources, place[s] \notin Outcomes,
         NEW pl \in {"calling", "sleeping"}, place' = [place EXCEPT ![s] = pl],
         UNCHANGED returned
  PROVE  UNCHANGED Pull!pullVars
<1>1. pl \notin Outcomes
  BY DEF Outcomes
<1>2. ASSUME NEW t \in Sources PROVE OutcomeOf(t)' = OutcomeOf(t)
  BY <1>1 DEF OutcomeOf, BatchInv
<1> QED BY <1>2 DEF OutcomeOf, Pull!pullVars

\* A call that ends is the settling of its source.
LEMMA EndSettles ==
  ASSUME BatchInv, NEW s \in Sources, place[s] = "calling", NEW o \in Outcomes,
         place' = [place EXCEPT ![s] = o], UNCHANGED returned
  PROVE  Pull!Settle(s, o)
<1> DEFINE before == [t \in Sources |-> OutcomeOf(t)]
<1>1. OutcomeOf(s) = "pending"
  BY DEF OutcomeOf, Outcomes
<1>2. ASSUME NEW t \in Sources
      PROVE  OutcomeOf(t)' = IF t = s THEN o ELSE OutcomeOf(t)
  BY DEF OutcomeOf, BatchInv
<1>3. [t \in Sources |-> OutcomeOf(t)'] = [before EXCEPT ![s] = o]
  BY <1>2
<1> QED BY <1>1, <1>3 DEF OutcomeOf, Pull!Settle

LEMMA PullStep == ASSUME BatchInv, [Next]_vars PROVE [Pull!Next]_(Pull!pullVars)
<1>1. CASE UNCHANGED vars
  BY <1>1 DEF vars, Pull!pullVars
<1>2. CASE PullReturns
  <2>1. /\ ~returned /\ returned' = TRUE /\ place' = place
        /\ \A s \in Sources : place[s] \in Outcomes
    BY <1>2 DEF PullReturns, BatchInv
  <2>2. \A s \in Sources : place[s] # "pending"
    BY <2>1 DEF Outcomes
  <2> QED BY <2>1, <2>2 DEF Pull!Next, Pull!Return
<1>3. ASSUME NEW s \in Sources, Step(s) PROVE [Pull!Next]_(Pull!pullVars)
  <2>1. CASE Start(s)
    BY <2>1, QuietStep DEF Start, Outcomes
  <2>2. CASE Return(s)
    BY <2>2, EndSettles DEF Return, Invoke, End, Outcomes, Pull!Next
  <2>3. CASE Exhausted(s)
    BY <2>3, EndSettles DEF Exhausted, Invoke, End, Outcomes, Pull!Next
  <2>4. CASE Escape(s)
    BY <2>4, EndSettles DEF Escape, Invoke, End, Outcomes, Pull!Next
  <2>5. CASE Retry(s)
    BY <2>5, QuietStep DEF Retry, Invoke, Outcomes
  <2>6. CASE Wake(s)
    BY <2>6, QuietStep DEF Wake, Outcomes
  <2>7. CASE Collect(s)
    BY <2>7 DEF Collect, Pull!pullVars
  <2> QED BY <1>3, <2>1, <2>2, <2>3, <2>4, <2>5, <2>6, <2>7 DEF Step, Call
<1> QED BY <1>1, <1>2, <1>3 DEF Next

(* The batch of calls implements the parallel pull: outcomes are final and    *)
(* independent, and none is missing when it returns (graph_runtime.py).       *)
THEOREM PullRefinement == Spec => ImplementsPull
<1>1. Init => Pull!Init
  BY DEF Init, Pull!Init, Outcomes
<1>2. BatchInv /\ [Next]_vars => [Pull!Next]_(Pull!pullVars)
  BY PullStep
<1> QED BY <1>1, <1>2, BatchInvariant, PTL DEF Spec, ImplementsPull, Pull!Spec
=============================================================================
