------------------------------ MODULE ToolCalls ------------------------------
(***************************************************************************)
(* One batch of tool calls: parallel_call_tools (graph_runtime.py) hands   *)
(* one call per source to a pool of threads, and each thread runs          *)
(* call_tool (tool_wrapper.py) with its bounded retries and back-off.  A   *)
(* single call_tool is the batch with one source.                          *)
(***************************************************************************)
EXTENDS Naturals, Sequences, FiniteSets

CONSTANTS
  Sources,           \* the keys of the calls
  Workers,           \* the size of the thread pool
  MaxAttempts,       \* settings.retry.max_attempts
  InitialBackoff,    \* settings.retry.initial_backoff, in seconds
  Multiplier         \* settings.retry.backoff_multiplier

ASSUME WorkersAssumption == Workers \in Nat \ {0}
ASSUME MaxAttemptsAssumption == MaxAttempts \in Nat \ {0}
ASSUME BackoffAssumption == InitialBackoff \in Nat /\ Multiplier \in Nat \ {0}

\* What a tool does when it is called: it returns, raises a ToolError that may or
\* may not be retried (contracts.py), or raises something else (a bug in an adapter).
Answers == {"value", "retryable", "permanent", "error"}

\* How call_tool ends: with the value, with ToolCallExhausted, or with the exception
\* that is no ToolError.
Outcomes == {"value", "exhausted", "error"}

\* queued: submitted, no thread yet; calling: about to call the tool; sleeping: in
\* the back-off between two attempts; then how it ended.
Places == {"queued", "calling", "sleeping"} \cup Outcomes

VARIABLES
  place,       \* per source: where its call_tool is
  attempt,     \* per source: call_tool's loop variable
  answers,     \* external: per source, what the tool has answered so far
  backoff,     \* per source: the next delay
  delays,      \* per source: the delays it has slept, in order
  log,         \* per source: the ToolCallRecords added for it
  results,     \* the sources whose outcome parallel_call_tools has collected
  returned     \* parallel_call_tools has returned

vars == << place, attempt, answers, backoff, delays, log, results, returned >>

Records == [attempts : Nat, succeeded : BOOLEAN]

TypeOK ==
  /\ place \in [Sources -> Places]
  /\ attempt \in [Sources -> 1 .. MaxAttempts]
  /\ answers \in [Sources -> Seq(Answers)]
  /\ backoff \in [Sources -> Nat]
  /\ delays \in [Sources -> Seq(Nat)]
  /\ log \in [Sources -> Seq(Records)]
  /\ results \in SUBSET Sources
  /\ returned \in BOOLEAN

----------------------------------------------------------------------------
Init ==
  /\ place = [s \in Sources |-> "queued"]
  /\ attempt = [s \in Sources |-> 1]
  /\ answers = [s \in Sources |-> << >>]
  /\ backoff = [s \in Sources |-> InitialBackoff]
  /\ delays = [s \in Sources |-> << >>]
  /\ log = [s \in Sources |-> << >>]
  /\ results = {}
  /\ returned = FALSE

Running == {s \in Sources : place[s] \in {"calling", "sleeping"}}

\* A thread of the pool takes the call.
Start(s) ==
  /\ place[s] = "queued"
  /\ Cardinality(Running) < Workers
  /\ place' = [place EXCEPT ![s] = "calling"]
  /\ UNCHANGED << attempt, answers, backoff, delays, log, results, returned >>

\* fn(): the tool is called and answers a.
Invoke(s, a) ==
  /\ place[s] = "calling"
  /\ answers' = [answers EXCEPT ![s] = Append(@, a)]
  /\ UNCHANGED << results, returned >>

\* The call is over.
End(s, outcome) ==
  /\ place' = [place EXCEPT ![s] = outcome]
  /\ UNCHANGED << attempt, backoff, delays >>

Report(s, succeeded) ==
  log' = [log EXCEPT ![s] = Append(@, [attempts |-> attempt[s], succeeded |-> succeeded])]

Return(s) == Invoke(s, "value") /\ End(s, "value") /\ Report(s, TRUE)

\* Mutant: the first failure is reported as the first attempt's.
ExhaustedAtOnce(s) ==
  /\ \E a \in {"retryable", "permanent"} :
       /\ Invoke(s, a)
       /\ a = "retryable" => attempt[s] = MaxAttempts
  /\ End(s, "exhausted")
  /\ log' = [log EXCEPT ![s] = Append(@, [attempts |-> 1, succeeded |-> FALSE])]

\* ToolCallExhausted: an error that cannot be retried, or the last attempt's.
Exhausted(s) ==
  /\ \E a \in {"retryable", "permanent"} :
       /\ Invoke(s, a)
       /\ a = "retryable" => attempt[s] = MaxAttempts
  /\ End(s, "exhausted")
  /\ Report(s, FALSE)

\* An exception that is no ToolError leaves call_tool as it is, and no record.
Escape(s) == Invoke(s, "error") /\ End(s, "error") /\ UNCHANGED log

\* Mutant: every ToolError is retried.
RetryAny(s) ==
  /\ \E a \in {"retryable", "permanent"} : Invoke(s, a)
  /\ attempt[s] < MaxAttempts
  /\ place' = [place EXCEPT ![s] = "sleeping"]
  /\ UNCHANGED << attempt, backoff, delays, log >>

\* Mutant: the attempts are not counted against the bound.
RetryUnbounded(s) ==
  /\ Invoke(s, "retryable")
  /\ place' = [place EXCEPT ![s] = "sleeping"]
  /\ UNCHANGED << attempt, backoff, delays, log >>

\* A retryable error with attempts left: sleep.
Retry(s) ==
  /\ Invoke(s, "retryable")
  /\ attempt[s] < MaxAttempts
  /\ place' = [place EXCEPT ![s] = "sleeping"]
  /\ UNCHANGED << attempt, backoff, delays, log >>

\* Mutant: the delay does not grow.
WakeLinear(s) ==
  /\ place[s] = "sleeping"
  /\ place' = [place EXCEPT ![s] = "calling"]
  /\ delays' = [delays EXCEPT ![s] = Append(@, backoff[s])]
  /\ attempt' = [attempt EXCEPT ![s] = @ + 1]
  /\ UNCHANGED << answers, backoff, log, results, returned >>

\* The delay is over; the next attempt begins and the next delay is longer.
Wake(s) ==
  /\ place[s] = "sleeping"
  /\ place' = [place EXCEPT ![s] = "calling"]
  /\ delays' = [delays EXCEPT ![s] = Append(@, backoff[s])]
  /\ backoff' = [backoff EXCEPT ![s] = @ * Multiplier]
  /\ attempt' = [attempt EXCEPT ![s] = @ + 1]
  /\ UNCHANGED << answers, log, results, returned >>

\* Mutant: a future that raised is lost.
CollectValues(s) ==
  /\ place[s] = "value"
  /\ s \notin results
  /\ results' = results \cup {s}
  /\ UNCHANGED << place, attempt, answers, backoff, delays, log, returned >>

\* as_completed: the outcome, value or exception, goes into its own slot.
Collect(s) ==
  /\ place[s] \in Outcomes
  /\ s \notin results
  /\ results' = results \cup {s}
  /\ UNCHANGED << place, attempt, answers, backoff, delays, log, returned >>

\* Mutant: the first exception is raised out of the loop over the results.
PullReturnsEarly ==
  /\ ~returned
  /\ results = Sources \/ \E s \in results : place[s] # "value"
  /\ returned' = TRUE
  /\ UNCHANGED << place, attempt, answers, backoff, delays, log, results >>

\* Every future is collected and the pool is shut down.
PullReturns ==
  /\ ~returned
  /\ results = Sources
  /\ returned' = TRUE
  /\ UNCHANGED << place, attempt, answers, backoff, delays, log, results >>

----------------------------------------------------------------------------
Call(s) == Return(s) \/ Exhausted(s) \/ Escape(s) \/ Retry(s)

Step(s) == Start(s) \/ Call(s) \/ Wake(s) \/ Collect(s)

Next == PullReturns \/ \E s \in Sources : Step(s)

Spec == Init /\ [][Next]_vars

\* Threads go on, and a tool that is called answers in the end: adapters are
\* expected to raise ToolTimeout by themselves.
FairSpec == Spec /\ WF_vars(PullReturns) /\ \A s \in Sources : WF_vars(Step(s))

----------------------------------------------------------------------------
(* A tool is called again only when its last answer may be retried, and never *)
(* more often than allowed; the call gives up on a retryable error only when  *)
(* the attempts are used up (spec 05 G5, G7; spec 06 G7).                     *)
RetriesAreBounded ==
  \A s \in Sources :
    /\ Len(answers[s]) <= MaxAttempts
    /\ \A i \in 1 .. Len(answers[s]) - 1 : answers[s][i] = "retryable"
    /\ place[s] = "exhausted" =>
         answers[s][Len(answers[s])] = "permanent" \/ Len(answers[s]) = MaxAttempts

(* The log has one record of every call that returned or was exhausted, with *)
(* the number of times that the tool was really called (spec 11: the audit   *)
(* log tells what happened on one logical tool call).                        *)
LogTellsTheCall ==
  \A s \in Sources :
    log[s] = IF place[s] \in {"value", "exhausted"}
             THEN << [attempts |-> Len(answers[s]), succeeded |-> place[s] = "value"] >>
             ELSE << >>

(* Between two attempts there is one delay, each longer than the one before  *)
(* by the factor, and nobody sleeps after the last attempt, whether it        *)
(* succeeded or not (tool_wrapper.py:102-106).                               *)
DelaysAreExponential ==
  \A s \in Sources :
    /\ Len(delays[s]) = IF place[s] \in {"queued", "calling"}
                        THEN Len(answers[s]) ELSE Len(answers[s]) - 1
    /\ delays[s] # << >> => delays[s][1] = InitialBackoff
    /\ \A i \in 1 .. Len(delays[s]) - 1 : delays[s][i + 1] = delays[s][i] * Multiplier

(* The batch is a parallel pull: outcomes are final, independent of each      *)
(* other, and all there when it returns (spec 10 s1, graph_runtime.py:        *)
(* 103-122).                                                                  *)
Pull == INSTANCE ParallelPull WITH
          Sources  <- Sources,
          Outcomes <- Outcomes,
          outcome  <- [s \in Sources |-> IF place[s] \in Outcomes THEN place[s]
                                                                  ELSE "pending"],
          returned <- returned

ImplementsPull == Pull!Spec

(* However many sources fail, the pull comes back (spec 05 G7: no unbounded  *)
(* retry loops).                                                             *)
PullComesBack == <>returned
=============================================================================
