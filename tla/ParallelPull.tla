---------------------------- MODULE ParallelPull ----------------------------
(***************************************************************************)
(* What a caller of parallel_call_tools may rely on (graph_runtime.py, spec *)
(* 10 s1): every call settles once and for all, by itself, whatever happens *)
(* to the others, and the pull comes back when the last one has settled.    *)
(* Attempts, back-off, worker threads and logging are not visible here;     *)
(* ToolCalls shows that what the code does looks like this.                 *)
(***************************************************************************)
CONSTANTS
  Sources,    \* the keys of the calls, one per tool
  Outcomes    \* how a call can settle

VARIABLES
  outcome,    \* per source: "pending", or how its call settled
  returned    \* the caller has its results

pullVars == << outcome, returned >>

Init ==
  /\ outcome = [s \in Sources |-> "pending"]
  /\ returned = FALSE

Settle(s, o) ==
  /\ outcome[s] = "pending"
  /\ outcome' = [outcome EXCEPT ![s] = o]
  /\ UNCHANGED returned

Return ==
  /\ ~returned
  /\ \A s \in Sources : outcome[s] # "pending"
  /\ returned' = TRUE
  /\ UNCHANGED outcome

Next == Return \/ \E s \in Sources, o \in Outcomes : Settle(s, o)

Spec == Init /\ [][Next]_pullVars
=============================================================================
