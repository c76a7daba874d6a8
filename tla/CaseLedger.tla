----------------------------- MODULE CaseLedger -----------------------------
(***************************************************************************)
(* What the store and the engine promise together (spec 06 G6, spec 10 s6, *)
(* spec 11): a case is one current row and an append-only audit trail, and *)
(* the only thing that ever happens to them is that one engine operation,  *)
(* allowed by the row as it stands, replaces the row and appends its one   *)
(* audit entry, in a single indivisible step.  No transaction, no copy of  *)
(* the case in anyone's memory and no crash is visible here; Engine shows  *)
(* that what the code does under all of those looks like this.             *)
(*                                                                         *)
(* What the operations are is a parameter: CaseOps has their definitions.  *)
(***************************************************************************)
EXTENDS Sequences

CONSTANTS
  Calls,            \* the operations with their arguments
  Allowed(_, _),    \* Allowed(row, call)
  Result(_, _),     \* the row that the call leaves
  Entry(_, _),      \* the audit entry that it appends
  StartStates       \* the [row, trail] a case may have when the story begins

VARIABLES
  row,     \* the current row
  trail    \* its audit entries, in order

ledgerVars == << row, trail >>

Init == \E s \in StartStates : row = s.row /\ trail = s.trail

Operate(k) ==
  /\ Allowed(row, k)
  /\ row' = Result(row, k)
  /\ trail' = Append(trail, Entry(row, k))

Next == \E k \in Calls : Operate(k)

Spec == Init /\ [][Next]_ledgerVars
=============================================================================
