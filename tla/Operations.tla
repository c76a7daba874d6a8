----------------------------- MODULE Operations -----------------------------
(***************************************************************************)
(* What a handler may rely on when it calls the engine: the steps that     *)
(* Runtime gives an engine operation, made by processes that read the case *)
(* and call one operation after another on the copy they hold.  A whole    *)
(* transaction is one step here, which writes the case exactly when the    *)
(* copy passes the checks and is current; the timers are cancelled before  *)
(* it and armed after it, as steps of their own.                           *)
(*                                                                         *)
(* Engine is shown to implement this, so that the specifications built on  *)
(* Runtime leave out nothing of what happens inside a transaction.         *)
(***************************************************************************)
EXTENDS Runtime

CONSTANT StartRows    \* the cases the story may begin with

Init ==
  /\ row \in StartRows
  /\ timers = {}
  /\ snap = [p \in Procs |-> row]
  /\ prog = [p \in Procs |-> << >>]

Read(p) ==
  /\ Idle(p)
  /\ snap' = [snap EXCEPT ![p] = row]
  /\ UNCHANGED << row, timers, sent, booked, prog, failures >>

CallOperation(p) ==
  /\ Idle(p)
  /\ UNCHANGED << row, timers, sent, booked, snap, failures >>
  /\ \E k \in Calls : prog' = [prog EXCEPT ![p] = Operation(k)]

\* The operation raises, or p crashes and starts again from what is stored.
Lose(p) ==
  /\ ~Idle(p)
  /\ Raise(p)
  /\ snap' \in {snap, [snap EXCEPT ![p] = row]}
  /\ UNCHANGED << row, timers, sent, booked, failures >>

Next == \E p \in Procs : Read(p) \/ CallOperation(p) \/ EngineStep(p) \/ Lose(p)

Spec == Init /\ [][Next]_vars
=============================================================================
