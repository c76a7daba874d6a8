------------------------------- MODULE MCTimed -------------------------------
(* TimedWorkflow on small instances. *)
EXTENDS TimedWorkflow, Replays, TLC

CONSTANTS p1, p2, m1, r1

AwaitingStart == {StartOf(ToAwaiting).row}

Symmetry == Permutations(Procs)
=============================================================================
