----------------------------- MODULE MCWorkflow -----------------------------
(* Workflow on small instances. *)
EXTENDS Workflow, Replays, TLC

CONSTANTS p1, p2, m1, m2, r1

DraftedStart == {StartOf(ToDrafted).row}
AwaitingStart == {StartOf(ToAwaiting).row}

\* Both, the draft after three updates of fields that the model does not keep: with
\* MaxVersion = 12 the draft has five versions left and the waiting case three.
FrontStart ==
  {StartOf(ToDrafted \o << Update("keep"), Update("keep"), Update("keep") >>).row}
    \cup AwaitingStart
Gate2Start == {StartOf(ToGate2Reassigned).row}

Symmetry == Permutations(Procs)
=============================================================================
