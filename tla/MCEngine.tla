------------------------------ MODULE MCEngine ------------------------------
(* Engine on small instances. *)
EXTENDS Engine, Replays, TLC

CONSTANTS p1, p2, m1

\* Gate 1 and gate 2 with the clarification loop used up, of version 15, and gate 2
\* with the loop not used yet, of version 16.
GateStart ==
  {StartOf(ToGate1Reassigned), StartOf(ToGate2Again),
   StartOf(Append(ToGate2Reassigned, Update("keep")))}

AgreedStart == {StartOf(ToAgreed(m1))}

Symmetry == Permutations(Procs)
=============================================================================
