------------------------------- MODULE Replays -------------------------------
(* Where the model-checked instances start: the cases that sequences of calls, *)
(* made one after the other, leave of a case that Agent 1 created.             *)
EXTENDS CaseOps, SequencesExt

After(calls) ==
  FoldLeft(LAMBDA s, k : [row   |-> Result(s.row, k),
                          trail |-> Append(s.trail, Entry(s.row, k)),
                          ok    |-> s.ok /\ Allowed(s.row, k)],
           [row   |-> NewCase("DETECTED"),
            trail |-> << [step |-> "create", from |-> "none", to |-> "DETECTED"] >>,
            ok    |-> TRUE],
           calls)

StartOf(calls) == [row |-> After(calls).row, trail |-> After(calls).trail]

ToDrafted ==
  << Move("PRICES_PULLED", FALSE), Move("TERM_SHEET_RESOLVED", FALSE),
     Move("COMMS_DRAFTED", FALSE) >>

ToGate1 ==
  ToDrafted \o << Update("agent"), Open("PRE_SEND_REVIEW", "PENDING_ANALYST_APPROVAL") >>

Reassign1 ==
  << Close("PRE_SEND_REVIEW", "reassigned", "none", "none"),
     Open("PRE_SEND_REVIEW", "none") >>

\* As long as ToGate2Again and ToGate2Reassigned.
ToGate1Reassigned ==
  ToGate1 \o Reassign1 \o Reassign1 \o Reassign1 \o Reassign1 \o << Update("edited") >>

ToAwaiting ==
  ToGate1 \o << Close("PRE_SEND_REVIEW", "approved", "none", "none"),
                Move("SENT", TRUE), Move("AWAITING_RESPONSE", FALSE) >>

ToGate2 == ToAwaiting \o << Move("ESCALATED", FALSE), Open("DISPUTE_ESCALATION", "none") >>

ToClarification ==
  ToGate2 \o << Close("DISPUTE_ESCALATION", "approved", "AWAITING_CLARIFICATION", "none"),
                Update("keep") >>

ToGate2Again ==
  ToClarification \o << Move("ESCALATED", FALSE), Open("DISPUTE_ESCALATION", "none") >>

Reassign2 ==
  << Close("DISPUTE_ESCALATION", "reassigned", "none", "none"),
     Open("DISPUTE_ESCALATION", "none") >>

\* As long as ToGate2Again, with the clarification loop not used yet.
ToGate2Reassigned == ToGate2 \o Reassign2 \o Reassign2

ToAgreed(message) ==
  ToAwaiting \o << Record(message), Move("RESPONSE_RECEIVED", FALSE),
                   Move("AGREED", FALSE) >>

ToResolved(resolution) ==
  Append(ToGate2, Close("DISPUTE_ESCALATION", "approved", "RESOLVED", resolution))

ASSUME ReplaysAreAllowed ==
  /\ \A calls \in {ToGate1Reassigned, ToGate2Again, ToGate2Reassigned,
                   ToResolved("legal")} : After(calls).ok
  /\ \A message \in Messages : After(ToAgreed(message)).ok
=============================================================================
