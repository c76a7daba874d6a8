----------------------------- MODULE Agreement ------------------------------
(***************************************************************************)
(* Workflow with the classifier and the auto-close check that the code     *)
(* really has (AutoClose) in the place of a judge that may answer anything.*)
(* What the replies say and what is known of the trade is fixed from the   *)
(* start; any tool may be down at any evaluation.                          *)
(***************************************************************************)
EXTENDS Workflow, AutoClose

CONSTANTS
  Inboxes,     \* what the replies may say
  Deals        \* what the trade may be

ASSUME AgreementAssumption ==
  /\ Inboxes \subseteq [Replies -> Mail]
  /\ Deals \subseteq Deal
  /\ \A c \in StartRows : c.resolution \notin Replies

VARIABLES
  inbox,       \* external: the mails by message id
  deal         \* the facts of the trade

agreementVars == << vars, inbox, deal >>

AgreementInit == Init /\ inbox \in Inboxes /\ deal \in Deals

\* The places of the replies on the thread.
Inbound(thread) == {i \in DOMAIN thread : thread[i] \in Replies}

\* Mutant: the first reply is looked at instead of the newest.
OldestAnswer(thread) ==
  IF Inbound(thread) = {} THEN NoValue
  ELSE Classify(inbox[thread[CHOOSE i \in Inbound(thread) :
                               \A j \in Inbound(thread) : i <= j]])

\* _latest_inbound_payload.
NewestAnswer(thread) ==
  IF Inbound(thread) = {} THEN NoValue
  ELSE Classify(inbox[thread[CHOOSE i \in Inbound(thread) :
                               \A j \in Inbound(thread) : j <= i]])

\* What is answered about the stored case.
Judge ==
  [intents  |-> [m \in Replies |-> {Classify(inbox[m]).intent}],
   eligible |-> {Eligible(deal, NewestAnswer(row.thread), down) : down \in SUBSET Tools},
   priced   |-> {m \in Replies : inbox[m].price # NoValue}]

JudgedStep(p) == EngineStep(p) \/ GateStep(p) \/ AgentStep(p, Judge)

AgreementNext ==
  /\ \E p \in Procs : HumanAction(p) \/ AgentCall(p) \/ JudgedStep(p) \/ BreakOff(p)
  /\ UNCHANGED << inbox, deal >>

AgreementSpec == AgreementInit /\ [][AgreementNext]_agreementVars

----------------------------------------------------------------------------
(* A case that no human resolved was resolved at the price of a reply that   *)
(* meets every criterion of spec 06 (lines 32-40), whatever other replies    *)
(* there are on the thread and whichever tools were down (auto_close.py,     *)
(* agent2/graph.py:440-481).                                                 *)
AgreedWasJudged == row.resolution \in Replies => MayCloseUnattended(deal, inbox[row.resolution])

(* A mail that the parser suspects of an injection never closes a case       *)
(* without a human (intent.py:77-83, spec 06 G5).                            *)
SuspectMailClosesNothing == row.resolution \in Replies => ~inbox[row.resolution].injection

=============================================================================
