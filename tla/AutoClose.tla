------------------------------ MODULE AutoClose ------------------------------
(***************************************************************************)
(* agent2/intent.py and agent2/auto_close.py: what the classifier makes of *)
(* a reply, and whether the case it is about may be closed without a       *)
(* human.  Pure operators.  Confidences are in thousandths, prices and the *)
(* notional are integers, tolerances are in basis points.                  *)
(***************************************************************************)
EXTENDS Integers

CONSTANTS
  NoValue,                \* None
  MinIntentConfidence,    \* settings.intent.min_intent_confidence
  MinAgreeConfidence,     \* settings.auto_close.min_agree_confidence
  PriceMatchTolerance,    \* settings.auto_close.price_match_tolerance_bps
  MaxAutoCloseNotional,   \* settings.auto_close.max_auto_close_notional
  AutoCloseEnabled        \* settings.auto_close.enabled

ASSUME AutoCloseAssumption ==
  /\ NoValue \notin Int
  /\ MinIntentConfidence \in 0 .. 1000 /\ MinAgreeConfidence \in 0 .. 1000
  /\ PriceMatchTolerance \in Nat /\ MaxAutoCloseNotional \in Nat
  /\ AutoCloseEnabled \in BOOLEAN

Maybe(S) == S \cup {NoValue}

\* ParsedEmail of a reply.  `position` is the group of terms that its
\* quoted_barrier_status is in, the confidences are the parser's.
Mail ==
  [position : {"agree", "dispute", "other"}, positionConfidence : Maybe(Int),
   price : Maybe(Int), priceConfidence : Maybe(Int), injection : BOOLEAN]

\* What is known of the trade: Case.internal_price and external_prices, the sources
\* that the fixing source clause names, and what the pricing system and the flag
\* service answer when they do.
Sources == {"bloomberg", "reuters", "six"}
Tools == {"pricing_system_api", "counterparty_flag_service"}

Deal ==
  [internal : Maybe(Int), references : [Sources -> Maybe(Int)], cited : SUBSET Sources,
   notional : Nat, flagged : BOOLEAN]

----------------------------------------------------------------------------
(* IntentClassifier *)

DefaultConfidence == 500

Reported(confidence) == IF confidence = NoValue THEN DefaultConfidence ELSE confidence

\* _raw_classify.
RawIntent(mail) ==
  CASE mail.position = "agree"   -> "AGREE"
    [] mail.position = "dispute" -> "DISPUTE"
    [] OTHER                     -> "PARTIAL"

RawConfidence(mail) ==
  CASE mail.position # "other" -> Reported(mail.positionConfidence)
    [] mail.position = "other" /\ mail.price # NoValue -> Reported(mail.priceConfidence) \div 2
    [] OTHER -> 0

Clamped(confidence) ==
  IF confidence < 0 THEN 0 ELSE IF confidence > 1000 THEN 1000 ELSE confidence

\* A mail that looks like an injection counts half.
Confidence(mail) ==
  Clamped(IF mail.injection THEN RawConfidence(mail) \div 2 ELSE RawConfidence(mail))

\* Mutant: suspected injections are not held against an agreement.
ClassifyTrusting(mail) ==
  [intent     |-> IF RawIntent(mail) = "AGREE" /\ RawConfidence(mail) < MinIntentConfidence
                  THEN "PARTIAL" ELSE RawIntent(mail),
   confidence |-> Clamped(RawConfidence(mail)), price |-> mail.price]

\* classify: an agreement that is not certain enough is read as PARTIAL.  What it
\* returns is stored as the structured_payload of the message.
Classify(mail) ==
  [intent     |-> IF RawIntent(mail) = "AGREE" /\ Confidence(mail) < MinIntentConfidence
                  THEN "PARTIAL" ELSE RawIntent(mail),
   confidence |-> Confidence(mail),
   price      |-> mail.price]

----------------------------------------------------------------------------
(* AutoCloseCheck; `answer` is the payload of the newest inbound message, NoValue if
   there is none, and `down` are the tools for which call_tool raises. *)

Distance(a, b) == IF a < b THEN b - a ELSE a - b

\* abs(stated - internal) / internal * 10_000 <= tolerance_bps: the divisor is signed.
WithinTolerance(stated, internal) ==
  CASE internal = 0 -> stated = 0
    [] internal > 0 -> Distance(stated, internal) * 10000 <= PriceMatchTolerance * internal
    [] OTHER        -> Distance(stated, internal) * 10000 >= PriceMatchTolerance * internal

\* _cited_source: the first of the enum that the clause names.
CitedSource(deal) ==
  CASE "bloomberg" \in deal.cited -> "bloomberg"
    [] "bloomberg" \notin deal.cited /\ "reuters" \in deal.cited -> "reuters"
    [] deal.cited = {"six"} -> "six"
    [] OTHER -> NoValue

MatchesCitedSource(deal, price) ==
  CitedSource(deal) # NoValue /\ deal.references[CitedSource(deal)] = price

IntentCriterion(answer) ==
  answer # NoValue /\ answer.intent = "AGREE" /\ answer.confidence >= MinAgreeConfidence

PriceCriterion(deal, answer) ==
  /\ answer # NoValue /\ answer.price # NoValue /\ deal.internal # NoValue
  /\ WithinTolerance(answer.price, deal.internal) \/ MatchesCitedSource(deal, answer.price)

NotionalCriterion(deal, down) ==
  "pricing_system_api" \notin down /\ deal.notional < MaxAutoCloseNotional

FlagCriterion(deal, down) ==
  "counterparty_flag_service" \notin down /\ ~deal.flagged

\* Orchestrator.evaluate_auto_close of the check.
Eligible(deal, answer, down) ==
  /\ AutoCloseEnabled
  /\ IntentCriterion(answer) /\ PriceCriterion(deal, answer)
  /\ NotionalCriterion(deal, down) /\ FlagCriterion(deal, down)

----------------------------------------------------------------------------
(* The reference: spec 06, "must ALL hold for Agent 2 to close without human *)
(* sign-off", of the reply that was agreed to.                               *)

PriceAgrees(deal, price) ==
  \/ 10000 * (price - deal.internal) <= PriceMatchTolerance * deal.internal
     /\ 10000 * (deal.internal - price) <= PriceMatchTolerance * deal.internal
  \/ \E source \in deal.cited : deal.references[source] = price

MayCloseUnattended(deal, mail) ==
  /\ AutoCloseEnabled
  /\ mail.position = "agree" /\ Reported(mail.positionConfidence) >= MinAgreeConfidence
  /\ mail.price # NoValue /\ PriceAgrees(deal, mail.price)
  /\ deal.notional < MaxAutoCloseNotional /\ ~deal.flagged
=============================================================================
