--------------------------- MODULE AutoCloseProofs ---------------------------
(***************************************************************************)
(* What the classifier and the auto-close check answer, for every mail,    *)
(* every trade and every setting.                                          *)
(***************************************************************************)
EXTENDS AutoClose, TLAPS

(* The confidence that is compared lies between 0 and 1 whatever the parser  *)
(* reported, and an agreement that passes is at least as certain as the      *)
(* floor (intent.py:85-97, spec 06 G3).                                      *)
THEOREM AgreementIsCertain ==
  ASSUME NEW mail \in Mail
  PROVE  /\ Classify(mail).confidence \in 0 .. 1000
         /\ Classify(mail).intent = "AGREE" =>
              mail.position = "agree" /\ Classify(mail).confidence >= MinIntentConfidence
<1>1. /\ mail.positionConfidence \in Maybe(Int) /\ mail.priceConfidence \in Maybe(Int)
      /\ mail.injection \in BOOLEAN
  BY DEF Mail
<1>2. Reported(mail.positionConfidence) \in Int /\ Reported(mail.priceConfidence) \in Int
  BY <1>1 DEF Maybe, Reported, DefaultConfidence
<1>3. RawConfidence(mail) \in Int
  <2>1. Reported(mail.priceConfidence) \div 2 \in Int
    BY <1>2
  <2>2. QED BY <2>1, <1>2 DEF RawConfidence
<1>4. RawConfidence(mail) \div 2 \in Int
  BY <1>3
<1>5. Confidence(mail) \in 0 .. 1000
  <2> DEFINE c == IF mail.injection THEN RawConfidence(mail) \div 2 ELSE RawConfidence(mail)
  <2>1. c \in Int
    BY <1>3, <1>4
  <2>2. Confidence(mail) = Clamped(c)
    BY DEF Confidence
  <2> HIDE DEF c
  <2>3. Clamped(c) \in 0 .. 1000
    BY <2>1 DEF Clamped
  <2>4. QED BY <2>2, <2>3
<1>6. MinIntentConfidence \in Int
  BY AutoCloseAssumption
<1>7. Classify(mail).intent = "AGREE" =>
        RawIntent(mail) = "AGREE" /\ ~(Confidence(mail) < MinIntentConfidence)
  BY DEF Classify
<1>8. RawIntent(mail) = "AGREE" => mail.position = "agree"
  BY DEF RawIntent
<1>9. Classify(mail).confidence = Confidence(mail)
  BY DEF Classify
<1>10. QED BY <1>5, <1>6, <1>7, <1>8, <1>9

(* With a floor above one half, no mail that is suspected of an injection    *)
(* counts as an agreement when the parser's confidence is at most 1          *)
(* (intent.py:77-97).                                                        *)
THEOREM SuspectMailNeverAgrees ==
  ASSUME NEW mail \in Mail, mail.injection, MinIntentConfidence > 500,
         mail.positionConfidence = NoValue \/ mail.positionConfidence <= 1000
  PROVE  Classify(mail).intent # "AGREE"
<1>1. SUFFICES ASSUME Classify(mail).intent = "AGREE" PROVE FALSE
  OBVIOUS
<1>2. mail.position = "agree" /\ Classify(mail).confidence >= MinIntentConfidence
  BY <1>1, AgreementIsCertain
<1>3. Reported(mail.positionConfidence) \in Int /\ Reported(mail.positionConfidence) <= 1000
  BY DEF Mail, Maybe, Reported, DefaultConfidence
<1>4. RawConfidence(mail) = Reported(mail.positionConfidence)
  BY <1>2 DEF RawConfidence
<1>5. RawConfidence(mail) \in Int /\ RawConfidence(mail) \div 2 <= 500
  BY <1>3, <1>4
<1>6. Confidence(mail) <= 500
  BY <1>5 DEF Confidence, Clamped
<1>7. Confidence(mail) >= MinIntentConfidence
  BY <1>2 DEF Classify
<1>8. Confidence(mail) \in Int /\ MinIntentConfidence \in Int
  BY <1>5, AutoCloseAssumption DEF Confidence, Clamped
<1>9. QED BY <1>6, <1>7, <1>8

(* A suspected injection cannot raise the confidence of a reading.           *)
LEMMA NeverMoreCertainThanParser ==
  ASSUME NEW mail \in Mail, mail.position = "agree", Confidence(mail) > 0
  PROVE  Confidence(mail) <= Reported(mail.positionConfidence)
<1>1. Reported(mail.positionConfidence) \in Int
  BY DEF Mail, Maybe, Reported, DefaultConfidence
<1>2. RawConfidence(mail) = Reported(mail.positionConfidence)
  BY DEF RawConfidence
<1>3. QED BY <1>1, <1>2 DEF Confidence, Clamped

(* When the internal price is positive, a case is eligible only on a reply   *)
(* that meets all four criteria of spec 06, whichever tools are down         *)
(* (auto_close.py:145-272).                                                  *)
THEOREM EligibleMeetsCriteria ==
  ASSUME NEW mail \in Mail, NEW trade \in Deal, NEW down \in SUBSET Tools,
         trade.internal # NoValue => trade.internal > 0,
         MinAgreeConfidence > 0,
         Eligible(trade, Classify(mail), down)
  PROVE  MayCloseUnattended(trade, mail)
<1>1. /\ AutoCloseEnabled
      /\ IntentCriterion(Classify(mail))
      /\ PriceCriterion(trade, Classify(mail))
      /\ NotionalCriterion(trade, down)
      /\ FlagCriterion(trade, down)
  BY DEF Eligible
<1>2. Classify(mail).intent = "AGREE" /\ Confidence(mail) >= MinAgreeConfidence
  BY <1>1 DEF IntentCriterion, Classify
<1>3. mail.position = "agree"
  BY <1>2, AgreementIsCertain
<1>4. Reported(mail.positionConfidence) >= MinAgreeConfidence
  <2>0. Classify(mail).confidence = Confidence(mail)
    BY DEF Classify
  <2>1. Classify(mail).confidence \in 0 .. 1000 /\ MinAgreeConfidence \in 0 .. 1000
    BY AgreementIsCertain, AutoCloseAssumption
  <2>2. Reported(mail.positionConfidence) \in Int
    BY DEF Mail, Maybe, Reported, DefaultConfidence
  <2>3. Confidence(mail) <= Reported(mail.positionConfidence)
    BY <1>2, <1>3, <2>0, <2>1, NeverMoreCertainThanParser
  <2>4. Confidence(mail) \in Int /\ Confidence(mail) >= MinAgreeConfidence /\ MinAgreeConfidence \in Int
    <3>1. \A c \in 0 .. 1000 : c \in Int
      OBVIOUS
    <3>2. QED BY <1>2, <2>0, <2>1, <3>1
  <2> DEFINE c == Confidence(mail)
             r == Reported(mail.positionConfidence)
  <2> HIDE DEF c, r
  <2>5. c \in Int /\ r \in Int /\ c <= r /\ c >= MinAgreeConfidence /\ MinAgreeConfidence \in Int
    BY <2>2, <2>3, <2>4 DEF c, r
  <2>6. r >= MinAgreeConfidence
    BY <2>5
  <2>7. QED BY <2>6 DEF r
<1>5. mail.price # NoValue /\ PriceAgrees(trade, mail.price)
  <2>1. Classify(mail).price = mail.price
    BY DEF Classify
  <2>2. mail.price # NoValue /\ trade.internal # NoValue
    BY <1>1, <2>1 DEF PriceCriterion
  <2>3. mail.price \in Int /\ trade.internal \in Int /\ trade.internal > 0
    BY <2>2 DEF Mail, Deal, Maybe
  <2>4. CASE WithinTolerance(mail.price, trade.internal)
    <3>1. Distance(mail.price, trade.internal) * 10000
            <= PriceMatchTolerance * trade.internal
      BY <2>3, <2>4 DEF WithinTolerance
    <3>2. PriceMatchTolerance * trade.internal \in Int
      BY <2>3, AutoCloseAssumption
    <3>3. /\ 10000 * (mail.price - trade.internal) <= PriceMatchTolerance * trade.internal
          /\ 10000 * (trade.internal - mail.price) <= PriceMatchTolerance * trade.internal
      BY <2>3, <3>1, <3>2 DEF Distance
    <3>4. QED BY <2>2, <3>3 DEF PriceAgrees
  <2>5. CASE MatchesCitedSource(trade, mail.price)
    <3>1. trade.cited \in SUBSET Sources
      BY DEF Deal
    <3>2. CitedSource(trade) # NoValue
      BY <2>5 DEF MatchesCitedSource
    <3>3. CitedSource(trade) \in trade.cited
      BY <3>1, <3>2 DEF CitedSource
    <3>4. QED BY <2>2, <2>5, <3>3 DEF PriceAgrees, MatchesCitedSource
  <2>6. QED BY <1>1, <2>1, <2>4, <2>5 DEF PriceCriterion
<1>6. trade.notional < MaxAutoCloseNotional /\ ~trade.flagged
  BY <1>1 DEF NotionalCriterion, FlagCriterion
<1>7. QED BY <1>1, <1>3, <1>4, <1>5, <1>6 DEF MayCloseUnattended
=============================================================================
