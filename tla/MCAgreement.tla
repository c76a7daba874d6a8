---------------------------- MODULE MCAgreement -----------------------------
(* Agreement on small instances. *)
EXTENDS Agreement, Replays, TLC

CONSTANTS p1, p2, m1, m2, r1

AwaitingStart == {StartOf(ToAwaiting).row}

\* The internal price is 10000 and the source named by the clause says 10050: 10001
\* is within one basis point, 10002 is not.
Says(position, confidence, price, injection) ==
  [position |-> position, positionConfidence |-> confidence, price |-> price,
   priceConfidence |-> NoValue, injection |-> injection]

Agreements ==
  {Says("agree", confidence, price, FALSE) :
     confidence \in {920, 960}, price \in {NoValue, 10001, 10002, 10050}}
    \cup {Says("agree", NoValue, 10001, FALSE), Says("agree", 960, 10001, TRUE)}

OtherMails == {Says(position, 960, 10001, FALSE) : position \in {"dispute", "other"}}

Trade(cited, notional, flagged) ==
  [internal |-> 10000,
   references |-> [s \in Sources |-> IF s = "reuters" THEN 10050 ELSE NoValue],
   cited |-> cited, notional |-> notional, flagged |-> flagged]

AnyInbox ==
  {[m \in Replies |-> IF m = m1 THEN first ELSE second] :
     first \in Agreements \cup OtherMails,
     second \in {Says("agree", 960, 10001, FALSE), Says("agree", 960, 10050, FALSE)}}

AnyDeal ==
  {Trade({"reuters"}, 4999999, FALSE), Trade({"bloomberg", "reuters"}, 4999999, FALSE),
   Trade({"six"}, 4999999, TRUE), Trade({}, 5000000, FALSE)}

\* Two agreements, the first at a wrong price.
TwoPrices ==
  {[m \in Replies |-> Says("agree", 960, IF m = m1 THEN 10002 ELSE 10001, FALSE)]}
PlainDeal == {Trade({"six"}, 4999999, FALSE)}
=============================================================================
