---------------------------- MODULE TimedProofs ------------------------------
(***************************************************************************)
(* Proofs about TimedWorkflow: an open gate has its timers, and a wait for *)
(* the counterparty lasts its window, neither more nor less, while no      *)
(* handler crosses another.                                                *)
(***************************************************************************)
EXTENDS TimedWorkflow, WorkflowProofs

----------------------------------------------------------------------------
(* What handlers still have to make *)

Response == {"COUNTERPARTY_RESPONSE"}

Opens(s) == s.do = "write" /\ s.call.op = "openGate"
Keeps(s) == s.do = "write" /\ s.call.op = "update" /\ s.call.draft = "keep"
Decides(s) == s.do = "write" /\ CancelsTimers(s.call)
MovesTo(s, status) == s.do = "write" /\ s.call.op = "transition" /\ s.call.target = status
Clarifies(s) ==
  s.do = "write" /\ s.call.op = "closeGate" /\ s.call.target = "AWAITING_CLARIFICATION"
BeginsWait(s) == MovesTo(s, "AWAITING_RESPONSE") \/ Clarifies(s)
ArmsKinds(s, kinds) == s.do = "arm" /\ s.kinds = kinds
Records(s) == s.do = "write" /\ s.call.op = "record"

\* Steps that are right only directly before, and directly after, another.
NeedsNext(s) == s.do = "cancel" \/ Opens(s) \/ BeginsWait(s) \/ Keeps(s)
FollowsOn(s) == s.do = "arm" \/ Keeps(s) \/ Decides(s)

\* In a handler, s may be followed by t: timers are cancelled directly before the write
\* of the operation and armed directly after it, a window after the loop is kept.
Bound(s, t) ==
  /\ s.do # "mark_fired"
  /\ s.do = "cancel" => Decides(t) /\ t.call = s.call
  /\ Opens(s) => ArmsKinds(t, GateTimers(s.call.gate))
  /\ MovesTo(s, "AWAITING_RESPONSE") \/ Keeps(s) => ArmsKinds(t, Response)
  /\ Clarifies(s) => Keeps(t)
  /\ FollowsOn(t) => NeedsNext(s)

Whole(steps) ==
  /\ \A i \in 1 .. Len(steps) - 1 : Bound(steps[i], steps[i + 1])
  /\ steps # << >> => ~NeedsNext(steps[Len(steps)])

Starts(steps) == steps # << >> => ~FollowsOn(steps[1])

\* A step arms the timers of a gate or the window of a wait.
Windows == {Response} \cup {GateTimers(g) : g \in GateTypes}
ArmsWindow(s) == s.do = "arm" => s.kinds \in Windows

Unmarked == {s \in HandlerSteps : s.do # "mark_fired" /\ ArmsWindow(s)}

\* What a step puts in its place.
Fresh(steps) == steps \in Seq(Unmarked) /\ Whole(steps) /\ Starts(steps)

\* The steps that deal with a reply, those on the way to taking a case out of a wait,
\* and those that come between the receipt of a reply and gate 2.
Answers(s) == s.do \in MessageSteps \cup {"attempt"}
Ahead(s) == s.do \in {"verify_awaiting", "escalate"} \/ MovesTo(s, "ESCALATED")
Owns(s) ==
  \/ s.do \in {"reconcile_agreement", "flag_dispute", "flag_partial", "attempt"}
  \/ MovesTo(s, "ESCALATED")
Receives(s) == MovesTo(s, "RESPONSE_RECEIVED")

\* A handler has at most one such step at a time: the others are quiet.
Token(s) == Answers(s) \/ Ahead(s)
Quiet(s) == ~Token(s) /\ ~Receives(s)

Opener(s) == s.do \in {"open_gate2", "reopen"} \/ OpensGate(s)

Minor == {s \in Unmarked : Quiet(s) /\ ~Opener(s)}

Plain(steps) == steps \in Seq(Minor) /\ Whole(steps) /\ Starts(steps)

----------------------------------------------------------------------------
(* Sequences of steps *)

LEMMA BoundFree ==
  ASSUME NEW s, NEW t, ~NeedsNext(s), s.do # "mark_fired", ~FollowsOn(t)
  PROVE  Bound(s, t)
BY DEF Bound, NeedsNext, BeginsWait

LEMMA WholeEmpty == Whole(<< >>) /\ Starts(<< >>)
BY DEF Whole, Starts

LEMMA WholeStep ==
  ASSUME NEW s, ~NeedsNext(s), ~FollowsOn(s)
  PROVE  Whole(<< s >>) /\ Starts(<< s >>)
BY DEF Whole, Starts

LEMMA WholeJoin ==
  ASSUME NEW a, NEW b, Fresh(a), b \in Seq(HandlerSteps), Whole(b), Starts(b)
  PROVE  /\ a \o b \in Seq(HandlerSteps) /\ Whole(a \o b) /\ Starts(a \o b)
<1> DEFINE c == a \o b
<1>1. /\ a \in Seq(HandlerSteps) /\ b \in Seq(HandlerSteps)
      /\ \A i \in 1 .. Len(a) : a[i].do # "mark_fired"
  BY DEF Fresh, Unmarked
<1>2. /\ c \in Seq(HandlerSteps) /\ Len(c) = Len(a) + Len(b)
      /\ Len(a) \in Nat /\ Len(b) \in Nat
      /\ \A i \in 1 .. Len(a) : c[i] = a[i]
      /\ \A i \in Len(a) + 1 .. Len(a) + Len(b) : c[i] = b[i - Len(a)]
      /\ (a = << >> <=> Len(a) = 0) /\ (b = << >> <=> Len(b) = 0)
  BY <1>1
<1>3. Whole(a) /\ Starts(a)
  BY DEF Fresh
<1> HIDE DEF c
<1>4. ASSUME NEW i \in 1 .. Len(c) - 1
      PROVE  Bound(c[i], c[i + 1])
  <2>1. CASE i < Len(a)
    <3>1. i \in 1 .. Len(a) - 1 /\ i \in 1 .. Len(a) /\ i + 1 \in 1 .. Len(a)
      BY <1>2, <2>1
    <3> QED BY <1>2, <1>3, <3>1 DEF Whole
  <2>2. CASE i = Len(a)
    <3>1. c[i] = a[Len(a)] /\ c[i + 1] = b[1] /\ a # << >> /\ b # << >>
          /\ Len(a) \in 1 .. Len(a)
      BY <1>2, <2>2
    <3> QED BY <1>1, <1>3, <3>1, BoundFree DEF Whole, Starts
  <2>3. CASE i > Len(a)
    <3>1. i - Len(a) \in 1 .. Len(b) - 1 /\ c[i] = b[i - Len(a)]
          /\ c[i + 1] = b[(i - Len(a)) + 1]
      BY <1>2, <2>3
    <3> QED BY <3>1 DEF Whole
  <2> QED BY <1>2, <2>1, <2>2, <2>3
<1>5. c # << >> => ~NeedsNext(c[Len(c)])
  <2>1. CASE b # << >>
    <3>1. c[Len(c)] = b[Len(b)]
      BY <1>2, <2>1
    <3> QED BY <2>1, <3>1 DEF Whole
  <2>2. CASE b = << >> /\ a # << >>
    <3>1. c[Len(c)] = a[Len(a)]
      BY <1>2, <2>2
    <3> QED BY <1>3, <2>2, <3>1 DEF Whole
  <2>3. CASE b = << >> /\ a = << >>
    BY <1>2, <2>3
  <2> QED BY <2>1, <2>2, <2>3
<1>6. c # << >> => ~FollowsOn(c[1])
  <2>1. CASE a # << >>
    BY <1>2, <1>3, <2>1 DEF Starts
  <2>2. CASE a = << >>
    <3>1. c # << >> => b # << >> /\ c[1] = b[1]
      BY <1>2, <2>2
    <3> QED BY <3>1 DEF Starts
  <2> QED BY <2>1, <2>2
<1> QED BY <1>2, <1>4, <1>5, <1>6 DEF Whole, Starts, c

LEMMA FreshJoin ==
  ASSUME NEW a, NEW b, Fresh(a), Fresh(b)
  PROVE  Fresh(a \o b)
<1>1. b \in Seq(HandlerSteps) /\ a \o b \in Seq(Unmarked)
  BY DEF Fresh, Unmarked
<1> QED BY <1>1, WholeJoin DEF Fresh

LEMMA PlainIsFresh ==
  ASSUME NEW a, Plain(a)
  PROVE  Fresh(a)
BY DEF Plain, Fresh, Minor

LEMMA PlainJoin ==
  ASSUME NEW a, NEW b, Plain(a), Plain(b)
  PROVE  Plain(a \o b)
<1>1. Fresh(a \o b)
  BY FreshJoin, PlainIsFresh
<1>2. a \o b \in Seq(Minor)
  BY DEF Plain
<1> QED BY <1>1, <1>2 DEF Plain, Fresh

\* The rest of a handler whose current step is over.
LEMMA WholeTail ==
  ASSUME NEW steps \in Seq(HandlerSteps), steps # << >>, Whole(steps)
  PROVE  /\ Tail(steps) \in Seq(HandlerSteps) /\ Whole(Tail(steps))
         /\ ~NeedsNext(steps[1]) => Starts(Tail(steps))
         /\ NeedsNext(steps[1]) => Tail(steps) # << >>
         /\ Tail(steps) # << >> => Bound(steps[1], Tail(steps)[1])
<1> DEFINE rest == Tail(steps)
           n == Len(steps)
<1>1. /\ rest \in Seq(HandlerSteps) /\ n \in Nat /\ n >= 1 /\ Len(rest) = n - 1
      /\ \A i \in 1 .. n - 1 : rest[i] = steps[i + 1]
      /\ (rest = << >> <=> n = 1)
  <2>1. rest \in Seq(HandlerSteps) /\ n \in Nat /\ n >= 1 /\ Len(rest) = n - 1
    OBVIOUS
  <2>2. \A i \in 1 .. n - 1 : rest[i] = steps[i + 1]
    OBVIOUS
  <2>3. rest = << >> <=> Len(rest) = 0
    <3>1. \A s \in Seq(HandlerSteps) : s = << >> <=> Len(s) = 0
      OBVIOUS
    <3> QED BY <2>1, <3>1
  <2> QED BY <2>1, <2>2, <2>3
<1> HIDE DEF rest, n
<1>2. ASSUME NEW i \in 1 .. Len(rest) - 1
      PROVE  Bound(rest[i], rest[i + 1])
  <2>1. i + 1 \in 1 .. n - 1 /\ rest[i] = steps[i + 1] /\ rest[i + 1] = steps[(i + 1) + 1]
    BY <1>1
  <2> QED BY <2>1 DEF Whole, n
<1>3. rest # << >> => ~NeedsNext(rest[Len(rest)])
  <2>1. rest # << >> => rest[Len(rest)] = steps[n]
    BY <1>1
  <2> QED BY <2>1 DEF Whole, n
<1>4. rest # << >> => Bound(steps[1], rest[1])
  <2>1. rest # << >> => 1 \in 1 .. n - 1 /\ rest[1] = steps[1 + 1]
    BY <1>1
  <2> QED BY <2>1 DEF Whole, n
<1>5. NeedsNext(steps[1]) => rest # << >>
  BY <1>1 DEF Whole, n
<1>6. ~NeedsNext(steps[1]) => Starts(rest)
  BY <1>4 DEF Starts, Bound
<1> QED BY <1>1, <1>2, <1>3, <1>4, <1>5, <1>6 DEF Whole, rest

----------------------------------------------------------------------------
(* The steps of operations *)

LEMMA WholePair ==
  ASSUME NEW s, Len(s) = 2, Bound(s[1], s[2]), ~NeedsNext(s[2])
  PROVE  Whole(s) /\ (~FollowsOn(s[1]) => Starts(s))
<1>1. \A i \in 1 .. Len(s) - 1 : i = 1
  OBVIOUS
<1> QED BY <1>1 DEF Whole, Starts

LEMMA TwoSteps ==
  ASSUME NEW a, NEW b
  PROVE  /\ << a >> \o << b >> \o << >> = << a, b >>
         /\ << >> \o << a >> \o << b >> = << a, b >>
         /\ << a >> \o << b >> = << a, b >>
<1>1. \A s \in Seq({a, b}) : Len(s) = 2 => s = << s[1], s[2] >>
  OBVIOUS
<1>2. \A s \in Seq({a, b}) : s \o << >> = s /\ << >> \o s = s
  OBVIOUS
<1>3. << a, b >> \in Seq({a, b}) /\ << a >> \in Seq({a, b})
  OBVIOUS
<1>4. /\ << a >> \o << b >> \in Seq({a, b}) /\ Len(<< a >> \o << b >>) = 2
      /\ (<< a >> \o << b >>)[1] = a /\ (<< a >> \o << b >>)[2] = b
  OBVIOUS
<1>5. << a >> \o << b >> = << a, b >>
  BY <1>1, <1>4
<1>6. << a >> \o << b >> \o << >> = << a, b >>
  BY <1>2, <1>3, <1>5
<1>7. << >> \o << a >> = << a >>
  BY <1>2, <1>3
<1> QED BY <1>5, <1>6, <1>7

LEMMA ThreeSteps ==
  ASSUME NEW a, NEW b, NEW c
  PROVE  /\ << a, b >> \o << c >> = << a, b, c >>
         /\ << a >> \o << b, c >> = << a, b, c >>
         /\ << a >> \o << b >> \o << c >> = << a, b, c >>
<1>1. \A s \in Seq({a, b, c}) : Len(s) = 3 => s = << s[1], s[2], s[3] >>
  OBVIOUS
<1>2. /\ << a, b >> \o << c >> \in Seq({a, b, c}) /\ Len(<< a, b >> \o << c >>) = 3
      /\ (<< a, b >> \o << c >>)[1] = a /\ (<< a, b >> \o << c >>)[2] = b
      /\ (<< a, b >> \o << c >>)[3] = c
  OBVIOUS
<1>3. /\ << a >> \o << b, c >> \in Seq({a, b, c}) /\ Len(<< a >> \o << b, c >>) = 3
      /\ (<< a >> \o << b, c >>)[1] = a /\ (<< a >> \o << b, c >>)[2] = b
      /\ (<< a >> \o << b, c >>)[3] = c
  OBVIOUS
<1>4. << a, b >> \o << c >> = << a, b, c >>
  BY <1>1, <1>2
<1>5. << a >> \o << b, c >> = << a, b, c >>
  BY <1>1, <1>3
<1>6. << a >> \o << b >> \o << c >> = << a, b, c >>
  BY <1>4, TwoSteps
<1> QED BY <1>4, <1>5, <1>6

\* The writes of an operation are steps of a handler, and timers' kinds are sets.
LEMMA WritesAreSteps ==
  ASSUME NEW k \in HandlerCalls
  PROVE  /\ Write(k) \in Unmarked /\ Write(k).do = "write" /\ Write(k).call = k
         /\ Cancel(k) \in Unmarked /\ Cancel(k).do = "cancel" /\ Cancel(k).call = k
         /\ Arm(GateTimers(k.gate)) \in Unmarked
         /\ ArmsKinds(Arm(GateTimers(k.gate)), GateTimers(k.gate))
<1>1. GateTimers(k.gate) \in SUBSET TimerKinds
  BY DEF GateTimers, TimerKinds, AllGateTimers, GateTypes
<1>2. GateTimers(k.gate) \in Windows
  <2>1. GateTimers(k.gate) \in {GateTimers("PRE_SEND_REVIEW"), GateTimers("DISPUTE_ESCALATION")}
    BY DEF GateTimers
  <2> QED BY <2>1 DEF Windows, GateTypes
<1> QED BY <1>1, <1>2 DEF HandlerSteps, Unmarked, Write, Cancel, Arm, ArmsKinds, ArmsWindow

\* An operation that begins no wait and is not followed by a window.
Ends(k) ==
  /\ ~(k.op = "update" /\ k.draft = "keep")
  /\ k.op = "transition" => k.target # "AWAITING_RESPONSE"
  /\ k.op = "closeGate" => k.target # "AWAITING_CLARIFICATION"

LEMMA FreshOperation ==
  ASSUME NEW k \in HandlerCalls, Ends(k)
  PROVE  /\ Fresh(Operation(k))
         /\ /\ k.op = "transition" => k.target \notin {"ESCALATED", "RESPONSE_RECEIVED"}
            /\ k.op = "openGate" => k.target # "none"
            => Plain(Operation(k))
<1> DEFINE w == Write(k)
           c == Cancel(k)
           a == Arm(GateTimers(k.gate))
<1>1. /\ w \in Unmarked /\ w.do = "write" /\ w.call = k
      /\ c \in Unmarked /\ c.do = "cancel" /\ c.call = k
      /\ a \in Unmarked /\ a.do = "arm" /\ a.kinds = GateTimers(k.gate)
  BY WritesAreSteps DEF ArmsKinds
<1>0. w \in Unmarked /\ c \in Unmarked /\ a \in Unmarked
  BY <1>1
<1>2. /\ k.op = "transition" => k.target \notin {"ESCALATED", "RESPONSE_RECEIVED"}
      /\ k.op = "openGate" => k.target # "none"
      => w \in Minor
  BY <1>1 DEF Minor, Quiet, Token, Answers, Ahead, MessageSteps, Receives, MovesTo, Opener,
              OpensGate
<1>3. c \in Minor /\ a \in Minor
  BY <1>1 DEF Minor, Quiet, Token, Answers, Ahead, MessageSteps, Receives, MovesTo, Opener,
              OpensGate
<1> HIDE DEF w, c, a
<1>4. CASE CancelsTimers(k)
  <2>1. k.op \in {"closeGate", "kill"}
    BY <1>4 DEF CancelsTimers
  <2>2. Len(Operation(k)) = 2 /\ Operation(k)[1] = c /\ Operation(k)[2] = w
        /\ Operation(k) \in Seq(Unmarked) /\ (w \in Minor => Operation(k) \in Seq(Minor))
    <3>1. k.op # "openGate"
      BY <2>1
    <3>2. Operation(k) = << c, w >>
      BY <1>4, <3>1, TwoSteps DEF Operation, c, w
    <3> QED BY <1>0, <1>3, <3>2
  <2>3. Bound(c, w) /\ ~NeedsNext(w) /\ ~FollowsOn(c)
    BY <1>1, <1>4, <2>1 DEF Bound, NeedsNext, FollowsOn, Decides, Opens, BeginsWait, MovesTo,
       Clarifies, Keeps, Ends
  <2>4. Whole(Operation(k)) /\ Starts(Operation(k))
    BY <2>2, <2>3, WholePair
  <2> QED BY <1>2, <2>2, <2>4 DEF Fresh, Plain
<1>5. CASE k.op = "openGate"
  <2>1. Len(Operation(k)) = 2 /\ Operation(k)[1] = w /\ Operation(k)[2] = a
        /\ Operation(k) \in Seq(Unmarked) /\ (w \in Minor => Operation(k) \in Seq(Minor))
    <3>1. ~CancelsTimers(k)
      BY <1>5 DEF CancelsTimers
    <3>2. Operation(k) = << w, a >>
      BY <1>5, <3>1, TwoSteps DEF Operation, w, a
    <3> QED BY <1>0, <1>3, <3>2
  <2>2. Bound(w, a) /\ ~NeedsNext(a) /\ ~FollowsOn(w)
    BY <1>1, <1>5 DEF Bound, NeedsNext, FollowsOn, Decides, Opens, BeginsWait, MovesTo,
       Clarifies, Keeps, ArmsKinds, CancelsTimers
  <2>3. Whole(Operation(k)) /\ Starts(Operation(k))
    BY <2>1, <2>2, WholePair
  <2> QED BY <1>2, <2>1, <2>3 DEF Fresh, Plain
<1>6. CASE ~CancelsTimers(k) /\ k.op # "openGate"
  <2>1. Operation(k) = << w >>
    BY <1>6 DEF Operation, w
  <2>2. ~NeedsNext(w) /\ ~FollowsOn(w)
    BY <1>1, <1>6 DEF NeedsNext, FollowsOn, Decides, Opens, BeginsWait, MovesTo, Clarifies,
       Keeps, Ends
  <2>3. Whole(Operation(k)) /\ Starts(Operation(k))
    BY <2>1, <2>2, WholeStep
  <2>4. Operation(k) \in Seq(Unmarked) /\ (w \in Minor => Operation(k) \in Seq(Minor))
    BY <1>1, <2>1
  <2> QED BY <1>2, <2>3, <2>4 DEF Fresh, Plain
<1> QED BY <1>4, <1>5, <1>6

\* The operations of the handlers, but for those that begin a wait.
LEMMA PlainOperations ==
  /\ \A d \in {"agent", "edited"} : Plain(Operation(Update(d)))
  /\ \A m \in Replies \cup Receipts : Plain(Operation(Record(m)))
  /\ \A t \in {"AGREED", "DISPUTED"} : Plain(Operation(Move(t, FALSE)))
  /\ Plain(Operation(Move("SENT", TRUE)))
  /\ \A g \in GateTypes : Fresh(Operation(Open(g, "none")))
  /\ Plain(Operation(Open("PRE_SEND_REVIEW", "PENDING_ANALYST_APPROVAL")))
  /\ \A g \in GateTypes : Plain(Operation(Close(g, "reassigned", "none", "none")))
  /\ \A v \in {"approved", "rejected"} :
       Plain(Operation(Close("PRE_SEND_REVIEW", v, "none", "none")))
  /\ \A r \in {"settled", "legal"} :
       Plain(Operation(Close("DISPUTE_ESCALATION", "approved", "RESOLVED", r)))
  /\ Plain(Operation(Kill))
  /\ \A o \in {"raiseTask", "resolveTask"} :
       Plain(Operation([op |-> o, kind |-> "BOOKING_WRITE_FAILED"]))
  /\ \A c : \A e \in BOOLEAN : Plain(Operation(CloseCall(c, e)))
<1>1. /\ \A d \in {"agent", "edited"} : Ends(Update(d)) /\ Update(d).op = "update"
      /\ \A m : Ends(Record(m)) /\ Record(m).op = "record"
      /\ \A g, t : Ends(Open(g, t)) /\ Open(g, t).op = "openGate" /\ Open(g, t).target = t
      /\ Ends(Kill) /\ Kill.op = "kill"
      /\ \A o : o \in {"raiseTask", "resolveTask"} =>
           LET k == [op |-> o, kind |-> "BOOKING_WRITE_FAILED"]
           IN  Ends(k) /\ k.op = o
  BY DEF Ends, Update, Record, Open, Kill
<1>2. /\ \A t, h : t # "AWAITING_RESPONSE" => Ends(Move(t, h))
      /\ \A t, h : Move(t, h).target = t
      /\ \A g, v, t, r : t # "AWAITING_CLARIFICATION" => Ends(Close(g, v, t, r))
      /\ \A g, v, t, r : Close(g, v, t, r).op = "closeGate"
      /\ \A c, e : Ends(CloseCall(c, e)) /\ CloseCall(c, e).target = "CLOSED"
  BY DEF Ends, Move, Close, CloseCall
<1> HIDE DEF Kill
<1>3. /\ \A d \in {"agent", "edited"} : Plain(Operation(Update(d)))
      /\ \A m \in Replies \cup Receipts : Plain(Operation(Record(m)))
      /\ \A g \in GateTypes : Fresh(Operation(Open(g, "none")))
      /\ Plain(Operation(Open("PRE_SEND_REVIEW", "PENDING_ANALYST_APPROVAL")))
      /\ Plain(Operation(Kill))
  BY <1>1, HandlerCallsMade, FreshOperation
<1>4. ASSUME NEW o \in {"raiseTask", "resolveTask"}
      PROVE  Plain(Operation([op |-> o, kind |-> "BOOKING_WRITE_FAILED"]))
  <2> DEFINE k == [op |-> o, kind |-> "BOOKING_WRITE_FAILED"]
  <2>1. k \in HandlerCalls /\ Ends(k) /\ k.op \notin {"transition", "openGate"}
    BY <1>1, HandlerCallsMade
  <2> HIDE DEF k
  <2>2. Plain(Operation(k))
    BY <2>1, FreshOperation
  <2> QED BY <2>2 DEF k
<1>5. /\ \A t \in {"AGREED", "DISPUTED"} : Plain(Operation(Move(t, FALSE)))
      /\ Plain(Operation(Move("SENT", TRUE)))
      /\ \A c : \A e \in BOOLEAN : Plain(Operation(CloseCall(c, e)))
  BY <1>2, HandlerCallsMade, FreshOperation
<1>6. /\ \A g \in GateTypes : Plain(Operation(Close(g, "reassigned", "none", "none")))
      /\ \A v \in {"approved", "rejected"} :
           Plain(Operation(Close("PRE_SEND_REVIEW", v, "none", "none")))
      /\ \A r \in {"settled", "legal"} :
           Plain(Operation(Close("DISPUTE_ESCALATION", "approved", "RESOLVED", r)))
  BY <1>2, HandlerCallsMade, FreshOperation
<1> QED BY <1>3, <1>4, <1>5, <1>6

LEMMA FreshKinds ==
  /\ \A kind \in PlainSteps \ {"mark_fired"} : Fresh(<< Step(kind) >>)
  /\ \A kind \in PlainSteps \ {"mark_fired", "verify_awaiting", "escalate", "open_gate2",
                              "reopen"} :
       Plain(<< Step(kind) >>)
  /\ \A kind \in MessageSteps, m \in Replies : Fresh(<< MessageStep(kind, m) >>)
<1>1. ASSUME NEW s \in HandlerSteps, s.do \in (PlainSteps \ {"mark_fired"}) \cup MessageSteps
      PROVE  /\ Fresh(<< s >>)
             /\ s.do \in PlainSteps \ {"verify_awaiting", "escalate", "open_gate2",
                                      "reopen"} => Plain(<< s >>)
  <2>1. s.do \notin {"write", "cancel", "arm", "mark_fired", "attempt"}
    BY <1>1 DEF PlainSteps, MessageSteps
  <2>2. ~NeedsNext(s) /\ ~FollowsOn(s)
    BY <2>1 DEF NeedsNext, FollowsOn, Decides, Opens, BeginsWait, MovesTo, Clarifies, Keeps
  <2>3. s \in Unmarked
    BY <2>1 DEF Unmarked, ArmsWindow
  <2>4. s.do \in PlainSteps \ {"verify_awaiting", "escalate", "open_gate2", "reopen"} =>
          s \in Minor
    BY <2>1, <2>3 DEF Minor, Quiet, Token, Answers, Ahead, MessageSteps, PlainSteps, Receives,
                      MovesTo, Opener, OpensGate
  <2> QED BY <2>2, <2>3, <2>4, WholeStep DEF Fresh, Plain
<1> QED BY <1>1, StepKinds

LEMMA PlainEmpty == Plain(<< >>)
BY WholeEmpty DEF Plain

----------------------------------------------------------------------------
(* The handlers that begin a wait *)

LEMMA BeginsWithMove ==
  Plain(Operation(Move("AWAITING_RESPONSE", FALSE)) \o << Arm({"COUNTERPARTY_RESPONSE"}) >>)
<1> DEFINE k == Move("AWAITING_RESPONSE", FALSE)
           w == Write(k)
           a == Arm({"COUNTERPARTY_RESPONSE"})
<1>1. k \in HandlerCalls /\ k.op = "transition" /\ k.target = "AWAITING_RESPONSE"
  BY HandlerCallsMade DEF Move
<1>2. Operation(k) \o << a >> = << w, a >>
  <2> HIDE DEF k, w, a
  <2>1. ~CancelsTimers(k) /\ k.op # "openGate"
    BY <1>1 DEF CancelsTimers
  <2>2. Operation(k) = << w >>
    BY <2>1 DEF Operation, w
  <2>3. \A x, y : << x >> \o << y >> = << x, y >>
    BY TwoSteps
  <2> QED BY <2>2, <2>3
<1> HIDE DEF k
<1>3. w \in Unmarked /\ w.do = "write" /\ w.call = k
  BY <1>1, WritesAreSteps
<1>4. a \in Unmarked /\ a.do = "arm" /\ a.kinds = Response
  BY DEF Unmarked, HandlerSteps, TimerKinds, Arm, ArmsWindow, Windows, Response
<1> HIDE DEF w, a
<1>5. Bound(w, a) /\ ~NeedsNext(a) /\ ~FollowsOn(w)
  BY <1>1, <1>3, <1>4 DEF Bound, NeedsNext, FollowsOn, Decides, Opens, BeginsWait, MovesTo,
     Clarifies, Keeps, ArmsKinds, CancelsTimers
<1>6. << w, a >> \in Seq(Minor) /\ Len(<< w, a >>) = 2
      /\ << w, a >>[1] = w /\ << w, a >>[2] = a
  <2>1. w \in Minor /\ a \in Minor
    BY <1>1, <1>3, <1>4 DEF Minor, Quiet, Token, Answers, Ahead, MessageSteps, Receives,
                            MovesTo, Opener, OpensGate
  <2> QED BY <2>1
<1>7. Whole(<< w, a >>) /\ Starts(<< w, a >>)
  BY <1>5, <1>6, WholePair
<1>8. Plain(<< w, a >>)
  BY <1>6, <1>7 DEF Plain
<1> QED BY <1>2, <1>8 DEF k, w, a

LEMMA BeginsWithClarification ==
  Plain(Operation(Close("DISPUTE_ESCALATION", "approved", "AWAITING_CLARIFICATION", "none"))
          \o Operation(Update("keep")) \o << Arm({"COUNTERPARTY_RESPONSE"}) >>)
<1> DEFINE k == Close("DISPUTE_ESCALATION", "approved", "AWAITING_CLARIFICATION", "none")
           u == Update("keep")
           c == Cancel(k)
           w == Write(k)
           v == Write(u)
           a == Arm({"COUNTERPARTY_RESPONSE"})
           s == << c, w >> \o << v >> \o << a >>
<1>1. /\ k \in HandlerCalls /\ k.op = "closeGate" /\ k.target = "AWAITING_CLARIFICATION"
      /\ u \in HandlerCalls /\ u.op = "update" /\ u.draft = "keep"
  BY HandlerCallsMade DEF Close, Update
<1>2. Operation(k) \o Operation(u) \o << a >> = s
  <2>1. CancelsTimers(k) /\ k.op # "openGate" /\ ~CancelsTimers(u) /\ u.op # "openGate"
    BY <1>1 DEF CancelsTimers
  <2>2. Operation(k) = << c >> \o << w >> \o << >> /\ Operation(u) = << v >>
    BY <2>1 DEF Operation
  <2>3. Operation(k) = << c, w >>
    BY <2>2, TwoSteps
  <2> QED BY <2>2, <2>3
<1> HIDE DEF k, u
<1>3. /\ c \in Unmarked /\ c.do = "cancel" /\ c.call = k
      /\ w \in Unmarked /\ w.do = "write" /\ w.call = k
      /\ v \in Unmarked /\ v.do = "write" /\ v.call = u
  BY <1>1, WritesAreSteps
<1>4. a \in Unmarked /\ a.do = "arm" /\ a.kinds = Response
  BY DEF Unmarked, HandlerSteps, TimerKinds, Arm, ArmsWindow, Windows, Response
<1> HIDE DEF c, w, v, a
<1>5. /\ s \in Seq(Minor) /\ Len(s) = 4
      /\ s[1] = c /\ s[2] = w /\ s[3] = v /\ s[4] = a
  <2>1. c \in Minor /\ w \in Minor /\ v \in Minor /\ a \in Minor
    BY <1>1, <1>3, <1>4 DEF Minor, Quiet, Token, Answers, Ahead, MessageSteps, Receives,
                            MovesTo, Opener, OpensGate
  <2> QED BY <2>1
<1>6. Bound(c, w) /\ Bound(w, v) /\ Bound(v, a) /\ ~NeedsNext(a) /\ ~FollowsOn(c)
  BY <1>1, <1>3, <1>4 DEF Bound, NeedsNext, FollowsOn, Decides, Opens, BeginsWait, MovesTo,
     Clarifies, Keeps, ArmsKinds, CancelsTimers
<1> HIDE DEF s
<1>7. Whole(s) /\ Starts(s)
  <2>1. \A i \in 1 .. Len(s) - 1 : i = 1 \/ i = 2 \/ i = 3
    BY <1>5
  <2>2. \A i \in 1 .. Len(s) - 1 : Bound(s[i], s[i + 1])
    BY <1>5, <1>6, <2>1
  <2> QED BY <1>5, <1>6, <2>2 DEF Whole, Starts
<1>8. Plain(s)
  BY <1>5, <1>7 DEF Plain
<1> QED BY <1>2, <1>8 DEF k, u, a

LEMMA PlainApproval ==
  ASSUME NEW edited \in BOOLEAN
  PROVE  Plain((IF edited THEN Operation(Update("edited")) ELSE << >>)
                 \o Operation(Close("PRE_SEND_REVIEW", "approved", "none", "none"))
                 \o << Step("send") >>
                 \o Operation(Move("SENT", TRUE))
                 \o Operation(Move("AWAITING_RESPONSE", FALSE))
                 \o << Arm({"COUNTERPARTY_RESPONSE"}) >>)
<1> DEFINE edit == IF edited THEN Operation(Update("edited")) ELSE << >>
           approve == Operation(Close("PRE_SEND_REVIEW", "approved", "none", "none"))
           sends == << Step("send") >>
           marks == Operation(Move("SENT", TRUE))
           waits == Operation(Move("AWAITING_RESPONSE", FALSE))
           arms == << Arm({"COUNTERPARTY_RESPONSE"}) >>
<1>1. Plain(edit) /\ Plain(approve) /\ Plain(marks)
  BY PlainOperations, PlainEmpty
<1>2. Plain(sends)
  BY FreshKinds DEF PlainSteps
<1>3. Plain(waits \o arms)
  BY BeginsWithMove
<1>4. waits \in Seq(HandlerSteps) /\ arms \in Seq(HandlerSteps)
  <2>1. Move("AWAITING_RESPONSE", FALSE) \in HandlerCalls
    BY HandlerCallsMade
  <2>2. Proper(waits, row, booked)
    <3>1. Move("AWAITING_RESPONSE", FALSE).op = "transition"
          /\ Move("AWAITING_RESPONSE", FALSE).target = "AWAITING_RESPONSE"
      BY DEF Move
    <3> QED BY <2>1, <3>1, ProperOperation
  <2>3. Arm({"COUNTERPARTY_RESPONSE"}) \in HandlerSteps
    BY StepKinds DEF TimerKinds
  <2>4. arms \in Seq(HandlerSteps)
    BY <2>3
  <2>5. waits \in Seq(HandlerSteps)
    BY <2>2 DEF Proper, Good
  <2> QED BY <2>4, <2>5
<1> HIDE DEF edit, approve, sends, marks, waits, arms
<1>5. Plain(edit \o approve \o sends \o marks)
  BY <1>1, <1>2, PlainJoin
<1> DEFINE first == edit \o approve \o sends \o marks
<1>6. first \in Seq(HandlerSteps)
  BY <1>5 DEF Plain, Minor, Unmarked
<1> HIDE DEF first
<1>7. first \o waits \o arms = first \o (waits \o arms)
  BY <1>4, <1>6
<1>8. Plain(first \o waits \o arms)
  BY <1>3, <1>5, <1>7, PlainJoin DEF first
<1> QED BY <1>8 DEF first, edit, approve, sends, marks, waits, arms

LEMMA FreshMoves ==
  \A t \in {"ESCALATED", "RESPONSE_RECEIVED"} : Fresh(Operation(Move(t, FALSE)))
<1>1. \A t \in {"ESCALATED", "RESPONSE_RECEIVED"} :
        Move(t, FALSE) \in HandlerCalls /\ Ends(Move(t, FALSE))
  BY HandlerCallsMade DEF Ends, Move
<1> QED BY <1>1, FreshOperation

LEMMA FreshEscalation ==
  /\ Fresh(<< Step("open_gate2") >>)
  /\ Fresh(Operation(Move("ESCALATED", FALSE)) \o << Step("open_gate2") >>)
<1>1. Fresh(Operation(Move("ESCALATED", FALSE)))
  BY FreshMoves
<1>2. Fresh(<< Step("open_gate2") >>)
  BY FreshKinds DEF PlainSteps
<1> QED BY <1>1, <1>2, FreshJoin

LEMMA PlainHold == \A c : Plain(HoldForBooking(c))
BY PlainOperations, PlainEmpty DEF HoldForBooking

LEMMA PlainSubmission == Plain(SubmitForApproval)
BY PlainOperations, PlainJoin DEF SubmitForApproval

----------------------------------------------------------------------------
(* Steps that touch neither the case nor its timers *)

Busy == {"write", "cancel", "arm", "mark_fired"}

\* Nodes that the handler goes on after, whatever happens in them.
Lasting == {"verify_awaiting", "escalate", "open_gate2", "reopen"}

\* What may take the place of s, which deals with a reply or with an expiry.
Turns(s, new) ==
  /\ \A i, j \in DOMAIN new : Token(new[i]) /\ Token(new[j]) => i = j
  /\ \A i \in DOMAIN new :
       /\ Answers(new[i]) => Answers(s)
       /\ new[i].do \in {"verify_awaiting", "escalate"} => s.do = "verify_awaiting"
       /\ Owns(new[i]) => \/ Owns(s) \/ s.do = "escalate"
                          \/ \E j \in DOMAIN new : Receives(new[j])
       /\ Receives(new[i]) => \A j \in 1 .. i - 1 : Records(new[j])

\* Only a handler's first call and a step of this kind bring steps of this kind, and
\* only the nodes that open gates bring the opening of one.
Suits(p, new) ==
  /\ \/ \A i \in DOMAIN new : Quiet(new[i])
     \/ prog[p] = << >> /\ \A i \in DOMAIN new : i = 1 /\ new[i].do = "dedupe_and_parse"
     \/ prog[p] # << >> /\ Token(prog[p][1]) /\ Turns(prog[p][1], new)
  /\ new # << >> /\ Opener(new[1]) =>
       /\ OpensGate(new[1])
       /\ At(p, "open_gate2") \/ (At(p, "reopen") /\ snap'[p] = snap[p])

\* A handler of p starts, goes on with other steps, or gives up; one that is about to
\* escalate and goes on with what is left of it, does so unless nobody waits.
Aside(p) ==
  /\ row' = row /\ timers' = timers
  /\ \A q \in Procs \ {p} : prog'[q] = prog[q] /\ snap'[q] = snap[q]
  /\ prog[p] # << >> => prog[p][1].do \notin Busy
  /\ \E new, rest \in Seq(HandlerSteps) :
       /\ Fresh(new) /\ Suits(p, new) /\ prog'[p] = new \o rest
       /\ prog[p] # << >> /\ prog[p][1].do \in Lasting => rest = Tail(prog[p])
       /\ rest # << >> =>
            /\ prog[p] # << >> /\ rest = Tail(prog[p])
            /\ Ahead(prog[p][1]) /\ Waiting(row) => \E i \in DOMAIN new : Ahead(new[i])

LEMMA PlainSuits ==
  ASSUME NEW p, NEW new, Plain(new)
  PROVE  Fresh(new) /\ Suits(p, new)
<1>1. \A i \in DOMAIN new : new[i] \in Minor
  BY DEF Plain
<1>2. new # << >> => 1 \in DOMAIN new
  BY DEF Plain
<1> QED BY <1>1, <1>2, PlainIsFresh DEF Suits, Minor

LEMMA AsideReplace ==
  ASSUME WorkflowInv, NEW p \in Procs, NEW new, Fresh(new), Suits(p, new),
         prog' = [prog EXCEPT ![p] = new],
         prog[p] # << >> => prog[p][1].do \notin Busy \cup Lasting,
         row' = row, timers' = timers, snap' \in {snap, [snap EXCEPT ![p] = row]}
  PROVE  Aside(p)
<1>1. prog \in [Procs -> Seq(HandlerSteps)] /\ snap \in [Procs -> Case]
  BY DEF WorkflowInv, Types
<1>2. new \in Seq(HandlerSteps) /\ << >> \in Seq(HandlerSteps)
  BY DEF Fresh, Unmarked
<1>3. prog'[p] = new \o << >>
  BY <1>1, <1>2
<1>4. \A q \in Procs \ {p} : prog'[q] = prog[q] /\ snap'[q] = snap[q]
  BY <1>1
<1> QED BY <1>2, <1>3, <1>4 DEF Aside

LEMMA AsideCall ==
  ASSUME WorkflowInv, NEW p \in Procs, NEW new, Fresh(new), Suits(p, new), Call(p, new)
  PROVE  Aside(p)
BY AsideReplace DEF Call, Idle

LEMMA AsideGiveUp ==
  ASSUME WorkflowInv, NEW p \in Procs, NEW kind, kind \notin Busy \cup Lasting, Doing(p, kind),
         NEW new, Fresh(new), Suits(p, new), prog' = [prog EXCEPT ![p] = new],
         row' = row, timers' = timers, snap' \in {snap, [snap EXCEPT ![p] = row]}
  PROVE  Aside(p)
<1>1. prog[p][1].do \notin Busy \cup Lasting
  BY CurrentStep
<1> QED BY <1>1, AsideReplace

LEMMA AsideThen ==
  ASSUME WorkflowInv, NEW p \in Procs, NEW kind, kind \notin Busy, Doing(p, kind),
         NEW new, Fresh(new), Suits(p, new), Then(p, new),
         row' = row, timers' = timers, snap' \in {snap, [snap EXCEPT ![p] = row]},
         \/ kind \notin {"verify_awaiting", "escalate"}
         \/ ~Waiting(row)
         \/ \E i \in DOMAIN new : Ahead(new[i])
  PROVE  Aside(p)
<1>1. prog \in [Procs -> Seq(HandlerSteps)] /\ snap \in [Procs -> Case]
  BY DEF WorkflowInv, Types
<1>2. prog[p] # << >> /\ prog[p][1].do = kind
  BY CurrentStep
<1>3. Tail(prog[p]) \in Seq(HandlerSteps) /\ new \in Seq(HandlerSteps)
  BY <1>2, RestOfHandler DEF Fresh, Unmarked
<1>4. prog'[p] = new \o Tail(prog[p])
      /\ \A q \in Procs \ {p} : prog'[q] = prog[q] /\ snap'[q] = snap[q]
  BY <1>1 DEF Then
<1>5. Ahead(prog[p][1]) /\ Waiting(row) => \E i \in DOMAIN new : Ahead(new[i])
  BY <1>2 DEF Ahead, MovesTo, Busy
<1> QED BY <1>2, <1>3, <1>4, <1>5 DEF Aside

\* Most nodes have nothing to do with the end of a wait.
LEMMA AsideNode ==
  ASSUME WorkflowInv, NEW p \in Procs,
         NEW kind, kind \notin Busy \cup {"verify_awaiting", "escalate"},
         NEW new, Fresh(new), Suits(p, new), Node(p, kind, new)
  PROVE  Aside(p)
BY AsideThen DEF Node

LEMMA AsidePlainNode ==
  ASSUME WorkflowInv, NEW p \in Procs,
         NEW kind, kind \notin Busy \cup {"verify_awaiting", "escalate"},
         NEW new, Plain(new), Node(p, kind, new)
  PROVE  Aside(p)
BY PlainSuits, AsideNode

\* Steps in the place of one that deals with a reply or an expiry.
LEMMA TurnSuits ==
  ASSUME WorkflowInv, NEW p \in Procs, NEW kind, Doing(p, kind),
         kind \in MessageSteps \cup {"attempt", "verify_awaiting", "escalate"},
         NEW new, ~Opener(new[1]), Turns(prog[p][1], new)
  PROVE  Suits(p, new)
<1>1. prog[p] # << >> /\ prog[p][1].do = kind
  BY CurrentStep
<1> QED BY <1>1 DEF Suits, Token, Answers, Ahead

LEMMA SingleWrites ==
  /\ \A t : Operation(Move(t, FALSE)) = << Write(Move(t, FALSE)) >>
  /\ \A m : Operation(Record(m)) = << Write(Record(m)) >>
<1>1. ASSUME NEW k, k.op \in {"transition", "record"}
      PROVE  Operation(k) = << Write(k) >>
  <2> DEFINE w == Write(k)
  <2>1. ~CancelsTimers(k) /\ k.op # "openGate"
    BY <1>1 DEF CancelsTimers
  <2>2. /\ \A s \in Seq({w}) : s \o << >> = s /\ << >> \o s = s
        /\ << w >> \in Seq({w})
    OBVIOUS
  <2> HIDE DEF w
  <2>3. << >> \o << w >> \o << >> = << w >>
    BY <2>2
  <2>4. Operation(k) = << >> \o << w >> \o << >>
    BY <2>1 DEF Operation, w
  <2> QED BY <2>3, <2>4 DEF w
<1>2. ASSUME NEW t
      PROVE  Operation(Move(t, FALSE)) = << Write(Move(t, FALSE)) >>
  <2> DEFINE k == Move(t, FALSE)
  <2>1. k.op = "transition"
    BY DEF Move
  <2> HIDE DEF k
  <2>2. Operation(k) = << Write(k) >>
    BY <1>1, <2>1
  <2> QED BY <2>2 DEF k
<1>3. ASSUME NEW m
      PROVE  Operation(Record(m)) = << Write(Record(m)) >>
  <2> DEFINE k == Record(m)
  <2>1. k.op = "record"
    BY DEF Record
  <2> HIDE DEF k
  <2>2. Operation(k) = << Write(k) >>
    BY <1>1, <2>1
  <2> QED BY <2>2 DEF k
<1> QED BY <1>2, <1>3

\* To gate 2, by way of the status DISPUTED or not.
LEMMA EscalationTurns ==
  ASSUME NEW s, Owns(s) \/ s.do = "escalate"
  PROVE  LET escalation == Operation(Move("ESCALATED", FALSE)) \o << Step("open_gate2") >>
             dispute == Operation(Move("DISPUTED", FALSE))
                          \o Operation(Move("ESCALATED", FALSE)) \o << Step("open_gate2") >>
         IN  /\ Turns(s, escalation) /\ ~Opener(escalation[1])
             /\ 1 \in DOMAIN escalation /\ Ahead(escalation[1])
             /\ Turns(s, dispute) /\ ~Opener(dispute[1])
<1> DEFINE d == Write(Move("DISPUTED", FALSE))
           e == Write(Move("ESCALATED", FALSE))
           o == Step("open_gate2")
<1>1. /\ Quiet(d) /\ ~Opener(d) /\ ~Owns(d)
      /\ ~Answers(e) /\ e.do = "write" /\ ~Receives(e) /\ Ahead(e) /\ ~Opener(e)
      /\ Quiet(o) /\ ~Owns(o)
  BY DEF Quiet, Token, Answers, Ahead, Receives, Opener, OpensGate, MovesTo, MessageSteps, Write,
         Move, Step, Owns
<1>2. Operation(Move("ESCALATED", FALSE)) = << e >> /\ Operation(Move("DISPUTED", FALSE)) = << d >>
  BY SingleWrites
<1> HIDE DEF d, e, o
<1>3. << e >> \o << o >> = << e, o >> /\ << d >> \o << e >> \o << o >> = << d, e, o >>
  BY TwoSteps, ThreeSteps
<1>4. /\ DOMAIN << e, o >> = {1, 2} /\ << e, o >>[1] = e /\ << e, o >>[2] = o
      /\ DOMAIN << d, e, o >> = {1, 2, 3}
      /\ << d, e, o >>[1] = d /\ << d, e, o >>[2] = e /\ << d, e, o >>[3] = o
  OBVIOUS
<1>5. Turns(s, << e, o >>)
  BY <1>1, <1>4 DEF Turns, Quiet, Token, Ahead
<1>6. Turns(s, << d, e, o >>)
  BY <1>1, <1>4 DEF Turns, Quiet, Token, Ahead
<1> QED BY <1>1, <1>2, <1>3, <1>4, <1>5, <1>6 DEF o

LEMMA AsideHumanAction ==
  ASSUME WorkflowInv, NEW p \in Procs, HumanAction(p)
  PROVE  Aside(p)
<1>1. ASSUME NEW edited \in BOOLEAN, ApproveAndSend(p, edited)
      PROVE  Aside(p)
  BY <1>1, PlainApproval, PlainSuits, AsideCall DEF ApproveAndSend, HumanCall
<1>2. CASE Reject(p)
  <2>1. Plain(Operation(Close("PRE_SEND_REVIEW", "rejected", "none", "none"))
                \o Operation(Kill))
    BY PlainOperations, PlainJoin
  <2> QED BY <1>2, <2>1, PlainSuits, AsideCall DEF Reject, HumanCall
<1>3. CASE Reassign(p)
  <2> DEFINE k == Close(CurrentGate(row), "reassigned", "none", "none")
             new == Operation(k) \o << Step("reopen") >>
  <2>1. Fresh(Operation(k))
    BY CurrentGateIsGate, PlainOperations, PlainIsFresh
  <2>2. Fresh(<< Step("reopen") >>)
    BY FreshKinds DEF PlainSteps
  <2>3. Fresh(new)
    BY <2>1, <2>2, FreshJoin
  <2>4. new = << Cancel(k), Write(k), Step("reopen") >>
    <3>1. k.op = "closeGate"
      BY DEF Close
    <3> HIDE DEF k
    <3>2. Operation(k) = << Cancel(k), Write(k) >>
      BY <3>1, TwoSteps DEF Operation, CancelsTimers
    <3>3. \A x, y, z : << x, y >> \o << z >> = << x, y, z >>
      BY ThreeSteps
    <3> QED BY <3>2, <3>3
  <2>5. /\ Quiet(Cancel(k)) /\ Quiet(Write(k)) /\ Quiet(Step("reopen")) /\ ~Opener(Cancel(k))
    BY DEF Quiet, Token, Answers, Ahead, Receives, Opener, OpensGate, MovesTo, MessageSteps,
           Write, Cancel, Step, Close
  <2>6. Suits(p, new)
    <3>1. \A x, y, z : /\ DOMAIN << x, y, z >> = {1, 2, 3}
                       /\ << x, y, z >>[1] = x /\ << x, y, z >>[2] = y /\ << x, y, z >>[3] = z
      OBVIOUS
    <3> HIDE DEF new, k
    <3>2. \A i \in DOMAIN new : Quiet(new[i])
      BY <2>4, <2>5, <3>1
    <3>3. ~Opener(new[1])
      BY <2>4, <2>5, <3>1
    <3> QED BY <3>2, <3>3 DEF Suits
  <2>7. Call(p, new)
    BY <1>3 DEF Reassign, HumanCall
  <2> HIDE DEF new
  <2> QED BY <2>3, <2>6, <2>7, AsideCall
<1>4. CASE ResolveManually(p) \/ EscalateToLegal(p)
  BY <1>4, PlainOperations, PlainSuits, AsideCall
     DEF ResolveManually, EscalateToLegal, HumanCall
<1>5. CASE RequestMoreInfo(p)
  BY <1>5, BeginsWithClarification, PlainSuits, AsideCall DEF RequestMoreInfo, HumanCall
<1>6. CASE KillSwitch(p)
  BY <1>6, PlainOperations, PlainSuits, AsideCall DEF KillSwitch, HumanCall
<1> QED BY <1>1, <1>2, <1>3, <1>4, <1>5, <1>6 DEF HumanAction

\* The nodes that open a gate.
LEMMA OpeningSuits ==
  ASSUME NEW p, NEW gate \in GateTypes,
         At(p, "open_gate2") \/ (At(p, "reopen") /\ snap'[p] = snap[p])
  PROVE  Fresh(Operation(Open(gate, "none"))) /\ Suits(p, Operation(Open(gate, "none")))
<1> DEFINE k == Open(gate, "none")
           w == Write(k)
           a == Arm(GateTimers(k.gate))
<1>1. k.op = "openGate" /\ k.target = "none"
  BY DEF Open
<1> HIDE DEF k
<1>2. Operation(k) = << w, a >>
  BY <1>1, TwoSteps DEF Operation, CancelsTimers
<1>3. Quiet(w) /\ Quiet(a) /\ OpensGate(w)
  BY <1>1 DEF Quiet, Token, Answers, Ahead, Receives, OpensGate, MovesTo, MessageSteps, Write, Arm
<1> HIDE DEF w, a
<1>4. \A i \in DOMAIN Operation(k) : Quiet(Operation(k)[i])
  <2>1. DOMAIN << w, a >> = {1, 2} /\ << w, a >>[1] = w /\ << w, a >>[2] = a
    OBVIOUS
  <2> QED BY <1>2, <1>3, <2>1
<1>5. Operation(k)[1] = w
  BY <1>2
<1>6. Fresh(Operation(k))
  BY PlainOperations DEF k
<1> QED BY <1>3, <1>4, <1>5, <1>6 DEF Suits, k

LEMMA AsideGateStep ==
  ASSUME WorkflowInv, NEW p \in Procs, GateStep(p)
  PROVE  Aside(p)
<1>1. CASE Send(p)
  <2>1. /\ "send" \notin Busy \cup {"verify_awaiting", "escalate"} /\ Doing(p, "send")
        /\ Then(p, << >>) /\ row' = row /\ timers' = timers /\ snap' = snap
    BY <1>1 DEF Send, Busy
  <2> QED BY <2>1, PlainEmpty, PlainSuits, AsideThen
<1>2. CASE Reopen(p)
  <2> DEFINE gate == snap[p].gates[Len(snap[p].gates)].type
  <2>1. /\ "reopen" \notin Busy \cup {"verify_awaiting", "escalate"} /\ Doing(p, "reopen")
        /\ Then(p, Operation(Open(gate, "none")))
        /\ row' = row /\ timers' = timers /\ snap' = snap
    BY <1>2 DEF Reopen, Busy
  <2>2. At(p, "reopen")
    BY <2>1, CurrentStep
  <2>3. gate \in GateTypes
    <3>1. snap[p].gates # << >> /\ snap[p].gates \in Seq(GateRecord)
      BY <2>2 DEF WorkflowInv, Prepared, Types, Case
    <3>2. snap[p].gates[Len(snap[p].gates)] \in GateRecord
      BY <3>1
    <3> QED BY <3>2 DEF GateRecord
  <2> HIDE DEF gate
  <2>4. Fresh(Operation(Open(gate, "none"))) /\ Suits(p, Operation(Open(gate, "none")))
    BY <2>1, <2>2, <2>3, OpeningSuits
  <2> QED BY <2>1, <2>4, AsideThen
<1> QED BY <1>1, <1>2 DEF GateStep

LEMMA AsideAgentCall ==
  ASSUME WorkflowInv, NEW p \in Procs,
         \/ \E m \in Replies : HandleResponse(p, m)
         \/ SendClarificationRequest(p)
         \/ CloseResolvedCase(p)
  PROVE  Aside(p)
<1>1. Plain(<< Step("draft_clarification") >>) /\ Plain(<< Step("verify_resolved") >>)
  BY FreshKinds DEF PlainSteps
<1>2. ASSUME NEW m \in Replies, HandleResponse(p, m)
      PROVE  Aside(p)
  <2> DEFINE new == << MessageStep("dedupe_and_parse", m) >>
  <2>1. Fresh(new)
    BY FreshKinds DEF MessageSteps
  <2>2. \A i \in DOMAIN new : i = 1 /\ new[i].do = "dedupe_and_parse"
    BY DEF MessageStep
  <2>3. ~Opener(new[1])
    BY DEF MessageStep, Opener, OpensGate
  <2>4. Call(p, new) /\ prog[p] = << >>
    BY <1>2 DEF HandleResponse, Call, Idle
  <2> HIDE DEF new
  <2>5. Suits(p, new)
    BY <2>2, <2>3, <2>4 DEF Suits
  <2> QED BY <2>1, <2>4, <2>5, AsideCall
<1> QED BY <1>1, <1>2, PlainSuits, AsideCall DEF SendClarificationRequest, CloseResolvedCase

\* The nodes that deal with a reply.
LEMMA AsideReplyNode ==
  ASSUME WorkflowInv, NEW p \in Procs, NEW judge, IsJudge(judge),
         \/ DedupeAndParse(p)
         \/ ClassifyAndRecord(p, judge)
         \/ ReconcileAgreement(p, judge)
         \/ AttemptRefused(p)
         \/ FlagDispute(p)
         \/ FlagPartial(p)
  PROVE  Aside(p)
<1> DEFINE Others == Busy \cup {"verify_awaiting", "escalate"}
<1>0. /\ "dedupe_and_parse" \notin Others /\ "classify_and_record" \notin Others
      /\ "reconcile_agreement" \notin Others /\ "flag_dispute" \notin Others
      /\ "flag_partial" \notin Others /\ "attempt" \notin Busy \cup Lasting
  BY DEF Busy, Lasting
<1>1. CASE DedupeAndParse(p)
  <2>1. PICK m \in Replies :
          Node(p, "dedupe_and_parse",
               IF m \in row.processed \/ row.status \notin AwaitingStatuses
               THEN << >>
               ELSE << MessageStep("classify_and_record", m) >>)
    BY <1>1 DEF DedupeAndParse
  <2> DEFINE new == << MessageStep("classify_and_record", m) >>
  <2>2. Fresh(new)
    BY FreshKinds DEF MessageSteps
  <2>3. Suits(p, new)
    <3>1. Doing(p, "dedupe_and_parse")
      BY <2>1 DEF Node
    <3>2. prog[p][1].do = "dedupe_and_parse"
      BY <3>1, CurrentStep
    <3>3. DOMAIN new = {1} /\ new[1].do = "classify_and_record"
      BY DEF MessageStep
    <3> HIDE DEF new
    <3>4. Turns(prog[p][1], new) /\ ~Opener(new[1])
      BY <3>2, <3>3 DEF Turns, Token, Answers, Ahead, Owns, Receives, MovesTo, MessageSteps,
                        Opener, OpensGate
    <3> QED BY <3>1, <3>4, TurnSuits DEF MessageSteps
  <2> HIDE DEF new
  <2>4. CASE m \in row.processed \/ row.status \notin AwaitingStatuses
    BY <1>0, <2>1, <2>4, PlainEmpty, AsidePlainNode
  <2>5. CASE ~(m \in row.processed \/ row.status \notin AwaitingStatuses)
    BY <1>0, <2>1, <2>2, <2>3, <2>5, AsideNode DEF new
  <2> QED BY <2>4, <2>5
<1>2. CASE ClassifyAndRecord(p, judge)
  <2>1. PICK m \in Replies : \E intent \in judge.intents[m] :
          Node(p, "classify_and_record",
               Operation(Record(m)) \o Operation(Move("RESPONSE_RECEIVED", FALSE))
                 \o << MessageStep(IntentRoutes[intent], m) >>)
    BY <1>2 DEF ClassifyAndRecord
  <2>0. PICK intent \in judge.intents[m] :
          Node(p, "classify_and_record",
               Operation(Record(m)) \o Operation(Move("RESPONSE_RECEIVED", FALSE))
                 \o << MessageStep(IntentRoutes[intent], m) >>)
    BY <2>1
  <2> DEFINE r == Write(Record(m))
             w == Write(Move("RESPONSE_RECEIVED", FALSE))
             n == MessageStep(IntentRoutes[intent], m)
             new == Operation(Record(m)) \o Operation(Move("RESPONSE_RECEIVED", FALSE)) \o << n >>
  <2>2. IntentRoutes[intent] \in {"reconcile_agreement", "flag_dispute", "flag_partial"}
    BY DEF IsJudge, IntentRoutes
  <2>3. Fresh(new)
    <3>1. Fresh(<< n >>)
      BY <2>2, FreshKinds DEF MessageSteps
    <3>2. Fresh(Operation(Record(m)))
      BY PlainOperations, PlainIsFresh
    <3>3. Fresh(Operation(Move("RESPONSE_RECEIVED", FALSE)))
      BY FreshMoves
    <3> QED BY <3>1, <3>2, <3>3, FreshJoin
  <2>4. /\ Records(r) /\ Quiet(r) /\ ~Owns(r) /\ ~Opener(r)
        /\ Receives(w) /\ ~Token(w) /\ ~Owns(w) /\ w.do = "write"
        /\ Answers(n) /\ ~Receives(n) /\ n.do \notin {"verify_awaiting", "escalate"}
    BY <2>2 DEF Records, Quiet, Token, Answers, Ahead, Owns, Receives, Opener, OpensGate, MovesTo,
                MessageSteps, Write, Record, Move, MessageStep
  <2>5. new = << r, w, n >>
    <3>1. \A x, y, z : << x >> \o << y >> \o << z >> = << x, y, z >>
      BY ThreeSteps
    <3> QED BY <3>1, SingleWrites
  <2>6. Doing(p, "classify_and_record")
    BY <2>0 DEF Node
  <2>7. prog[p][1].do = "classify_and_record"
    BY <2>6, CurrentStep
  <2>8. Turns(prog[p][1], new) /\ ~Opener(new[1])
    <3>1. \A x, y, z : /\ DOMAIN << x, y, z >> = {1, 2, 3}
                       /\ << x, y, z >>[1] = x /\ << x, y, z >>[2] = y /\ << x, y, z >>[3] = z
      OBVIOUS
    <3> HIDE DEF r, w, n, new
    <3>2. DOMAIN new = {1, 2, 3} /\ new[1] = r /\ new[2] = w /\ new[3] = n
      BY <2>5, <3>1
    <3>3. \A i, j \in DOMAIN new : Token(new[i]) /\ Token(new[j]) => i = j
      BY <2>4, <3>2 DEF Quiet
    <3>4. Answers(prog[p][1])
      BY <2>7 DEF Answers, MessageSteps
    <3>5. \A i \in DOMAIN new : new[i].do \notin {"verify_awaiting", "escalate"}
      BY <2>4, <3>2 DEF Quiet, Token, Ahead
    <3>6. \A i \in DOMAIN new : Receives(new[i]) => i = 2
      BY <2>4, <3>2 DEF Quiet
    <3>7. \A i \in DOMAIN new : Receives(new[i]) => \A j \in 1 .. i - 1 : Records(new[j])
      BY <2>4, <3>2, <3>6
    <3>8. \E j \in DOMAIN new : Receives(new[j])
      BY <2>4, <3>2
    <3> QED BY <2>4, <3>2, <3>3, <3>4, <3>5, <3>7, <3>8 DEF Turns
  <2> HIDE DEF new
  <2>9. Suits(p, new)
    BY <2>6, <2>8, TurnSuits DEF MessageSteps
  <2> QED BY <1>0, <2>0, <2>3, <2>9, AsideNode DEF new
<1>3. CASE ReconcileAgreement(p, judge)
  <2>1. PICK m \in Replies, eligible \in BOOLEAN :
          Node(p, "reconcile_agreement",
               Operation(Move("AGREED", FALSE))
                 \o << [do |-> "attempt", call |-> AutoResolve(eligible, m)],
                       Step("write_booking_record") >>)
    BY <1>3 DEF ReconcileAgreement, IsJudge
  <2> DEFINE w == Write(Move("AGREED", FALSE))
             a == [do |-> "attempt", call |-> AutoResolve(eligible, m)]
             b == Step("write_booking_record")
             new == Operation(Move("AGREED", FALSE)) \o << a, b >>
  <2>2. a \in HandlerSteps /\ a.do = "attempt" /\ b \in HandlerSteps
        /\ b.do = "write_booking_record"
    <3>1. AutoResolve(eligible, m) \in Attempts
      BY DEF Attempts
    <3> QED BY <3>1, StepKinds DEF HandlerSteps, PlainSteps
  <2>3. Quiet(w) /\ ~Owns(w) /\ ~Opener(w)
    BY DEF Quiet, Token, Answers, Ahead, Owns, Receives, Opener, OpensGate, MovesTo, MessageSteps,
           Write, Move
  <2>4. new = << w, a, b >>
    <3>1. \A x, y, z : << x >> \o << y, z >> = << x, y, z >>
      BY ThreeSteps
    <3> QED BY <3>1, SingleWrites
  <2> HIDE DEF a, b
  <2>5. a \in Unmarked /\ b \in Unmarked /\ ~NeedsNext(a) /\ ~FollowsOn(a)
        /\ ~NeedsNext(b) /\ ~FollowsOn(b)
    BY <2>2 DEF Unmarked, ArmsWindow, NeedsNext, FollowsOn, Decides, Opens, BeginsWait,
                MovesTo, Clarifies, Keeps
  <2>6. Fresh(<< a, b >>)
    <3>1. << a, b >> \in Seq(Unmarked) /\ Len(<< a, b >>) = 2
          /\ << a, b >>[1] = a /\ << a, b >>[2] = b
      BY <2>5
    <3>2. Bound(a, b)
      BY <2>2, <2>5, BoundFree
    <3>3. Whole(<< a, b >>) /\ Starts(<< a, b >>)
      BY <2>5, <3>1, <3>2, WholePair
    <3> QED BY <3>1, <3>3 DEF Fresh
  <2>7. Fresh(new)
    <3>1. Fresh(Operation(Move("AGREED", FALSE)))
      BY PlainOperations, PlainIsFresh
    <3> QED BY <2>6, <3>1, FreshJoin
  <2>8. Doing(p, "reconcile_agreement")
    BY <2>1 DEF Node
  <2>9. prog[p][1].do = "reconcile_agreement"
    BY <2>8, CurrentStep
  <2>10. Turns(prog[p][1], new) /\ ~Opener(new[1])
    <3>1. \A x, y, z : /\ DOMAIN << x, y, z >> = {1, 2, 3}
                       /\ << x, y, z >>[1] = x /\ << x, y, z >>[2] = y /\ << x, y, z >>[3] = z
      OBVIOUS
    <3> HIDE DEF w, new
    <3>2. DOMAIN new = {1, 2, 3} /\ new[1] = w /\ new[2] = a /\ new[3] = b
      BY <2>4, <3>1
    <3>3. Answers(prog[p][1]) /\ Owns(prog[p][1])
      BY <2>9 DEF Answers, MessageSteps, Owns
    <3>4. Quiet(b) /\ ~Receives(a) /\ a.do \notin {"verify_awaiting", "escalate"}
      BY <2>2 DEF Quiet, Token, Answers, Ahead, Receives, MovesTo, MessageSteps
    <3> QED BY <2>3, <3>2, <3>3, <3>4 DEF Turns, Quiet, Token, Ahead
  <2> HIDE DEF new
  <2>11. Suits(p, new)
    BY <2>8, <2>10, TurnSuits DEF MessageSteps
  <2> QED BY <1>0, <2>1, <2>7, <2>11, AsideNode DEF new, a, b
<1>4. CASE AttemptRefused(p)
  <2> DEFINE new == Operation(Move("ESCALATED", FALSE)) \o << Step("open_gate2") >>
  <2>1. /\ Doing(p, "attempt") /\ row' = row /\ timers' = timers /\ snap' = snap
        /\ prog' = [prog EXCEPT ![p] = new] \/ prog' = [prog EXCEPT ![p] = << >>]
    BY <1>4 DEF AttemptRefused
  <2>2. Owns(prog[p][1])
    BY <2>1, CurrentStep DEF Owns
  <2>3. Turns(prog[p][1], new) /\ ~Opener(new[1]) /\ Fresh(new)
    BY <2>2, EscalationTurns, FreshEscalation
  <2> HIDE DEF new
  <2>4. Suits(p, new)
    BY <2>1, <2>3, TurnSuits
  <2> QED BY <1>0, <2>1, <2>3, <2>4, PlainEmpty, PlainSuits, AsideGiveUp
<1>5. CASE FlagDispute(p)
  <2> DEFINE new == Operation(Move("DISPUTED", FALSE)) \o Operation(Move("ESCALATED", FALSE))
                      \o << Step("open_gate2") >>
  <2>1. Node(p, "flag_dispute", new) /\ Doing(p, "flag_dispute")
    BY <1>5 DEF FlagDispute, Node
  <2>2. Owns(prog[p][1])
    BY <2>1, CurrentStep DEF Owns
  <2>3. Fresh(new)
    <3>1. Fresh(Operation(Move("DISPUTED", FALSE)))
      BY PlainOperations, PlainIsFresh
    <3>2. Fresh(Operation(Move("ESCALATED", FALSE))) /\ Fresh(<< Step("open_gate2") >>)
      BY FreshMoves, FreshEscalation
    <3> QED BY <3>1, <3>2, FreshJoin
  <2>4. Turns(prog[p][1], new) /\ ~Opener(new[1])
    BY <2>2, EscalationTurns
  <2> HIDE DEF new
  <2>5. Suits(p, new)
    BY <2>1, <2>4, TurnSuits DEF MessageSteps
  <2> QED BY <1>0, <2>1, <2>3, <2>5, AsideNode
<1>6. CASE FlagPartial(p)
  <2> DEFINE new == Operation(Move("ESCALATED", FALSE)) \o << Step("open_gate2") >>
  <2>1. Node(p, "flag_partial", new) /\ Doing(p, "flag_partial")
    BY <1>6 DEF FlagPartial, Node
  <2>2. Owns(prog[p][1])
    BY <2>1, CurrentStep DEF Owns
  <2>3. Turns(prog[p][1], new) /\ ~Opener(new[1]) /\ Fresh(new)
    BY <2>2, EscalationTurns, FreshEscalation
  <2> HIDE DEF new
  <2>4. Suits(p, new)
    BY <2>1, <2>3, TurnSuits DEF MessageSteps
  <2> QED BY <1>0, <2>1, <2>3, <2>4, AsideNode
<1> QED BY <1>1, <1>2, <1>3, <1>4, <1>5, <1>6

\* Gate 2, the booking and the closing, the requests for clarification.
LEMMA AsideOtherNode ==
  ASSUME WorkflowInv, NEW p \in Procs, NEW judge, IsJudge(judge),
         \/ OpenGate2(p)
         \/ WriteBookingRecord(p, judge)
         \/ BookingSucceeds(p)
         \/ BookingFails(p)
         \/ CloseCase(p, judge)
         \/ DraftClarification(p)
         \/ SendAndRecord(p)
         \/ VerifyResolved(p)
  PROVE  Aside(p)
<1> DEFINE Others == Busy \cup {"verify_awaiting", "escalate"}
<1>0. /\ "open_gate2" \notin Others /\ "write_booking_record" \notin Others
      /\ "book" \notin Others /\ "close_case" \notin Others
      /\ "draft_clarification" \notin Others /\ "verify_resolved" \notin Others
      /\ "send_and_record" \notin Others \cup Lasting
  BY DEF Busy, Lasting
<1>1. CASE OpenGate2(p)
  <2>1. Doing(p, "open_gate2")
    BY <1>1 DEF OpenGate2, Node
  <2>2. At(p, "open_gate2")
    BY <2>1, CurrentStep
  <2> QED BY <1>0, <1>1, <2>2, OpeningSuits, AsideNode DEF OpenGate2, GateTypes
<1>2. CASE WriteBookingRecord(p, judge)
  <2>1. PICK new : Node(p, "write_booking_record", new)
                   /\ new \in {<< Step("book") >>, << >>, HoldForBooking(row)}
    <3> DEFINE new == CASE row.resolution \in judge.priced \cup {"settled"} -> << Step("book") >>
                        [] row.resolution = "none" -> << >>
                        [] OTHER -> HoldForBooking(row)
    <3>1. new \in {<< Step("book") >>, << >>, HoldForBooking(row)}
      <4>1. "none" \notin Replies \cup {"settled"}
        BY MessagesAssumption
      <4> QED BY <4>1 DEF IsJudge
    <3>2. Node(p, "write_booking_record", new)
      BY <1>2 DEF WriteBookingRecord
    <3> HIDE DEF new
    <3> QED BY <3>1, <3>2
  <2>2. Plain(<< Step("book") >>)
    BY FreshKinds DEF PlainSteps
  <2>3. Plain(new)
    BY <2>1, <2>2, PlainEmpty, PlainHold
  <2> QED BY <1>0, <2>1, <2>3, AsidePlainNode
<1>3. CASE BookingSucceeds(p)
  <2> DEFINE clears == IF "BOOKING_WRITE_FAILED" \in snap[p].tasks
                       THEN Operation([op |-> "resolveTask", kind |-> "BOOKING_WRITE_FAILED"])
                       ELSE << >>
  <2>1. Plain(clears)
    BY PlainEmpty, PlainOperations
  <2>2. Plain(<< Step("close_case") >>)
    BY FreshKinds DEF PlainSteps
  <2>3. /\ Doing(p, "book") /\ Then(p, clears \o << Step("close_case") >>)
        /\ row' = row /\ timers' = timers /\ snap' = snap
    BY <1>3 DEF BookingSucceeds
  <2> HIDE DEF clears
  <2>4. Plain(clears \o << Step("close_case") >>)
    BY <2>1, <2>2, PlainJoin
  <2> QED BY <1>0, <2>3, <2>4, PlainSuits, AsideThen
<1>4. CASE BookingFails(p)
  <2>1. /\ Doing(p, "book") /\ Then(p, HoldForBooking(snap[p]))
        /\ row' = row /\ timers' = timers /\ snap' = snap
    BY <1>4 DEF BookingFails
  <2> QED BY <1>0, <2>1, PlainHold, PlainSuits, AsideThen
<1>5. CASE CloseCase(p, judge)
  <2>1. PICK eligible \in BOOLEAN : Node(p, "close_case", Operation(CloseCall(row, eligible)))
    BY <1>5 DEF CloseCase, IsJudge
  <2>2. Plain(Operation(CloseCall(row, eligible)))
    BY PlainOperations
  <2> QED BY <1>0, <2>1, <2>2, AsidePlainNode
<1>6. CASE DraftClarification(p)
  <2>1. Plain(<< Step("send_and_record") >>)
    BY FreshKinds DEF PlainSteps
  <2> QED BY <1>0, <1>6, <2>1, AsidePlainNode DEF DraftClarification
<1>7. CASE SendAndRecord(p)
  <2>1. Doing(p, "send_and_record") /\ row' = row /\ timers' = timers
        /\ snap' = [snap EXCEPT ![p] = row]
    BY <1>7 DEF SendAndRecord
  <2>2. (\E receipt \in Receipts : Then(p, Operation(Record(receipt)))) \/ Raise(p)
    BY <1>7 DEF SendAndRecord
  <2>3. ASSUME NEW receipt \in Receipts, Then(p, Operation(Record(receipt)))
        PROVE  Aside(p)
    <3>1. Plain(Operation(Record(receipt)))
      BY PlainOperations
    <3> QED BY <1>0, <2>1, <2>3, <3>1, PlainSuits, AsideThen
  <2>4. CASE Raise(p)
    BY <1>0, <2>1, <2>4, PlainEmpty, PlainSuits, AsideGiveUp DEF Raise
  <2> QED BY <2>2, <2>3, <2>4
<1>8. CASE VerifyResolved(p)
  <2>1. Plain(<< Step("write_booking_record") >>)
    BY FreshKinds DEF PlainSteps
  <2> QED BY <1>0, <1>8, <2>1, PlainEmpty, AsidePlainNode DEF VerifyResolved
<1> QED BY <1>1, <1>2, <1>3, <1>4, <1>5, <1>6, <1>7, <1>8

\* The nodes of the sweep, which lead a waiting case to ESCALATED.
LEMMA AsideExpiryNode ==
  ASSUME WorkflowInv, NEW p \in Procs, VerifyAwaiting(p) \/ Escalate(p)
  PROVE  Aside(p)
<1>0. "verify_awaiting" \notin Busy /\ "escalate" \notin Busy
  BY DEF Busy
<1>1. CASE VerifyAwaiting(p)
  <2> DEFINE new == << Step("escalate") >>
  <2>1. Node(p, "verify_awaiting", IF Waiting(row) THEN new ELSE << >>)
        /\ Doing(p, "verify_awaiting")
    BY <1>1 DEF VerifyAwaiting, Node, Waiting
  <2>2. Fresh(new)
    BY FreshKinds DEF PlainSteps
  <2>3. DOMAIN new = {1} /\ new[1].do = "escalate"
    BY DEF Step
  <2> HIDE DEF new
  <2>4. prog[p][1].do = "verify_awaiting"
    BY <2>1, CurrentStep
  <2>5. Suits(p, new)
    <3>1. Turns(prog[p][1], new) /\ ~Opener(new[1])
      BY <2>3, <2>4 DEF Turns, Token, Answers, Ahead, Owns, Receives, MovesTo, MessageSteps,
                        Opener, OpensGate
    <3> QED BY <2>1, <3>1, TurnSuits
  <2>6. \E i \in DOMAIN new : Ahead(new[i])
    BY <2>3 DEF Ahead
  <2>7. CASE Waiting(row)
    BY <1>0, <2>1, <2>2, <2>5, <2>6, <2>7, AsideThen DEF Node
  <2>8. CASE ~Waiting(row)
    BY <1>0, <2>1, <2>8, PlainEmpty, PlainSuits, AsideThen DEF Node
  <2> QED BY <2>7, <2>8
<1>2. CASE Escalate(p)
  <2> DEFINE new == Operation(Move("ESCALATED", FALSE)) \o << Step("open_gate2") >>
  <2>1. Node(p, "escalate", new) /\ Doing(p, "escalate")
    BY <1>2 DEF Escalate, Node
  <2>2. prog[p][1].do = "escalate"
    BY <2>1, CurrentStep
  <2>3. Fresh(new) /\ Turns(prog[p][1], new) /\ ~Opener(new[1])
        /\ 1 \in DOMAIN new /\ Ahead(new[1])
    BY <2>2, FreshEscalation, EscalationTurns
  <2> HIDE DEF new
  <2>4. Suits(p, new)
    BY <2>1, <2>3, TurnSuits
  <2> QED BY <1>0, <2>1, <2>3, <2>4, AsideThen DEF Node
<1> QED BY <1>1, <1>2

\* What a step may be, apart from the sweep's first and the clock's.
LEMMA AsideForms ==
  ASSUME WorkflowInv, NEW p \in Procs, HandlerStep(p)
  PROVE  \/ Aside(p)
         \/ CancelTimers(p)
         \/ \E kind \in {"write", "attempt"} : CommitCase(p, kind)
         \/ WriteRaises(p)
         \/ ArmTimers(p)
         \/ MarkFired(p)
<1>1. HumanAction(p) \/ GateStep(p) => Aside(p)
  BY AsideHumanAction, AsideGateStep
<1>2. (\E m \in Replies : HandleResponse(p, m)) \/ SendClarificationRequest(p)
        \/ CloseResolvedCase(p) => Aside(p)
  BY AsideAgentCall
<1>3. EngineStep(p) => \/ CancelTimers(p) \/ CommitCase(p, "write")
                       \/ WriteRaises(p) \/ ArmTimers(p)
  BY DEF EngineStep, WriteCase
<1>4. AgentStep(p, AnyJudge) => Aside(p) \/ CommitCase(p, "attempt") \/ MarkFired(p)
  BY AnyJudgeIsJudge, AsideReplyNode, AsideOtherNode, AsideExpiryNode
     DEF AgentStep, Attempt
<1> QED BY <1>1, <1>2, <1>3, <1>4 DEF HandlerStep, StepOf

----------------------------------------------------------------------------
(* Handlers stay whole *)

WholeHandlers ==
  \A p \in Procs : Whole(prog[p]) /\ \A i \in DOMAIN prog[p] : ArmsWindow(prog[p][i])

\* One step on in a handler, or out of it.
Goes(p) ==
  /\ \A q \in Procs \ {p} : prog'[q] = prog[q]
  /\ prog[p] # << >>
  /\ prog'[p] = Tail(prog[p])
Stops(p) == (\A q \in Procs \ {p} : prog'[q] = prog[q]) /\ prog'[p] = << >>

LEMMA ThenGoes ==
  ASSUME WorkflowInv, NEW p \in Procs, NEW kind, Doing(p, kind), Then(p, << >>)
  PROVE  Goes(p)
<1>1. prog \in [Procs -> Seq(HandlerSteps)] /\ prog[p] # << >>
  BY CurrentStep DEF WorkflowInv, Types
<1>2. Tail(prog[p]) \in Seq(HandlerSteps)
  BY <1>1, RestOfHandler
<1>3. << >> \o Tail(prog[p]) = Tail(prog[p])
  BY <1>2
<1> QED BY <1>1, <1>3 DEF Then, Goes

LEMMA RaiseStops ==
  ASSUME WorkflowInv, NEW p \in Procs, Raise(p)
  PROVE  Stops(p)
BY DEF WorkflowInv, Types, Raise, Stops

\* How the steps that are not aside move their handler.
LEMMA HandlersMove ==
  ASSUME WorkflowInv, NEW p \in Procs
  PROVE  /\ CancelTimers(p) => Goes(p) \/ (Stops(p) /\ timers' = timers)
         /\ \A kind \in {"write", "attempt"} : CommitCase(p, kind) => Goes(p)
         /\ WriteRaises(p) => Stops(p)
         /\ ArmTimers(p) => Goes(p)
         /\ MarkFired(p) => Goes(p)
<1>1. CancelTimers(p) => Goes(p) \/ (Stops(p) /\ timers' = timers)
  BY ThenGoes, RaiseStops DEF CancelTimers
<1>2. \A kind \in {"write", "attempt"} : CommitCase(p, kind) => Goes(p)
  BY ThenGoes DEF CommitCase
<1>3. WriteRaises(p) => Stops(p)
  BY RaiseStops DEF WriteRaises
<1>4. ArmTimers(p) => Goes(p)
  BY ThenGoes DEF ArmTimers
<1>5. MarkFired(p) => Goes(p)
  BY ThenGoes DEF MarkFired
<1> QED BY <1>1, <1>2, <1>3, <1>4, <1>5

\* What the next step of a handler is, by what the last one was.
LEMMA GoesOn ==
  ASSUME WorkflowInv, WholeHandlers, NEW p \in Procs, Goes(p)
  PROVE  /\ Whole(prog'[p])
         /\ prog'[p] # << >> => Bound(prog[p][1], prog'[p][1])
         /\ NeedsNext(prog[p][1]) => prog'[p] # << >>
         /\ ~NeedsNext(prog[p][1]) => Starts(prog'[p])
         /\ \A i \in DOMAIN prog'[p] : i + 1 \in DOMAIN prog[p] \ {1}
                                       /\ prog'[p][i] = prog[p][i + 1]
<1>1. prog[p] \in Seq(HandlerSteps) /\ prog[p] # << >> /\ Whole(prog[p])
  BY DEF WorkflowInv, Types, WholeHandlers, Goes
<1> QED BY <1>1, WholeTail, RestOfHandler DEF Goes

LEMMA SweepStarts ==
  ASSUME NEW p \in Procs, WorkflowInv, Sweep(p)
  PROVE  /\ Idle(p) /\ \A q \in Procs \ {p} : prog'[q] = prog[q] /\ snap'[q] = snap[q]
         /\ Len(prog'[p]) = 2 /\ DOMAIN prog'[p] = 1 .. 2
         /\ prog'[p][1] = Step("verify_awaiting") /\ prog'[p][2] = Step("mark_fired")
         /\ row' = row /\ timers' = timers
<1>1. prog \in [Procs -> Seq(HandlerSteps)] /\ snap \in [Procs -> Case]
  BY DEF WorkflowInv, Types
<1> QED BY <1>1 DEF Sweep, HandleSlaExpiry, Call

LEMMA WholeAside ==
  ASSUME WorkflowInv, WholeHandlers, NEW p \in Procs, Aside(p)
  PROVE  /\ WholeHandlers'
         /\ Starts(prog'[p])
<1>1. PICK new \in Seq(HandlerSteps), rest \in Seq(HandlerSteps) :
        /\ Fresh(new) /\ prog'[p] = new \o rest
        /\ rest # << >> => prog[p] # << >> /\ rest = Tail(prog[p])
  BY DEF Aside
<1>2. rest # << >> => Whole(rest) /\ Starts(rest)
                      /\ \A i \in DOMAIN rest : ArmsWindow(rest[i])
  <2> SUFFICES ASSUME rest # << >>
               PROVE  Whole(rest) /\ Starts(rest)
                      /\ \A i \in DOMAIN rest : ArmsWindow(rest[i])
    OBVIOUS
  <2>1. prog[p] # << >> /\ rest = Tail(prog[p]) /\ prog[p] \in Seq(HandlerSteps)
        /\ Whole(prog[p])
    BY <1>1 DEF WholeHandlers, WorkflowInv, Types
  <2>2. ~NeedsNext(prog[p][1])
    BY <2>1 DEF Aside, Busy, NeedsNext, Opens, BeginsWait, MovesTo, Clarifies, Keeps
  <2>3. Whole(rest) /\ Starts(rest)
    BY <2>1, <2>2, WholeTail
  <2>4. \A i \in DOMAIN rest : ArmsWindow(rest[i])
    BY <2>1, RestOfHandler DEF WholeHandlers
  <2> QED BY <2>3, <2>4
<1>3. Whole(rest) /\ Starts(rest) /\ \A i \in DOMAIN rest : ArmsWindow(rest[i])
  BY <1>2, WholeEmpty
<1>4. Whole(prog'[p]) /\ Starts(prog'[p])
  BY <1>1, <1>3, WholeJoin
<1>5. ASSUME NEW i \in DOMAIN prog'[p]
      PROVE  ArmsWindow(prog'[p][i])
  <2>1. \A j \in DOMAIN new : ArmsWindow(new[j])
    BY <1>1 DEF Fresh, Unmarked
  <2>2. \/ i \in DOMAIN new /\ prog'[p][i] = new[i]
        \/ i - Len(new) \in DOMAIN rest /\ prog'[p][i] = rest[i - Len(new)]
    BY <1>1
  <2> QED BY <1>3, <2>1, <2>2
<1>6. \A q \in Procs \ {p} : prog'[q] = prog[q]
  BY DEF Aside
<1> QED BY <1>4, <1>5, <1>6 DEF WholeHandlers

LEMMA WholeStays ==
  ASSUME WorkflowInv, WholeHandlers, NEW p \in Procs, Sweep(p) \/ HandlerStep(p)
  PROVE  WholeHandlers'
<1>1. CASE Goes(p)
  BY <1>1, GoesOn DEF WholeHandlers, Goes
<1>2. CASE Stops(p)
  BY <1>2, WholeEmpty DEF WholeHandlers, Stops
<1>3. CASE Aside(p)
  BY <1>3, WholeAside
<1>4. CASE Sweep(p)
  <2>1. /\ \A q \in Procs \ {p} : prog'[q] = prog[q]
        /\ Len(prog'[p]) = 2 /\ DOMAIN prog'[p] = 1 .. 2
        /\ prog'[p][1].do = "verify_awaiting" /\ prog'[p][2].do = "mark_fired"
    BY <1>4, SweepStarts DEF Step
  <2>2. /\ ~NeedsNext(prog'[p][1]) /\ ~FollowsOn(prog'[p][2]) /\ ~NeedsNext(prog'[p][2])
        /\ \A i \in DOMAIN prog'[p] : ArmsWindow(prog'[p][i])
    BY <2>1 DEF NeedsNext, FollowsOn, Decides, Opens, BeginsWait, MovesTo, Clarifies, Keeps,
       ArmsWindow
  <2>3. Bound(prog'[p][1], prog'[p][2])
    BY <2>1, <2>2, BoundFree
  <2>4. Whole(prog'[p])
    BY <2>1, <2>2, <2>3, WholePair
  <2> QED BY <2>1, <2>2, <2>4 DEF WholeHandlers
<1> QED BY <1>1, <1>2, <1>3, <1>4, AsideForms, HandlersMove

----------------------------------------------------------------------------
(* Open gates are watched *)

Watched(c) == UNION {GateTimers(c.gates[i].type) : i \in PendingGates(c, GateTypes)}

\* Between the cancellation of the timers and the decision, and between the opening of a
\* gate and the arming of its timers, no timer of a gate is armed.
Gap(s) == Decides(s) \/ (s.do = "arm" /\ s.kinds # Response)
InGap(p) == prog[p] # << >> /\ Gap(prog[p][1])

\* Nobody is in such a gap with a copy of the case that went stale.
Steady ==
  /\ ~disturbed
  /\ row.status # "CANCELLED"
  /\ \A p \in Procs : InGap(p) => snap[p].version = row.version

GatesAreWatched ==
  Steady =>
     /\ (\E p \in Procs : InGap(p)) => timers \ Response = {}
     /\ (\A p \in Procs : ~InGap(p)) => timers \ Response = Watched(row)
     /\ \A p \in Procs : InGap(p) /\ At(p, "arm") => prog[p][1].kinds = Watched(row)

LEMMA GateTimersApart ==
  /\ \A g : "COUNTERPARTY_RESPONSE" \notin GateTimers(g)
  /\ \A kinds \in Windows : kinds # Response => "COUNTERPARTY_RESPONSE" \notin kinds
  /\ TimerKinds \ AllGateTimers = Response
<1>1. \A g : "COUNTERPARTY_RESPONSE" \notin GateTimers(g)
  BY DEF GateTimers
<1>2. \A kinds \in Windows : kinds # Response => "COUNTERPARTY_RESPONSE" \notin kinds
  BY <1>1 DEF Windows
<1>3. TimerKinds \ AllGateTimers = Response
  <2>1. AllGateTimers = GateTimers("PRE_SEND_REVIEW") \cup GateTimers("DISPUTE_ESCALATION")
    BY DEF AllGateTimers, GateTypes
  <2>2. "COUNTERPARTY_RESPONSE" \notin AllGateTimers
    BY <1>1, <2>1
  <2> QED BY <2>2 DEF TimerKinds, Response
<1> QED BY <1>1, <1>2, <1>3

LEMMA WatchedNone ==
  ASSUME NEW c, PendingGates(c, GateTypes) = {}
  PROVE  Watched(c) = {}
BY DEF Watched

LEMMA WatchedSame ==
  ASSUME NEW c, NEW d, d.gates = c.gates
  PROVE  Watched(d) = Watched(c)
BY DEF Watched, PendingGates

LEMMA WatchedOpened ==
  ASSUME NEW c \in Case, NEW d, NEW gate \in GateTypes, PendingGates(c, GateTypes) = {},
         d.gates = Append(c.gates, [type |-> gate, status |-> "pending"])
  PROVE  Watched(d) = GateTimers(gate)
<1> DEFINE n == Len(c.gates)
<1>1. c.gates \in Seq(GateRecord) /\ n \in Nat /\ DOMAIN c.gates = 1 .. n
  BY DEF Case
<1>2. /\ DOMAIN d.gates = 1 .. n + 1
      /\ d.gates[n + 1] = [type |-> gate, status |-> "pending"]
      /\ \A i \in 1 .. n : d.gates[i] = c.gates[i]
  BY <1>1
<1>3. PendingGates(d, GateTypes) = {n + 1}
  <2>1. \A i \in 1 .. n : ~(d.gates[i].status = "pending" /\ d.gates[i].type \in GateTypes)
    BY <1>1, <1>2 DEF PendingGates
  <2>2. d.gates[n + 1].status = "pending" /\ d.gates[n + 1].type \in GateTypes
    BY <1>2
  <2>3. DOMAIN d.gates = (1 .. n) \cup {n + 1} /\ n + 1 \notin 1 .. n
    BY <1>1, <1>2
  <2> HIDE DEF n
  <2> QED BY <1>2, <2>1, <2>2, <2>3 DEF PendingGates
<1>4. {GateTimers(d.gates[i].type) : i \in PendingGates(d, GateTypes)} = {GateTimers(gate)}
  BY <1>2, <1>3
<1> QED BY <1>4 DEF Watched

\* Nothing that concerns the gates happens.
LEMMA WatchedOn ==
  ASSUME GatesAreWatched, ~disturbed, NEW p \in Procs, ~InGap(p), ~InGap(p)',
         row' = row, timers' \ Response = timers \ Response,
         \A q \in Procs \ {p} : prog'[q] = prog[q] /\ snap'[q] = snap[q]
  PROVE  GatesAreWatched'
<1>1. \A q \in Procs : InGap(q)' <=> InGap(q)
  BY DEF InGap
<1>2. \A q \in Procs : InGap(q) => q # p
  OBVIOUS
<1>3. \A q \in Procs : InGap(q) => snap'[q] = snap[q] /\ prog'[q] = prog[q]
  BY <1>2
<1>4. Watched(row)' = Watched(row)
  BY WatchedSame
<1>5. \A q \in Procs : InGap(q) => (At(q, "arm")' <=> At(q, "arm"))
  BY <1>3 DEF At
<1> QED BY <1>1, <1>3, <1>4, <1>5 DEF GatesAreWatched, Steady

LEMMA StartsOutside ==
  ASSUME NEW p \in Procs, Starts(prog[p])
  PROVE  ~InGap(p)
BY DEF Starts, InGap, Gap, FollowsOn

LEMMA NextOutside ==
  ASSUME WorkflowInv, WholeHandlers, NEW p \in Procs, Goes(p), ~NeedsNext(prog[p][1])
  PROVE  ~InGap(p)'
BY GoesOn DEF Starts, InGap, Gap, FollowsOn

LEMMA WatchedAside ==
  ASSUME WorkflowInv, WholeHandlers, GatesAreWatched, ~disturbed, NEW p \in Procs,
         Aside(p) \/ Sweep(p)
  PROVE  GatesAreWatched'
<1>1. /\ row' = row /\ timers' = timers
      /\ \A q \in Procs \ {p} : prog'[q] = prog[q] /\ snap'[q] = snap[q]
  BY SweepStarts DEF Aside
<1>2. ~InGap(p)
  BY DEF Aside, Busy, InGap, Gap, Decides, Sweep, HandleSlaExpiry, Call, Idle
<1>3. ~InGap(p)'
  <2>1. CASE Aside(p)
    BY <2>1, WholeAside DEF Starts, InGap, Gap, FollowsOn
  <2>2. CASE Sweep(p)
    <3>1. prog'[p][1].do = "verify_awaiting"
      BY <2>2, SweepStarts DEF Step
    <3> QED BY <3>1 DEF InGap, Gap, Decides
  <2> QED BY <2>1, <2>2
<1> QED BY <1>1, <1>2, <1>3, WatchedOn

LEMMA WatchedCancel ==
  ASSUME WorkflowInv, WholeHandlers, GatesAreWatched, ~disturbed, NEW p \in Procs,
         CancelTimers(p)
  PROVE  GatesAreWatched'
<1> DEFINE k == Head(prog[p]).call
<1>1. /\ prog[p] # << >> /\ prog[p][1] = Head(prog[p]) /\ prog[p][1].do = "cancel"
      /\ row' = row /\ snap' = snap
  BY CurrentStep DEF CancelTimers
<1>2. ~InGap(p)
  BY <1>1 DEF InGap, Gap, Decides
<1>3. CASE MayCancel(snap[p], k)
  <2>1. Goes(p) /\ timers' = timers \ CancelledTimers(k)
    BY <1>3, ThenGoes DEF CancelTimers
  <2>2. timers' \ Response = {}
    <3>1. timers \subseteq TimerKinds
      BY DEF WorkflowInv, Types
    <3> QED BY <2>1, <3>1, GateTimersApart DEF CancelledTimers
  <2>3. prog'[p] # << >> /\ Decides(prog'[p][1])
    BY <1>1, <2>1, GoesOn DEF NeedsNext, Bound
  <2>4. InGap(p)' /\ ~At(p, "arm")'
    BY <2>3 DEF InGap, Gap, Decides, At
  <2>5. \A q \in Procs \ {p} : /\ InGap(q)' <=> InGap(q)
                               /\ At(q, "arm")' <=> At(q, "arm")
                               /\ prog'[q] = prog[q]
    BY <2>1 DEF Goes, InGap, At
  <2>6. Watched(row)' = Watched(row)
    BY <1>1, WatchedSame
  <2> QED BY <1>1, <1>2, <2>2, <2>4, <2>5, <2>6 DEF GatesAreWatched, Steady
<1>4. CASE ~MayCancel(snap[p], k)
  <2>1. Stops(p) /\ timers' = timers
    BY <1>4, RaiseStops DEF CancelTimers
  <2>2. ~InGap(p)'
    BY <2>1 DEF Stops, InGap
  <2> QED BY <1>1, <1>2, <2>1, <2>2, WatchedOn DEF Stops
<1> QED BY <1>3, <1>4

\* A refused decision leaves the gate without its timers: that is a crossing.
LEMMA WatchedRaise ==
  ASSUME WorkflowInv, WholeHandlers, GatesAreWatched, ~disturbed, NEW p \in Procs,
         WriteRaises(p), ~Crosses(p)
  PROVE  GatesAreWatched'
<1>1. /\ prog[p] # << >> /\ prog[p][1] = Head(prog[p]) /\ prog[p][1].do = "write"
      /\ row' = row /\ snap' = snap /\ timers' = timers
  BY CurrentStep DEF WriteRaises
<1>2. ~InGap(p)
  BY <1>1 DEF InGap, Gap, Decides, Crosses
<1>3. Stops(p)
  BY HandlersMove
<1>4. ~InGap(p)'
  BY <1>3 DEF Stops, InGap
<1> QED BY <1>1, <1>2, <1>3, <1>4, WatchedOn DEF Stops

LEMMA WatchedArm ==
  ASSUME WorkflowInv, WholeHandlers, GatesAreWatched, ~disturbed, NEW p \in Procs,
         ArmTimers(p), ~Crosses(p)
  PROVE  GatesAreWatched'
<1>1. /\ prog[p] # << >> /\ prog[p][1] = Head(prog[p]) /\ prog[p][1].do = "arm" /\ Doing(p, "arm")
      /\ row' = row /\ snap' = snap /\ timers' = timers \cup prog[p][1].kinds
  BY CurrentStep DEF ArmTimers
<1>2. Goes(p) /\ ~NeedsNext(prog[p][1])
  BY <1>1, HandlersMove DEF NeedsNext, Opens, BeginsWait, MovesTo, Clarifies, Keeps
<1>3. ~InGap(p)'
  BY <1>2, NextOutside
<1>4. prog[p][1].kinds \in Windows
  <2>1. 1 \in DOMAIN prog[p]
    BY <1>1, RestOfHandler
  <2> QED BY <1>1, <2>1 DEF WholeHandlers, ArmsWindow
<1>5. CASE prog[p][1].kinds = Response
  <2>1. ~InGap(p) /\ timers' \ Response = timers \ Response
    BY <1>1, <1>5 DEF InGap, Gap, Decides
  <2> QED BY <1>1, <1>2, <1>3, <2>1, WatchedOn DEF Goes
<1>6. CASE prog[p][1].kinds # Response
  <2>1. InGap(p) /\ At(p, "arm") /\ ~Arms(p)
    BY <1>1, <1>4, <1>6, GateTimersApart DEF InGap, Gap, At, Arms
  <2>2. snap[p].version = row.version /\ \A q \in Procs \ {p} : Idle(q)
    BY <1>1, <2>1 DEF Crosses
  <2>3. \A q \in Procs \ {p} : ~InGap(q) /\ ~InGap(q)'
    BY <1>2, <2>2 DEF Goes, Idle, InGap
  <2>4. row.status # "CANCELLED" => timers \ Response = {} /\ prog[p][1].kinds = Watched(row)
    BY <2>1, <2>2, <2>3 DEF GatesAreWatched, Steady
  <2>5. "COUNTERPARTY_RESPONSE" \notin prog[p][1].kinds
    BY <1>4, <1>6, GateTimersApart
  <2>6. row.status # "CANCELLED" => timers' \ Response = Watched(row)
    BY <1>1, <2>4, <2>5 DEF Response
  <2>7. Watched(row)' = Watched(row)
    BY <1>1, WatchedSame
  <2> QED BY <1>1, <1>3, <2>3, <2>6, <2>7 DEF GatesAreWatched, Steady
<1> QED BY <1>5, <1>6

LEMMA WatchedMark ==
  ASSUME WorkflowInv, WholeHandlers, GatesAreWatched, ~disturbed, NEW p \in Procs,
         MarkFired(p)
  PROVE  GatesAreWatched'
<1>1. /\ prog[p] # << >> /\ prog[p][1].do = "mark_fired"
      /\ row' = row /\ snap' = snap /\ timers' = timers \ {"COUNTERPARTY_RESPONSE"}
  BY CurrentStep DEF MarkFired
<1>2. Goes(p) /\ ~NeedsNext(prog[p][1])
  BY <1>1, HandlersMove DEF NeedsNext, Opens, BeginsWait, MovesTo, Clarifies, Keeps
<1>3. ~InGap(p)'
  BY <1>2, NextOutside
<1>4. ~InGap(p) /\ timers' \ Response = timers \ Response
  BY <1>1 DEF InGap, Gap, Decides, Response
<1> QED BY <1>1, <1>2, <1>3, <1>4, WatchedOn DEF Goes

LEMMA CommitKills ==
  ASSUME NEW c \in Case, NEW k \in Calls, Allowed(c, k)
  PROVE  /\ c.status = "CANCELLED" => Result(c, k).status = "CANCELLED"
         /\ k.op = "kill" => Result(c, k).status = "CANCELLED"
BY TerminalStep, ResultFields DEF TerminalStatuses

LEMMA AttemptedCalls ==
  ASSUME WorkflowInv, NEW p \in Procs, CommitCase(p, "attempt")
  PROVE  prog[p][1].call \in Attempts
<1>1. Head(prog[p]) \in HandlerSteps /\ Head(prog[p]) = prog[p][1]
      /\ Head(prog[p]).do = "attempt"
  BY CurrentStep DEF CommitCase
<1> QED BY <1>1 DEF HandlerSteps, MessageSteps, PlainSteps

\* After a commit only the handler that made it can be current.
LEMMA OthersAreStale ==
  ASSUME WorkflowInv, NEW p \in Procs, NEW kind \in {"write", "attempt"}, CommitCase(p, kind),
         Steady'
  PROVE  /\ \A q \in Procs \ {p} : ~InGap(q) /\ ~InGap(q)'
         /\ snap[p].version = row.version /\ row.status # "CANCELLED"
<1>1. /\ snap[p] = row /\ row \in Case /\ Head(prog[p]).call \in Calls
      /\ Allowed(row, Head(prog[p]).call) /\ row' = Result(row, Head(prog[p]).call)
      /\ row'.version = row.version + 1
      /\ snap' = [snap EXCEPT ![p] = row']
      /\ prog' = [prog EXCEPT ![p] = Tail(prog[p])]
  BY Committed
<1>2. snap \in [Procs -> Case] /\ prog \in [Procs -> Seq(HandlerSteps)]
      /\ \A q \in Procs : snap[q].version <= row.version
  BY DEF WorkflowInv, Types, CopiesAgree
<1>3. row.status # "CANCELLED"
  BY <1>1, CommitKills DEF Steady
<1>4. ASSUME NEW q \in Procs \ {p}
      PROVE  ~InGap(q) /\ ~InGap(q)'
  <2>1. snap'[q] = snap[q] /\ prog'[q] = prog[q]
    BY <1>1, <1>2
  <2>2. snap[q].version \in Nat /\ row.version \in Nat
    BY <1>1, <1>2 DEF Case
  <2>3. snap'[q].version # row'.version
    BY <1>1, <1>2, <2>1, <2>2
  <2>4. ~InGap(q)'
    BY <2>3 DEF Steady
  <2> QED BY <2>1, <2>4 DEF InGap
<1> QED BY <1>1, <1>3, <1>4

LEMMA WatchedCommit ==
  ASSUME WorkflowInv, WholeHandlers, GatesAreWatched, ~disturbed, NEW p \in Procs,
         NEW kind \in {"write", "attempt"}, CommitCase(p, kind)
  PROVE  GatesAreWatched'
<1> SUFFICES ASSUME Steady'
             PROVE  /\ (\E q \in Procs : InGap(q)') => timers' \ Response = {}
                    /\ (\A q \in Procs : ~InGap(q)') => timers' \ Response = Watched(row')
                    /\ \A q \in Procs : InGap(q)' /\ At(q, "arm")' =>
                         prog'[q][1].kinds = Watched(row')
  BY DEF GatesAreWatched, Watched
<1> DEFINE s == prog[p][1]
           k == s.call
<1>1. /\ s.do = kind /\ row \in Case /\ Orderly(row)
      /\ k \in HandlerCalls \cup Attempts /\ k \in Calls /\ Allowed(row, k)
      /\ kind = "write" => k \in HandlerCalls
      /\ k \in Attempts => row.status = "AGREED"
      /\ k.op = "openGate" /\ k.target = "none" => MayOpen(row, k.gate)
      /\ row' = Result(row, k)
      /\ timers' = timers
  <2>1. s = Head(prog[p])
    BY CurrentStep DEF CommitCase
  <2> HIDE DEF s
  <2> QED BY <2>1, Committed DEF Outside
<1>2. /\ \A q \in Procs \ {p} : ~InGap(q) /\ ~InGap(q)'
      /\ snap[p].version = row.version /\ row.status # "CANCELLED" /\ row'.status # "CANCELLED"
  BY OthersAreStale DEF Steady
<1>3. Goes(p) /\ prog[p] # << >>
  BY HandlersMove DEF Goes
<1>4. Steady
  BY <1>2 DEF Steady
<1>5. kind = "attempt" => k \in Attempts
  BY AttemptedCalls
<1>6. k \in Attempts => k.op = "transition"
  BY AttemptCalls
<1> HIDE DEF s
<1>7. CASE k.op = "closeGate"
  <2>1. kind = "write" /\ k \in HandlerCalls
    BY <1>1, <1>5, <1>6, <1>7
  <2>2. InGap(p)
    BY <1>1, <1>3, <1>7, <2>1 DEF InGap, Gap, Decides, CancelsTimers, s
  <2>3. timers' \ Response = {}
    BY <1>1, <1>4, <2>2 DEF GatesAreWatched
  <2>4. Watched(row') = {}
    BY <1>1, <1>7, <2>1, ClosingKeepsOrder, WatchedNone
  <2>5. ~InGap(p)'
    <3>1. ~NeedsNext(s) \/ Clarifies(s)
      BY <1>1, <1>7, <2>1 DEF NeedsNext, Opens, BeginsWait, MovesTo, Keeps
    <3>2. CASE ~NeedsNext(s)
      BY <1>3, <3>2, NextOutside DEF s
    <3>3. CASE Clarifies(s)
      <4>1. prog'[p] # << >> => Keeps(prog'[p][1])
        BY <1>3, <3>3, GoesOn DEF Bound, s
      <4> QED BY <4>1 DEF InGap, Gap, Keeps, Decides, CancelsTimers
    <3> QED BY <3>1, <3>2, <3>3
  <2> QED BY <1>2, <2>3, <2>4, <2>5
<1>8. CASE k.op = "kill"
  <2>1. FALSE
    BY <1>1, <1>2, <1>8, CommitKills
  <2> QED BY <2>1
<1>9. CASE k.op \notin {"closeGate", "kill"}
  <2>1. ~InGap(p)
    <3>1. ~Decides(s) /\ s.do # "arm"
      BY <1>1, <1>9 DEF Decides, CancelsTimers
    <3> QED BY <3>1 DEF InGap, Gap, s
  <2>2. timers \ Response = Watched(row)
    BY <1>2, <1>4, <2>1 DEF GatesAreWatched
  <2>3. CASE k.op = "openGate"
    <3>1. kind = "write" /\ k \in HandlerCalls
      BY <1>1, <1>5, <1>6, <2>3
    <3>2. PendingGates(row, GateTypes) = {}
      <4>1. k.target # "none" => row.status = "COMMS_DRAFTED"
        BY <1>1, <2>3, <3>1, OpeningKeepsOrder
      <4>2. row.status = "COMMS_DRAFTED" => PendingGates(row, GateTypes) = {}
        BY <1>1 DEF Orderly, PendingGates
      <4> QED BY <1>1, <2>3, <4>1, <4>2 DEF MayOpen
    <3>3. k.gate \in GateTypes
      BY <2>3, <3>1, CallKinds DEF HandlerCalls, OpenGateCalls
    <3>4. row'.gates = Append(row.gates, [type |-> k.gate, status |-> "pending"])
      BY <1>1, <2>3, ResultFields
    <3>5. Watched(row') = GateTimers(k.gate)
      BY <1>1, <3>2, <3>3, <3>4, WatchedOpened
    <3>6. timers' \ Response = {}
      BY <1>1, <2>2, <3>2, WatchedNone
    <3>7. prog'[p] # << >> /\ ArmsKinds(prog'[p][1], GateTimers(k.gate))
      <4>1. Opens(s) /\ NeedsNext(s)
        BY <1>1, <2>3, <3>1 DEF Opens, NeedsNext
      <4> QED BY <1>3, <4>1, GoesOn DEF Bound, s
    <3>8. InGap(p)' /\ prog'[p][1].kinds = Watched(row')
      <4>1. GateTimers(k.gate) # Response
        BY GateTimersApart DEF Response
      <4> QED BY <3>5, <3>7, <4>1 DEF InGap, Gap, ArmsKinds
    <3> QED BY <1>2, <3>6, <3>8
  <2>4. CASE k.op # "openGate"
    <3>1. Watched(row') = Watched(row)
      BY <1>1, <1>9, <2>4, ResultFields, WatchedSame
    <3>2. ~InGap(p)'
      <4>1. NeedsNext(s) => MovesTo(s, "AWAITING_RESPONSE") \/ Keeps(s)
        BY <1>1, <1>9, <2>4 DEF NeedsNext, Opens, BeginsWait, Clarifies
      <4>2. CASE ~NeedsNext(s)
        BY <1>3, <4>2, NextOutside DEF s
      <4>3. CASE MovesTo(s, "AWAITING_RESPONSE") \/ Keeps(s)
        <5>1. prog'[p] # << >> => ArmsKinds(prog'[p][1], Response)
          BY <1>3, <4>3, GoesOn DEF Bound, s
        <5> QED BY <5>1 DEF InGap, Gap, ArmsKinds, Decides
      <4> QED BY <4>1, <4>2, <4>3
    <3> QED BY <1>1, <1>2, <2>2, <3>1, <3>2
  <2> QED BY <2>3, <2>4
<1> QED BY <1>7, <1>8, <1>9

LEMMA WatchedStays ==
  ASSUME WorkflowInv, WholeHandlers, GatesAreWatched, ~disturbed, NEW p \in Procs,
         TimedStep(p)
  PROVE  GatesAreWatched'
<1>1. CASE Crosses(p)
  BY <1>1 DEF TimedStep, GatesAreWatched, Steady
<1>2. CASE ~Crosses(p)
  <2>1. Sweep(p) => GatesAreWatched'
    BY WatchedAside
  <2>2. HandlerStep(p) => GatesAreWatched'
    BY <1>2, AsideForms, WatchedAside, WatchedCancel, WatchedCommit, WatchedRaise, WatchedArm,
       WatchedMark
  <2> QED BY <2>1, <2>2 DEF TimedStep
<1> QED BY <1>1, <1>2

----------------------------------------------------------------------------
(* Waits end in time *)

\* p has begun a wait and not armed its window yet; p is about to kill the case.
Begun(p) == prog[p] # << >> /\ (Keeps(prog[p][1]) \/ ArmsKinds(prog[p][1], Response))
Killing(p) == prog[p] # << >> /\ prog[p][1].do = "write" /\ prog[p][1].call.op = "kill"

Marks(p) == \E i \in DOMAIN prog[p] : prog[p][i].do = "mark_fired"
HasAhead(p) == \E i \in DOMAIN prog[p] : Ahead(prog[p][i])

ClockTypes == now \in Nat /\ since \in Nat /\ due \in Nat /\ since <= now

JustBegun == \A p \in Procs : Begun(p) => since = now

\* A sweep does not take the timer off a case that waits, unless it escalates it first.
SweptInTime ==
  ~disturbed => \A p \in Procs : Marks(p) /\ Waiting(row) => HasAhead(p)

WindowArmed ==
  ~disturbed /\ Waiting(row) =>
    /\ now <= since + ResponseWindow
    /\ \/ "COUNTERPARTY_RESPONSE" \in timers /\ due <= since + ResponseWindow
       \/ \E p \in Procs : Begun(p) \/ Killing(p)
    /\ due >= since + ResponseWindow \/ \E p \in Procs : Begun(p)

LEMMA OtherHandlers ==
  ASSUME NEW q, prog'[q] = prog[q]
  PROVE  /\ Begun(q)' <=> Begun(q)
         /\ Killing(q)' <=> Killing(q)
         /\ Marks(q)' <=> Marks(q)
         /\ HasAhead(q)' <=> HasAhead(q)
BY DEF Begun, Killing, Marks, HasAhead

LEMMA OthersKept ==
  ASSUME WorkflowInv, NEW p \in Procs, Sweep(p) \/ HandlerStep(p)
  PROVE  \A q \in Procs \ {p} : prog'[q] = prog[q]
BY AsideForms, HandlersMove, SweepStarts DEF Aside, Goes, Stops

\* A transition to a wait is a change of the status.
LEMMA WaitsAreEntered ==
  ASSUME NEW c \in Case, NEW target \in AwaitingStatuses, NEW ctx, MayTransition(c, target, ctx)
  PROVE  c.status # target
<1>1. c.status \in Statuses /\ c.status \notin TerminalStatuses
      /\ target \in Transitions[c.status] \cup {"CANCELLED"}
  BY DEF MayTransition, IllegalTransition, AllowedTargets, Case
<1>2. c.status \in Statuses \ {"CLOSED", "CANCELLED"}
  BY <1>1 DEF TerminalStatuses
<1> QED BY <1>1, <1>2 DEF Transitions, Statuses, AwaitingStatuses

LEMMA CommitWaits ==
  ASSUME WorkflowInv, WholeHandlers, NEW p \in Procs, NEW kind \in {"write", "attempt"},
         CommitCase(p, kind)
  PROVE  LET s == prog[p][1]
         IN  /\ prog[p] # << >> /\ s.do = kind
             /\ BeginsWait(s) => Waiting(row') /\ row'.status # row.status
             /\ Waiting(row') /\ row'.status # row.status => BeginsWait(s)
             /\ Killing(p) \/ MovesTo(s, "ESCALATED") => ~Waiting(row')
             /\ BeginsWait(s) \/ Keeps(s) => Begun(p)'
             /\ timers' = timers
<1> DEFINE s == prog[p][1]
           k == s.call
<1>1. /\ s.do = kind /\ row \in Case
      /\ k \in HandlerCalls \cup Attempts /\ k \in Calls /\ Allowed(row, k)
      /\ kind = "write" => k \in HandlerCalls
      /\ row' = Result(row, k) /\ timers' = timers
  <2>1. s = Head(prog[p])
    BY CurrentStep DEF CommitCase
  <2> HIDE DEF s
  <2> QED BY <2>1, Committed DEF Outside
<1>0. kind = "attempt" => k \in Attempts
  BY AttemptedCalls
<1>2. Goes(p) /\ prog[p] # << >>
  BY HandlersMove DEF Goes
<1> HIDE DEF s
<1>3. ASSUME BeginsWait(s)
      PROVE  Waiting(row') /\ row'.status # row.status
  <2>1. s.do = "write" /\ k.target \in AwaitingStatuses /\ k.op \in {"transition", "closeGate"}
    BY <1>3 DEF BeginsWait, MovesTo, Clarifies, AwaitingStatuses
  <2>2. row'.status = k.target
    BY <1>1, <2>1, ResultFields DEF TargetStatus, AwaitingStatuses
  <2>3. \E ctx : MayTransition(row, k.target, ctx)
    BY <1>1, <2>1 DEF Allowed, TransitionAllowed, CloseGateAllowed, AwaitingStatuses
  <2> QED BY <1>1, <2>1, <2>2, <2>3, WaitsAreEntered DEF Waiting
<1>4. ASSUME Waiting(row'), row'.status # row.status
      PROVE  BeginsWait(s)
  <2>1. CASE k.op = "transition"
    <3>1. k.target \in AwaitingStatuses
      BY <1>1, <1>4, <2>1, ResultFields DEF Waiting
    <3>2. k \notin Attempts
      BY <3>1, AttemptCalls DEF AwaitingStatuses
    <3>3. k \in TransitionCalls /\ kind = "write"
      BY <1>0, <1>1, <2>1, <3>2, CallKinds
    <3>4. k.target = "AWAITING_RESPONSE"
      BY <3>1, <3>3 DEF TransitionCalls, TransitionCall, AwaitingStatuses
    <3> QED BY <1>1, <2>1, <3>3, <3>4 DEF BeginsWait, MovesTo
  <2>2. CASE k.op = "closeGate"
    <3>1. k \notin Attempts
      BY <2>2, AttemptCalls
    <3>2. kind = "write"
      BY <1>0, <3>1
    <3>3. k \in CloseGateCalls /\ row'.status = TargetStatus(row, k.target)
      BY <1>1, <2>2, CallKinds, ResultFields
    <3>4. k.target = "AWAITING_CLARIFICATION"
      BY <1>4, <3>3 DEF CloseGateCalls, TargetStatus, Waiting, AwaitingStatuses
    <3> QED BY <1>1, <2>2, <3>2, <3>4 DEF BeginsWait, Clarifies
  <2>3. CASE k.op = "openGate"
    <3>1. k \in OpenGateCalls /\ row'.status = TargetStatus(row, k.target)
      BY <1>1, <2>3, CallKinds, ResultFields
    <3> QED BY <1>4, <3>1 DEF OpenGateCalls, TargetStatus, Waiting, AwaitingStatuses
  <2>4. CASE k.op = "kill"
    BY <1>1, <1>4, <2>4, ResultFields DEF Waiting, AwaitingStatuses
  <2>5. CASE k.op \notin {"transition", "closeGate", "openGate", "kill"}
    BY <1>1, <1>4, <2>5, ResultFields
  <2> QED BY <2>1, <2>2, <2>3, <2>4, <2>5
<1>5. ASSUME Killing(p) \/ MovesTo(s, "ESCALATED")
      PROVE  ~Waiting(row')
  <2>1. k.op = "kill" \/ (k.op = "transition" /\ k.target = "ESCALATED")
    BY <1>5 DEF Killing, MovesTo, s
  <2> QED BY <1>1, <2>1, ResultFields DEF Waiting, AwaitingStatuses
<1>6. ASSUME BeginsWait(s) \/ Keeps(s)
      PROVE  Begun(p)'
  <2>1. prog'[p] # << >> /\ Bound(s, prog'[p][1])
    BY <1>2, <1>6, GoesOn DEF NeedsNext, s
  <2> QED BY <1>6, <2>1 DEF BeginsWait, Bound, Begun
<1> QED BY <1>1, <1>2, <1>3, <1>4, <1>5, <1>6 DEF s

\* Only a commit begins a wait.
LEMMA BegunAfter ==
  ASSUME WorkflowInv, WholeHandlers, NEW p \in Procs
  PROVE  /\ Aside(p) \/ Sweep(p) \/ Stops(p) => ~Begun(p)'
         /\ Goes(p) /\ Begun(p)' => BeginsWait(prog[p][1]) \/ Keeps(prog[p][1])
<1>1. Aside(p) => ~Begun(p)'
  BY WholeAside DEF Starts, FollowsOn, Begun, ArmsKinds
<1>2. Sweep(p) => ~Begun(p)'
  BY SweepStarts DEF Step, Begun, Keeps, ArmsKinds
<1>3. Stops(p) => ~Begun(p)'
  BY DEF Stops, Begun
<1>4. ASSUME Goes(p), Begun(p)'
      PROVE  BeginsWait(prog[p][1]) \/ Keeps(prog[p][1])
  <2> DEFINE s == prog[p][1]
             t == prog'[p][1]
  <2>1. Bound(s, t) /\ (Keeps(t) \/ ArmsKinds(t, Response))
    BY <1>4, GoesOn DEF Begun
  <2> HIDE DEF s, t
  <2>2. NeedsNext(s)
    BY <2>1 DEF Bound, FollowsOn, ArmsKinds
  <2>3. ~(s.do = "cancel")
    BY <2>1 DEF Bound, Decides, CancelsTimers, Keeps, ArmsKinds
  <2>4. ~Opens(s)
    <3>1. Opens(s) => t.do = "arm" /\ t.kinds # Response
      BY <2>1, GateTimersApart DEF Bound, ArmsKinds, Response
    <3> QED BY <2>1, <3>1 DEF Keeps, ArmsKinds
  <2> QED BY <2>2, <2>3, <2>4 DEF NeedsNext, s
<1> QED BY <1>1, <1>2, <1>3, <1>4

\* A write is committed or refused.
LEMMA WritesCommit ==
  ASSUME WorkflowInv, NEW p \in Procs, Sweep(p) \/ HandlerStep(p),
         prog[p] # << >>, prog[p][1].do = "write"
  PROVE  WriteRaises(p) \/ \E kind \in {"write", "attempt"} : CommitCase(p, kind)
<1>1. ~Aside(p) /\ ~Sweep(p)
  BY DEF Aside, Busy, Sweep, HandleSlaExpiry, Call, Idle
<1>2. ~CancelTimers(p) /\ ~ArmTimers(p) /\ ~MarkFired(p)
  BY CurrentStep DEF CancelTimers, ArmTimers, MarkFired
<1> QED BY <1>1, <1>2, AsideForms

LEMMA JustBegunStays ==
  ASSUME WorkflowInv, WholeHandlers, ClockTypes, JustBegun, NEW p \in Procs, TimedStep(p)
  PROVE  ClockTypes' /\ JustBegun'
<1>1. now' = now /\ since' \in {since, now} /\ due' \in Nat
      /\ since' = IF Waiting(row') /\ row'.status # row.status THEN now ELSE since
  BY TimedAssumption DEF TimedStep, ClockTypes, DueAfterStep
<1>2. ClockTypes'
  BY <1>1 DEF ClockTypes
<1>3. \A q \in Procs \ {p} : Begun(q)' => since' = now'
  BY <1>1, OthersKept, OtherHandlers DEF TimedStep, JustBegun
<1>4. ASSUME Begun(p)'
      PROVE  since' = now'
  <2>1. Goes(p)
    BY <1>4, BegunAfter, AsideForms, HandlersMove DEF TimedStep
  <2>2. BeginsWait(prog[p][1]) \/ Keeps(prog[p][1])
    BY <1>4, <2>1, BegunAfter
  <2>3. CASE BeginsWait(prog[p][1])
    <3>1. PICK kind \in {"write", "attempt"} : CommitCase(p, kind)
      <4>1. prog[p] # << >> /\ prog[p][1].do = "write" /\ ~Stops(p)
        BY <1>4, <2>1, <2>3, BegunAfter DEF Goes, BeginsWait, MovesTo, Clarifies
      <4> QED BY <4>1, WritesCommit, HandlersMove DEF TimedStep
    <3>2. Waiting(row') /\ row'.status # row.status
      BY <2>3, <3>1, CommitWaits
    <3> QED BY <1>1, <3>2
  <2>4. CASE Keeps(prog[p][1])
    BY <1>1, <2>1, <2>4 DEF Goes, Begun, JustBegun
  <2> QED BY <2>2, <2>3, <2>4
<1> QED BY <1>2, <1>3, <1>4 DEF JustBegun

\* A step that commits nothing leaves the case alone.
LEMMA CaseKept ==
  ASSUME WorkflowInv, NEW p \in Procs, Sweep(p) \/ HandlerStep(p), row' # row
  PROVE  \E kind \in {"write", "attempt"} : CommitCase(p, kind)
BY AsideForms, SweepStarts DEF Aside, CancelTimers, WriteRaises, ArmTimers, MarkFired

LEMMA AheadAfterAside ==
  ASSUME WorkflowInv, NEW p \in Procs, Aside(p), Marks(p)'
  PROVE  /\ Marks(p)
         /\ HasAhead(p) /\ Waiting(row) => HasAhead(p)'
<1>1. PICK new \in Seq(HandlerSteps), rest \in Seq(HandlerSteps) :
        /\ Fresh(new) /\ prog'[p] = new \o rest
        /\ rest # << >> =>
             /\ prog[p] # << >> /\ rest = Tail(prog[p])
             /\ Ahead(prog[p][1]) /\ Waiting(row) => \E i \in DOMAIN new : Ahead(new[i])
  BY DEF Aside
<1>2. /\ DOMAIN (new \o rest) = 1 .. Len(new) + Len(rest)
      /\ DOMAIN new = 1 .. Len(new) /\ DOMAIN rest = 1 .. Len(rest)
      /\ Len(new) \in Nat /\ Len(rest) \in Nat
      /\ \A i \in 1 .. Len(new) : (new \o rest)[i] = new[i]
      /\ \A i \in 1 .. Len(rest) : (new \o rest)[Len(new) + i] = rest[i]
  OBVIOUS
<1>3. PICK i \in 1 .. Len(new) + Len(rest) : prog'[p][i].do = "mark_fired"
  BY <1>1, <1>2 DEF Marks
<1>4. i - Len(new) \in 1 .. Len(rest) /\ rest[i - Len(new)].do = "mark_fired"
  <2>1. ~(i <= Len(new))
    <3>1. \A j \in 1 .. Len(new) : new[j].do # "mark_fired"
      BY <1>1, <1>2 DEF Fresh, Unmarked
    <3> QED BY <1>1, <1>2, <1>3, <3>1
  <2>2. i - Len(new) \in 1 .. Len(rest) /\ i = Len(new) + (i - Len(new))
    BY <1>2, <1>3, <2>1
  <2> QED BY <1>1, <1>2, <1>3, <2>2
<1>5. prog[p] # << >> /\ rest = Tail(prog[p])
  <2>1. rest # << >>
    BY <1>2, <1>4
  <2> QED BY <1>1, <2>1
<1>6. /\ DOMAIN prog[p] = 1 .. Len(prog[p]) /\ Len(prog[p]) \in Nat
      /\ Len(rest) = Len(prog[p]) - 1
      /\ \A j \in 1 .. Len(rest) : rest[j] = prog[p][j + 1] /\ j + 1 \in DOMAIN prog[p]
  BY <1>5, RestOfHandler
<1>7. Marks(p)
  BY <1>4, <1>6 DEF Marks
<1>8. ASSUME NEW j \in DOMAIN prog[p], Ahead(prog[p][j]), Waiting(row)
      PROVE  HasAhead(p)'
  <2>1. CASE j = 1
    <3>1. PICK k \in DOMAIN new : Ahead(new[k])
      <4>1. rest # << >>
        BY <1>2, <1>4
      <4> QED BY <1>1, <1>8, <2>1, <4>1
    <3>2. k \in DOMAIN prog'[p] /\ Ahead(prog'[p][k])
      BY <1>1, <1>2, <3>1
    <3> QED BY <3>2 DEF HasAhead
  <2>2. CASE j # 1
    <3>1. j - 1 \in 1 .. Len(rest) /\ (j - 1) + 1 = j
      BY <1>6, <2>2
    <3>2. rest[j - 1] = prog[p][j]
      BY <1>6, <3>1
    <3>3. Len(new) + (j - 1) \in DOMAIN prog'[p]
      BY <1>1, <1>2, <3>1
    <3>4. prog'[p][Len(new) + (j - 1)] = prog[p][j]
      BY <1>1, <1>2, <3>1, <3>2
    <3> QED BY <1>8, <3>3, <3>4 DEF HasAhead
  <2> QED BY <2>1, <2>2
<1> QED BY <1>7, <1>8 DEF HasAhead

LEMMA SweptInTimeStays ==
  ASSUME WorkflowInv, WholeHandlers, SweptInTime, ~disturbed, NEW p \in Procs, TimedStep(p)
  PROVE  SweptInTime'
<1> SUFFICES ASSUME ~disturbed', NEW q \in Procs, Marks(q)', Waiting(row')
             PROVE  HasAhead(q)'
  BY DEF SweptInTime, Waiting
<1>1. ~Crosses(p) /\ (Sweep(p) \/ HandlerStep(p))
  BY DEF TimedStep
<1>2. ASSUME Marks(q)
      PROVE  Waiting(row) /\ HasAhead(q)
  <2>1. Sweeping(q)
    BY <1>2 DEF Marks, Sweeping
  <2>2. row'.status = row.status
    BY <1>1, <2>1 DEF Crosses
  <2>3. Waiting(row)
    BY <2>2 DEF Waiting
  <2> QED BY <1>2, <2>3 DEF SweptInTime
<1>3. CASE q # p
  BY <1>1, <1>2, <1>3, OthersKept, OtherHandlers
<1>4. CASE q = p /\ Goes(p)
  <2>1. PICK i \in DOMAIN prog'[p] : prog'[p][i].do = "mark_fired"
    BY <1>4 DEF Marks
  <2>2. i + 1 \in DOMAIN prog[p] /\ prog[p][i + 1].do = "mark_fired"
    BY <1>4, <2>1, GoesOn
  <2>3. Marks(p)
    BY <2>2 DEF Marks
  <2>4. PICK j \in DOMAIN prog[p] : Ahead(prog[p][j])
    BY <1>2, <1>4, <2>3 DEF HasAhead
  <2>5. CASE j = 1
    <3>1. ~Aside(p) /\ ~Sweep(p) => prog[p][1].do \in Busy \cup {"attempt"}
      BY <1>1, AsideForms, CurrentStep
         DEF Busy, CancelTimers, CommitCase, WriteRaises, ArmTimers, MarkFired
    <3>2. ~Sweep(p)
      BY <1>4, SweepStarts DEF Goes, Idle
    <3>3. CASE Aside(p)
      BY <1>2, <1>4, <2>3, <3>3, AheadAfterAside
    <3>4. CASE ~Aside(p)
      <4>1. MovesTo(prog[p][1], "ESCALATED") /\ prog[p] # << >>
        BY <1>4, <2>4, <2>5, <3>1, <3>2, <3>4 DEF Ahead, Busy, Goes
      <4>2. prog[p][1].do = "write"
        BY <4>1 DEF MovesTo
      <4>3. WriteRaises(p) => Stops(p)
        BY HandlersMove
      <4>4. ~WriteRaises(p)
        BY <1>4, <2>1, <4>3 DEF Stops
      <4>5. PICK kind \in {"write", "attempt"} : CommitCase(p, kind)
        BY <1>1, <4>1, <4>2, <4>4, WritesCommit
      <4>6. ~Waiting(row')
        BY <4>1, <4>5, CommitWaits
      <4> QED BY <4>6
    <3> QED BY <3>3, <3>4
  <2>6. CASE j # 1
    <3>1. /\ prog[p] # << >> /\ prog'[p] = Tail(prog[p])
          /\ DOMAIN prog[p] = 1 .. Len(prog[p]) /\ Len(prog[p]) \in Nat
          /\ DOMAIN Tail(prog[p]) = 1 .. Len(prog[p]) - 1
          /\ \A k \in 1 .. Len(prog[p]) - 1 : Tail(prog[p])[k] = prog[p][k + 1]
      BY <1>4, RestOfHandler DEF Goes
    <3>2. j - 1 \in 1 .. Len(prog[p]) - 1 /\ (j - 1) + 1 = j
      BY <2>6, <3>1
    <3>3. j - 1 \in DOMAIN prog'[p] /\ prog'[p][j - 1] = prog[p][j]
      BY <3>1, <3>2
    <3> QED BY <1>4, <2>4, <3>3 DEF HasAhead
  <2> QED BY <2>5, <2>6
<1>5. CASE q = p /\ Stops(p)
  BY <1>5 DEF Stops, Marks
<1>6. CASE q = p /\ Aside(p)
  BY <1>2, <1>6, AheadAfterAside
<1>7. CASE q = p /\ Sweep(p)
  <2>1. 1 \in DOMAIN prog'[p] /\ prog'[p][1].do = "verify_awaiting"
    BY <1>7, SweepStarts DEF Step
  <2> QED BY <1>7, <2>1 DEF HasAhead, Ahead
<1> QED BY <1>1, <1>3, <1>4, <1>5, <1>6, <1>7, AsideForms, HandlersMove

\* A handler that has neither begun a wait nor is about to kill the case leaves the
\* window of a wait to others.
LEMMA WindowKept ==
  ASSUME WorkflowInv, WindowArmed, ~disturbed, Waiting(row), NEW p \in Procs,
         Sweep(p) \/ HandlerStep(p), ~Begun(p), ~Killing(p),
         row' = row, now' = now, since' = since, due' = due,
         "COUNTERPARTY_RESPONSE" \in timers =>
            "COUNTERPARTY_RESPONSE" \in timers' \/ Killing(p)'
  PROVE  WindowArmed'
<1>1. \A q \in Procs \ {p} : (Begun(q)' <=> Begun(q)) /\ (Killing(q)' <=> Killing(q))
  BY OthersKept, OtherHandlers
<1>2. \A q \in Procs : Begun(q) \/ Killing(q) => q \in Procs \ {p}
  OBVIOUS
<1>3. (\E q \in Procs : Begun(q) \/ Killing(q)) => (\E q \in Procs : Begun(q)' \/ Killing(q)')
  BY <1>1, <1>2
<1>4. (\E q \in Procs : Begun(q)) => (\E q \in Procs : Begun(q)')
  BY <1>1, <1>2
<1> QED BY <1>3, <1>4 DEF WindowArmed

\* The only step that arms the response timer anew is the one that ends the beginning
\* of a wait.
LEMMA ArmsEndsBeginning ==
  ASSUME WorkflowInv, WholeHandlers, NEW p \in Procs, Arms(p)
  PROVE  Begun(p) /\ prog[p][1].do = "arm" /\ prog[p][1].kinds = Response
<1>1. /\ prog[p] # << >> /\ prog[p][1] = Head(prog[p]) /\ prog[p][1].do = "arm"
      /\ "COUNTERPARTY_RESPONSE" \in prog[p][1].kinds
  BY CurrentStep DEF Arms
<1>2. prog[p][1].kinds \in Windows
  <2>1. 1 \in DOMAIN prog[p]
    BY <1>1, RestOfHandler
  <2> QED BY <1>1, <2>1 DEF WholeHandlers, ArmsWindow
<1>3. prog[p][1].kinds = Response
  BY <1>1, <1>2, GateTimersApart
<1> QED BY <1>1, <1>3 DEF Begun, ArmsKinds

\* A handler that has begun a wait has still to arm its window.
LEMMA BegunIsYetToArm ==
  ASSUME WorkflowInv, WholeHandlers, NEW p \in Procs, Begun(p)
  PROVE  YetToArm(p)
<1>0. \A s \in HandlerSteps : ArmsKinds(s, Response) => s = Arm({"COUNTERPARTY_RESPONSE"})
  <2> SUFFICES ASSUME NEW s \in HandlerSteps, ArmsKinds(s, Response)
               PROVE  s = Arm({"COUNTERPARTY_RESPONSE"})
    OBVIOUS
  <2>1. s \in [do : {"arm"}, kinds : SUBSET TimerKinds]
    BY DEF HandlerSteps, ArmsKinds, MessageSteps, PlainSteps
  <2> QED BY <2>1 DEF ArmsKinds, Response, Arm
<1>1. /\ prog[p] # << >> /\ prog[p] \in Seq(HandlerSteps)
      /\ DOMAIN prog[p] = 1 .. Len(prog[p]) /\ Len(prog[p]) \in Nat \ {0}
  BY RestOfHandler DEF Begun
<1>2. CASE ArmsKinds(prog[p][1], Response)
  <2>1. 1 \in DOMAIN prog[p] /\ prog[p][1] \in HandlerSteps
    BY <1>1
  <2> QED BY <1>0, <1>2, <2>1 DEF YetToArm
<1>3. CASE Keeps(prog[p][1])
  <2>1. Len(prog[p]) # 1
    BY <1>1, <1>3 DEF WholeHandlers, Whole, NeedsNext
  <2>2. 1 \in 1 .. Len(prog[p]) - 1 /\ 1 + 1 = 2 /\ 2 \in DOMAIN prog[p]
    <3>1. \A n \in Nat \ {0, 1} : 1 \in 1 .. n - 1 /\ 1 + 1 = 2 /\ 2 \in 1 .. n
      OBVIOUS
    <3>2. Len(prog[p]) \in Nat \ {0, 1}
      BY <1>1, <2>1
    <3> QED BY <1>1, <3>1, <3>2
  <2>3. Bound(prog[p][1], prog[p][2])
    BY <2>2 DEF WholeHandlers, Whole
  <2>4. ArmsKinds(prog[p][2], Response) /\ prog[p][2] \in HandlerSteps
    BY <1>1, <1>3, <2>2, <2>3 DEF Bound
  <2> QED BY <1>0, <2>2, <2>4 DEF YetToArm
<1> QED BY <1>2, <1>3 DEF Begun

LEMMA WindowAfterCommit ==
  ASSUME WorkflowInv, WholeHandlers, ClockTypes, WindowArmed, ~disturbed,
         NEW p \in Procs, TimedStep(p), NEW kind \in {"write", "attempt"}, CommitCase(p, kind)
  PROVE  WindowArmed'
<1> SUFFICES ASSUME ~disturbed', Waiting(row')
             PROVE  WindowArmed'
  BY DEF WindowArmed, Waiting
<1>1. /\ prog[p] # << >> /\ prog[p][1].do = kind /\ timers' = timers
      /\ BeginsWait(prog[p][1]) \/ Keeps(prog[p][1]) => Begun(p)'
      /\ BeginsWait(prog[p][1]) => row'.status # row.status
      /\ row'.status # row.status => BeginsWait(prog[p][1])
      /\ ~Killing(p)
  BY CommitWaits
<1>2. now' = now /\ since' = IF row'.status # row.status THEN now ELSE since
  BY DEF TimedStep
<1>3. due' = due
  <2>1. ~Arms(p)
    BY <1>1, ArmsEndsBeginning
  <2> QED BY <2>1 DEF TimedStep, DueAfterStep
<1>4. CASE BeginsWait(prog[p][1])
  <2>1. Begun(p)' /\ since' = now'
    BY <1>1, <1>2, <1>4
  <2>2. now' <= since' + ResponseWindow
    BY <1>2, <2>1, TimedAssumption DEF ClockTypes
  <2> QED BY <2>1, <2>2 DEF WindowArmed
<1>5. CASE ~BeginsWait(prog[p][1])
  <2>1. Waiting(row) /\ since' = since
    BY <1>1, <1>2, <1>5 DEF Waiting
  <2>2. Begun(p) => Begun(p)'
    BY <1>1 DEF Begun, ArmsKinds
  <2>3. \A q \in Procs \ {p} : (Begun(q)' <=> Begun(q)) /\ (Killing(q)' <=> Killing(q))
    BY OthersKept, OtherHandlers DEF TimedStep
  <2>4. (\E q \in Procs : Begun(q) \/ Killing(q)) => (\E q \in Procs : Begun(q)' \/ Killing(q)')
    BY <1>1, <2>2, <2>3
  <2>5. (\E q \in Procs : Begun(q)) => (\E q \in Procs : Begun(q)')
    BY <2>2, <2>3
  <2> QED BY <1>1, <1>2, <1>3, <2>1, <2>4, <2>5 DEF WindowArmed
<1> QED BY <1>4, <1>5

LEMMA WindowAfterCancel ==
  ASSUME WorkflowInv, WholeHandlers, NEW p \in Procs, CancelTimers(p),
         "COUNTERPARTY_RESPONSE" \in timers
  PROVE  "COUNTERPARTY_RESPONSE" \in timers' \/ Killing(p)'
<1> DEFINE k == Head(prog[p]).call
<1>1. prog[p] # << >> /\ prog[p][1] = Head(prog[p]) /\ prog[p][1].do = "cancel"
  BY CurrentStep DEF CancelTimers
<1>2. CASE MayCancel(snap[p], k)
  <2>1. Goes(p) /\ timers' = timers \ CancelledTimers(k)
    BY <1>2, ThenGoes DEF CancelTimers
  <2>2. CASE k.op = "kill"
    <3>1. prog'[p] # << >> /\ Decides(prog'[p][1]) /\ prog'[p][1].call = prog[p][1].call
      BY <1>1, <2>1, GoesOn DEF NeedsNext, Bound
    <3> QED BY <1>1, <2>2, <3>1 DEF Killing, Decides
  <2>3. CASE k.op # "kill"
    BY <2>1, <2>3, GateTimersApart DEF CancelledTimers, Response
  <2> QED BY <2>2, <2>3
<1>3. CASE ~MayCancel(snap[p], k)
  BY <1>3 DEF CancelTimers
<1> QED BY <1>2, <1>3

\* Nothing is left of a sweep that is about to mark the timer fired.
LEMMA FiredIsOver ==
  ASSUME WorkflowInv, WholeHandlers, SweptInTime, ~disturbed, NEW p \in Procs, MarkFired(p)
  PROVE  ~Waiting(row)
<1>1. /\ prog[p] # << >> /\ prog[p][1].do = "mark_fired"
      /\ DOMAIN prog[p] = 1 .. Len(prog[p]) /\ Len(prog[p]) \in Nat \ {0}
  BY CurrentStep, RestOfHandler DEF MarkFired
<1>2. Len(prog[p]) = 1
  <2>1. Len(prog[p]) # 1 => 1 \in 1 .. Len(prog[p]) - 1
    <3>1. \A n \in Nat \ {0, 1} : 1 \in 1 .. n - 1
      OBVIOUS
    <3> QED BY <1>1, <3>1
  <2> QED BY <1>1, <2>1 DEF WholeHandlers, Whole, Bound
<1>3. Marks(p)
  BY <1>1 DEF Marks
<1>4. ~HasAhead(p)
  <2>1. \A i \in DOMAIN prog[p] : i = 1
    BY <1>1, <1>2
  <2> QED BY <1>1, <2>1 DEF HasAhead, Ahead, MovesTo
<1> QED BY <1>3, <1>4 DEF SweptInTime

LEMMA WindowArmedStays ==
  ASSUME WorkflowInv, WholeHandlers, ClockTypes, JustBegun, SweptInTime, WindowArmed,
         ~disturbed, NEW p \in Procs, TimedStep(p)
  PROVE  WindowArmed'
<1> SUFFICES ASSUME ~disturbed', Waiting(row'),
                    \A kind \in {"write", "attempt"} : ~CommitCase(p, kind)
             PROVE  WindowArmed'
  BY WindowAfterCommit DEF WindowArmed, Waiting
<1>1. ~Crosses(p) /\ (Sweep(p) \/ HandlerStep(p))
  BY DEF TimedStep
<1>2. /\ row' = row /\ Waiting(row) /\ now' = now /\ since' = since
      /\ due' = IF Arms(p) THEN now + ResponseWindow ELSE due
  BY <1>1, CaseKept DEF TimedStep, DueAfterStep
<1>3. CASE Arms(p)
  <2>1. Begun(p) /\ prog[p][1].do = "arm" /\ prog[p][1].kinds = Response
    BY <1>3, ArmsEndsBeginning
  <2>2. since = now
    BY <2>1 DEF JustBegun
  <2>3. ArmTimers(p)
    BY <1>1, <2>1, CurrentStep, AsideForms
       DEF Aside, Busy, CancelTimers, WriteRaises, MarkFired, Sweep, HandleSlaExpiry, Call,
           Idle, Begun
  <2>4. "COUNTERPARTY_RESPONSE" \in timers'
    BY <1>3, <2>3 DEF ArmTimers, Arms
  <2>5. now' <= since' + ResponseWindow /\ due' = since' + ResponseWindow
        /\ due' <= since' + ResponseWindow /\ due' >= since' + ResponseWindow
    BY <1>2, <1>3, <2>2, TimedAssumption DEF ClockTypes
  <2> QED BY <2>4, <2>5 DEF WindowArmed
<1>4. CASE ~Arms(p)
  <2>1. due' = due
    BY <1>2, <1>4
  <2>2. CASE Aside(p) \/ Sweep(p)
    <3>1. ~Begun(p) /\ ~Killing(p) /\ timers' = timers
      BY <2>2, SweepStarts
         DEF Aside, Busy, Begun, Killing, Keeps, ArmsKinds, Idle
    <3> QED BY <1>1, <1>2, <2>1, <3>1, WindowKept
  <2>3. CASE CancelTimers(p)
    <3>1. ~Begun(p) /\ ~Killing(p)
      BY <2>3, CurrentStep DEF CancelTimers, Begun, Killing, Keeps, ArmsKinds
    <3>2. "COUNTERPARTY_RESPONSE" \in timers =>
            "COUNTERPARTY_RESPONSE" \in timers' \/ Killing(p)'
      BY <2>3, WindowAfterCancel
    <3> QED BY <1>1, <1>2, <2>1, <3>1, <3>2, WindowKept
  <2>4. CASE WriteRaises(p)
    <3>1. prog[p] # << >> /\ prog[p][1].do = "write" /\ Head(prog[p]) = prog[p][1]
          /\ timers' = timers
      BY <2>4, CurrentStep DEF WriteRaises
    <3>2. ~Begun(p)
      BY <1>1, <2>4, BegunIsYetToArm DEF Crosses
    <3>3. ~Killing(p)
      BY <1>1, <2>4, <3>1 DEF Crosses, Killing, CancelsTimers
    <3> QED BY <1>1, <1>2, <2>1, <3>1, <3>2, <3>3, WindowKept
  <2>5. CASE ArmTimers(p)
    <3>1. /\ prog[p] # << >> /\ prog[p][1].do = "arm" /\ Head(prog[p]) = prog[p][1]
          /\ Doing(p, "arm") /\ timers' = timers \cup Head(prog[p]).kinds
      BY <2>5, CurrentStep DEF ArmTimers
    <3>2. ~Begun(p) /\ ~Killing(p)
      BY <1>4, <3>1 DEF Begun, Killing, Keeps, ArmsKinds, Arms, Response
    <3> QED BY <1>1, <1>2, <2>1, <3>1, <3>2, WindowKept
  <2>6. CASE MarkFired(p)
    BY <1>2, <2>6, FiredIsOver
  <2> QED BY <1>1, <2>2, <2>3, <2>4, <2>5, <2>6, AsideForms
<1> QED BY <1>3, <1>4

----------------------------------------------------------------------------
(* The invariant *)

TimedInv ==
  /\ ClockTypes
  /\ WholeHandlers
  /\ GatesAreWatched
  /\ JustBegun
  /\ SweptInTime
  /\ WindowArmed

LEMMA TimedStart ==
  ASSUME TimedInit
  PROVE  TimedInv
<1>1. /\ row \in StartRows /\ timers = ArmedBefore(row) /\ now = 0 /\ since = 0
      /\ due = ResponseWindow /\ ResponseWindow \in Nat
      /\ \A p \in Procs : prog[p] \in {SubmitForApproval, << >>}
  BY TimedAssumption DEF TimedInit, Init
<1>2. \A p \in Procs : Fresh(prog[p])
  BY <1>1, PlainSubmission, PlainEmpty, PlainIsFresh
<1>3. \A p \in Procs : /\ Whole(prog[p]) /\ Starts(prog[p])
                       /\ \A i \in DOMAIN prog[p] : /\ ArmsWindow(prog[p][i])
                                                    /\ prog[p][i].do # "mark_fired"
  <2>1. \A steps : Fresh(steps) =>
          \A i \in DOMAIN steps : ArmsWindow(steps[i]) /\ steps[i].do # "mark_fired"
    BY DEF Fresh, Unmarked
  <2> QED BY <1>2, <2>1 DEF Fresh
<1>4. \A p \in Procs : ~InGap(p) /\ ~Begun(p) /\ ~Marks(p)
  BY <1>3, StartsOutside DEF Starts, FollowsOn, Begun, ArmsKinds, Marks
<1>5. ClockTypes
  BY <1>1 DEF ClockTypes
<1>6. GatesAreWatched
  <2>1. timers = Watched(row) \cup (IF HasApprovedGate(row, "PRE_SEND_REVIEW")
                                    THEN Response ELSE {})
    BY <1>1 DEF ArmedBefore, Watched, Response
  <2>2. "COUNTERPARTY_RESPONSE" \notin Watched(row)
    BY GateTimersApart DEF Watched
  <2>3. timers \ Response = Watched(row)
    BY <2>1, <2>2 DEF Response
  <2> QED BY <1>4, <2>3 DEF GatesAreWatched
<1>7. WindowArmed
  <2>1. Waiting(row) => "COUNTERPARTY_RESPONSE" \in timers
    BY <1>1, WaitingRowsAssumption DEF Waiting, ArmedBefore
  <2> QED BY <1>1, <2>1 DEF WindowArmed
<1> QED BY <1>3, <1>4, <1>5, <1>6, <1>7 DEF TimedInv, WholeHandlers, JustBegun, SweptInTime

\* The clock goes on only when no handler runs and the response timer is not due.
LEMMA TickStep ==
  ASSUME TimedInv, ~disturbed, Tick
  PROVE  TimedInv'
<1>1. /\ row' = row /\ timers' = timers /\ snap' = snap /\ prog' = prog
      /\ due' = due /\ since' = since /\ disturbed' = disturbed /\ now' = now + 1
  BY DEF Tick, vars
<1>2. \A p \in Procs : ~Begun(p) /\ ~Killing(p) /\ ~Begun(p)'
  BY <1>1 DEF Tick, Idle, Begun, Killing
<1>3. \A p \in Procs : (InGap(p)' <=> InGap(p)) /\ (At(p, "arm")' <=> At(p, "arm"))
                       /\ (Marks(p)' <=> Marks(p)) /\ (HasAhead(p)' <=> HasAhead(p))
  BY <1>1 DEF InGap, At, Marks, HasAhead
<1>4. ClockTypes'
  BY <1>1 DEF TimedInv, ClockTypes
<1>5. WholeHandlers' /\ SweptInTime'
  BY <1>1, <1>3 DEF TimedInv, WholeHandlers, SweptInTime, Waiting
<1>6. GatesAreWatched'
  BY <1>1, <1>3, WatchedSame DEF TimedInv, GatesAreWatched, Steady
<1>7. WindowArmed'
  <2> SUFFICES ASSUME Waiting(row)
               PROVE  WindowArmed'
    BY <1>1 DEF WindowArmed, Waiting
  <2>1. "COUNTERPARTY_RESPONSE" \in timers /\ due <= since + ResponseWindow
        /\ due >= since + ResponseWindow
    BY <1>2 DEF TimedInv, WindowArmed
  <2>2. ~(due <= now)
    BY <2>1 DEF Tick, IsDue
  <2>3. now + 1 <= since + ResponseWindow
    BY <2>1, <2>2, TimedAssumption DEF TimedInv, ClockTypes
  <2> QED BY <1>1, <2>1, <2>3 DEF WindowArmed
<1> QED BY <1>2, <1>4, <1>5, <1>6, <1>7 DEF TimedInv, JustBegun

LEMMA TimedStutter ==
  ASSUME TimedInv, UNCHANGED timedVars
  PROVE  TimedInv'
<1>1. /\ row' = row /\ timers' = timers /\ snap' = snap /\ prog' = prog
      /\ due' = due /\ since' = since /\ disturbed' = disturbed /\ now' = now
  BY DEF timedVars, vars
<1>2. \A p : (InGap(p)' <=> InGap(p)) /\ (At(p, "arm")' <=> At(p, "arm"))
             /\ (Marks(p)' <=> Marks(p)) /\ (HasAhead(p)' <=> HasAhead(p))
             /\ (Begun(p)' <=> Begun(p)) /\ (Killing(p)' <=> Killing(p))
  BY <1>1 DEF InGap, At, Marks, HasAhead, Begun, Killing
<1>3. ClockTypes' /\ WholeHandlers' /\ SweptInTime' /\ JustBegun' /\ WindowArmed'
  BY <1>1, <1>2 DEF TimedInv, ClockTypes, WholeHandlers, SweptInTime, JustBegun, WindowArmed,
                    Waiting
<1>4. GatesAreWatched'
  BY <1>1, <1>2, WatchedSame DEF TimedInv, GatesAreWatched, Steady
<1> QED BY <1>3, <1>4 DEF TimedInv

(* The clock only restrains the workflow: what is proved of Workflow holds  *)
(* of the cases whose timers are dated.                                     *)
THEOREM TimedImplementsWorkflow == TimedSpec => Spec
<1>1. TimedInit => Init
  BY DEF TimedInit
<1>2. [TimedNext]_timedVars => [Next]_vars
  <2>1. Tick => UNCHANGED vars
    BY DEF Tick
  <2>2. UNCHANGED timedVars => UNCHANGED vars
    BY DEF timedVars
  <2>3. ASSUME NEW p \in Procs, TimedStep(p)
        PROVE  Next
    BY <2>3 DEF TimedStep, Sweep, HandlerStep, AgentCall, Next
  <2> QED BY <2>1, <2>2, <2>3 DEF TimedNext
<1> QED BY <1>1, <1>2, PTL DEF TimedSpec, Spec

(* The inductive invariant of the timed workflow.                           *)
THEOREM TimedInvariant == TimedSpec => []TimedInv
<1>1. TimedInit => TimedInv
  BY TimedStart
<1>2. WorkflowInv /\ TimedInv /\ [TimedNext]_timedVars => TimedInv'
  <2>1. ASSUME WorkflowInv, TimedInv, ~disturbed, NEW p \in Procs, TimedStep(p)
        PROVE  TimedInv'
    <3>1. WholeHandlers'
      BY <2>1, WholeStays DEF TimedInv, TimedStep
    <3>2. GatesAreWatched'
      BY <2>1, WatchedStays DEF TimedInv
    <3>3. ClockTypes' /\ JustBegun'
      BY <2>1, JustBegunStays DEF TimedInv
    <3>4. SweptInTime' /\ WindowArmed'
      BY <2>1, SweptInTimeStays, WindowArmedStays DEF TimedInv
    <3> QED BY <3>1, <3>2, <3>3, <3>4 DEF TimedInv
  <2> QED BY <2>1, TickStep, TimedStutter DEF TimedNext
<1> QED BY <1>1, <1>2, TimedImplementsWorkflow, WorkflowInvariant, PTL DEF TimedSpec

----------------------------------------------------------------------------
(* What follows from it *)

(* While nobody acts on a case that was not killed, an open gate has its     *)
(* reminder and its escalation armed, and no gate timer is left over: no      *)
(* sequence of openings, reassignments, refused and competing decisions ends *)
(* with a gate that nobody is reminded of.                                    *)
THEOREM OpenGatesAreWatched == TimedSpec => []GateIsWatched
<1>1. TimedInv => GateIsWatched
  <2> SUFFICES ASSUME TimedInv, \A p \in Procs : Idle(p), ~disturbed,
                      row.status # "CANCELLED"
               PROVE  timers \ Response = Watched(row)
    BY DEF GateIsWatched, Watched, Response
  <2>1. \A p \in Procs : ~InGap(p)
    BY DEF Idle, InGap
  <2> QED BY <2>1 DEF TimedInv, GatesAreWatched, Steady
<1> QED BY <1>1, TimedInvariant, PTL

(* With sweeps in time and handlers that do not cross, a case is not in a    *)
(* wait for the counterparty longer than the window of that wait.            *)
THEOREM WaitsAreBounded == TimedSpec => []WaitsEndInTime
<1>1. TimedInv => WaitsEndInTime
  BY DEF TimedInv, WindowArmed, WaitsEndInTime
<1> QED BY <1>1, TimedInvariant, PTL

----------------------------------------------------------------------------
(* Waits last their window *)

\* A handler deals with one reply or with one expiry, or with neither: it makes one step
\* at a time on the way to the end of a wait; when it takes a reply it has only recorded
\* it before; and it escalates, on an expiry, before it marks the timer fired.
Tidy(steps) ==
  /\ \A i, j \in DOMAIN steps : Token(steps[i]) /\ Token(steps[j]) => i = j
  /\ \A i \in DOMAIN steps : Receives(steps[i]) => \A j \in 1 .. i - 1 : Records(steps[j])
  /\ \A i \in DOMAIN steps : steps[i].do \in {"verify_awaiting", "escalate"} =>
       \E j \in DOMAIN steps : steps[j].do = "mark_fired"
  /\ \A i, j \in DOMAIN steps : steps[i].do = "mark_fired" => ~Answers(steps[j])

TidyHandlers == \A p \in Procs : Tidy(prog[p])

\* p has taken a reply and may still escalate the case.
Owner(p) ==
  /\ ~Marks(p)
  /\ \A i \in DOMAIN prog[p] : ~Receives(prog[p][i])
  /\ \E i \in DOMAIN prog[p] : Owns(prog[p][i])

\* No wait for the counterparty begins from these but by a decision at gate 2.
TakenUp ==
  {"RESPONSE_RECEIVED", "AGREED", "DISPUTED", "ESCALATED", "RESOLVED", "CLOSED", "CANCELLED"}

\* Gate 2 is not open, and only a sweep that escalated may open it, or has just done so.
GateInHand ==
  \/ \E q \in Procs : Marks(q) /\ InGap(q) /\ At(q, "arm")
  \/ /\ PendingGates(row, GateTypes) = {}
     /\ \A q \in Procs : At(q, "open_gate2") \/ AboutToOpen(q) => Marks(q)

OneOwner ==
  ~disturbed =>
    /\ \A p, q \in Procs : Owner(p) /\ Owner(q) => p = q
    /\ \A p \in Procs : Owner(p) => row.status \in TakenUp
    /\ \A p \in Procs : Owner(p) /\ row.status = "ESCALATED" => GateInHand

SweepsWait ==
  ~disturbed /\ Waiting(row) =>
    \A p \in Procs : Marks(p) => now >= since + ResponseWindow

SweepInv == TidyHandlers /\ OneOwner /\ SweepsWait

\* The entries of a handler after a step aside: what is new, and the rest of it.
LEMMA AsideEntries ==
  ASSUME WorkflowInv, NEW p \in Procs, Aside(p)
  PROVE  \E new \in Seq(HandlerSteps) :
           /\ Fresh(new) /\ Suits(p, new) /\ prog'[p] \in Seq(HandlerSteps)
           /\ DOMAIN new = 1 .. Len(new) /\ Len(new) \in Nat
           /\ \A i \in DOMAIN new : i \in DOMAIN prog'[p] /\ prog'[p][i] = new[i]
           /\ \A i \in DOMAIN prog'[p] \ DOMAIN new :
                /\ prog[p] # << >> /\ i - Len(new) + 1 \in DOMAIN prog[p] \ {1}
                /\ prog'[p][i] = prog[p][i - Len(new) + 1]
           /\ \/ prog[p] # << >> /\ prog[p][1].do \in Lasting
              \/ DOMAIN prog'[p] \ DOMAIN new # {}
              => \A j \in DOMAIN prog[p] \ {1} :
                   \E i \in DOMAIN prog'[p] \ DOMAIN new : prog'[p][i] = prog[p][j]
<1>1. PICK new \in Seq(HandlerSteps), rest \in Seq(HandlerSteps) :
        /\ Fresh(new) /\ Suits(p, new) /\ prog'[p] = new \o rest
        /\ prog[p] # << >> /\ prog[p][1].do \in Lasting => rest = Tail(prog[p])
        /\ rest # << >> => prog[p] # << >> /\ rest = Tail(prog[p])
  BY DEF Aside
<1>2. /\ DOMAIN (new \o rest) = 1 .. Len(new) + Len(rest)
      /\ DOMAIN new = 1 .. Len(new) /\ DOMAIN rest = 1 .. Len(rest)
      /\ Len(new) \in Nat /\ Len(rest) \in Nat
      /\ \A i \in 1 .. Len(new) : (new \o rest)[i] = new[i]
      /\ \A i \in 1 .. Len(rest) : (new \o rest)[Len(new) + i] = rest[i]
  OBVIOUS
<1>3. /\ prog'[p] \in Seq(HandlerSteps)
      /\ \A i \in DOMAIN new : i \in DOMAIN prog'[p] /\ prog'[p][i] = new[i]
  BY <1>1, <1>2
<1>4. ASSUME NEW i \in DOMAIN prog'[p] \ DOMAIN new
      PROVE  /\ prog[p] # << >> /\ rest = Tail(prog[p])
             /\ i - Len(new) + 1 \in DOMAIN prog[p] \ {1}
             /\ prog'[p][i] = prog[p][i - Len(new) + 1]
  <2>1. i - Len(new) \in 1 .. Len(rest) /\ i = Len(new) + (i - Len(new))
    BY <1>1, <1>2
  <2>2. prog'[p][i] = rest[i - Len(new)]
    BY <1>1, <1>2, <2>1
  <2>3. prog[p] # << >> /\ rest = Tail(prog[p])
    <3>1. rest # << >>
      BY <1>2, <2>1
    <3> QED BY <1>1, <3>1
  <2>4. /\ Len(rest) = Len(prog[p]) - 1
        /\ \A j \in 1 .. Len(prog[p]) - 1 :
             rest[j] = prog[p][j + 1] /\ j + 1 \in DOMAIN prog[p] \ {1}
    BY <2>3, RestOfHandler
  <2> QED BY <2>1, <2>2, <2>3, <2>4
<1>5. ASSUME \/ prog[p] # << >> /\ prog[p][1].do \in Lasting
             \/ DOMAIN prog'[p] \ DOMAIN new # {},
             NEW j \in DOMAIN prog[p] \ {1}
      PROVE  \E i \in DOMAIN prog'[p] \ DOMAIN new : prog'[p][i] = prog[p][j]
  <2>1. prog[p] # << >> /\ rest = Tail(prog[p])
    BY <1>1, <1>4, <1>5
  <2>2. /\ DOMAIN prog[p] = 1 .. Len(prog[p]) /\ Len(prog[p]) \in Nat
        /\ Len(rest) = Len(prog[p]) - 1
        /\ \A i \in 1 .. Len(prog[p]) - 1 : rest[i] = prog[p][i + 1]
    BY <2>1, RestOfHandler
  <2>3. j - 1 \in 1 .. Len(rest) /\ (j - 1) + 1 = j
    BY <2>2
  <2>4. rest[j - 1] = prog[p][j]
    BY <2>2, <2>3
  <2>5. Len(new) + (j - 1) \in DOMAIN prog'[p] \ DOMAIN new
    <3>1. \A m, n \in Nat : \A i \in 1 .. n : m + i \in (1 .. m + n) \ (1 .. m)
      OBVIOUS
    <3>2. DOMAIN prog'[p] = 1 .. Len(new) + Len(rest) /\ DOMAIN new = 1 .. Len(new)
      BY <1>1, <1>2
    <3> QED BY <1>2, <2>3, <3>1, <3>2
  <2>6. prog'[p][Len(new) + (j - 1)] = prog[p][j]
    BY <1>1, <1>2, <2>3, <2>4
  <2> QED BY <2>5, <2>6
<1> QED BY <1>1, <1>2, <1>3, <1>4, <1>5

LEMMA TokenKinds ==
  /\ \A s : Owns(s) => Token(s)
  /\ \A s : Receives(s) => s.do = "write"
  /\ \A s : Records(s) => s.do = "write"
  /\ \A s : Owns(s) /\ s.do \notin Busy => Answers(s)
  /\ \A s : s.do = "mark_fired" => ~Token(s) /\ ~Receives(s)
  /\ \A s : s.do = "dedupe_and_parse" => ~Receives(s) /\ ~Owns(s)
BY DEF Owns, Token, Answers, Ahead, Receives, Records, MovesTo, MessageSteps, Busy

\* Marking the timer fired is the last step of a handler.
LEMMA MarkIsLast ==
  ASSUME WorkflowInv, WholeHandlers, NEW p \in Procs, NEW i \in DOMAIN prog[p],
         prog[p][i].do = "mark_fired"
  PROVE  i = Len(prog[p])
<1>1. prog[p] \in Seq(HandlerSteps)
  BY DEF WorkflowInv, Types
<1>2. i \in 1 .. Len(prog[p]) /\ Len(prog[p]) \in Nat
  BY <1>1
<1>3. i \notin 1 .. Len(prog[p]) - 1
  BY DEF WholeHandlers, Whole, Bound
<1> QED BY <1>2, <1>3

\* What a handler that goes on has left of it.
LEMMA GoesEntries ==
  ASSUME WorkflowInv, NEW p \in Procs, Goes(p)
  PROVE  /\ prog[p] # << >> /\ 1 \in DOMAIN prog[p]
         /\ \A i \in DOMAIN prog'[p] :
              i + 1 \in DOMAIN prog[p] \ {1} /\ prog'[p][i] = prog[p][i + 1]
         /\ \A j \in DOMAIN prog[p] \ {1} :
              \E i \in DOMAIN prog'[p] : i + 1 = j /\ prog'[p][i] = prog[p][j]
<1>1. /\ prog[p] # << >> /\ prog'[p] = Tail(prog[p])
      /\ DOMAIN prog[p] = 1 .. Len(prog[p]) /\ Len(prog[p]) \in Nat \ {0}
      /\ DOMAIN Tail(prog[p]) = 1 .. Len(prog[p]) - 1
      /\ \A i \in 1 .. Len(prog[p]) - 1 :
           Tail(prog[p])[i] = prog[p][i + 1] /\ i + 1 \in DOMAIN prog[p] \ {1}
  BY RestOfHandler DEF Goes
<1>2. ASSUME NEW j \in DOMAIN prog[p] \ {1}
      PROVE  \E i \in DOMAIN prog'[p] : i + 1 = j /\ prog'[p][i] = prog[p][j]
  <2>1. j - 1 \in 1 .. Len(prog[p]) - 1 /\ (j - 1) + 1 = j
    BY <1>1
  <2> QED BY <1>1, <2>1
<1> QED BY <1>1, <1>2

LEMMA TidyQuiet ==
  ASSUME NEW steps, \A i \in DOMAIN steps : Quiet(steps[i]) /\ steps[i].do # "mark_fired"
  PROVE  Tidy(steps)
BY DEF Tidy, Quiet, Token, Ahead

LEMMA TidyGoes ==
  ASSUME WorkflowInv, WholeHandlers, TidyHandlers, NEW p \in Procs, Goes(p)
  PROVE  Tidy(prog'[p])
<1>1. /\ prog[p] # << >> /\ 1 \in DOMAIN prog[p] /\ Tidy(prog[p])
      /\ \A i \in DOMAIN prog'[p] :
           i + 1 \in DOMAIN prog[p] \ {1} /\ prog'[p][i] = prog[p][i + 1]
      /\ \A j \in DOMAIN prog[p] \ {1} :
           \E i \in DOMAIN prog'[p] : i + 1 = j /\ prog'[p][i] = prog[p][j]
  BY GoesEntries DEF TidyHandlers
<1>2. DOMAIN prog[p] = 1 .. Len(prog[p]) /\ DOMAIN prog'[p] = 1 .. Len(prog[p]) - 1
      /\ Len(prog[p]) \in Nat
  BY RestOfHandler DEF Goes
<1>3. ASSUME NEW i \in DOMAIN prog'[p], NEW j \in DOMAIN prog'[p],
             Token(prog'[p][i]), Token(prog'[p][j])
      PROVE  i = j
  <2>1. i + 1 = j + 1
    BY <1>1, <1>3 DEF Tidy
  <2> QED BY <1>2, <2>1
<1>4. ASSUME NEW i \in DOMAIN prog'[p], Receives(prog'[p][i]), NEW j \in 1 .. i - 1
      PROVE  Records(prog'[p][j])
  <2>1. j \in DOMAIN prog'[p] /\ j + 1 \in 1 .. (i + 1) - 1
    BY <1>2
  <2> QED BY <1>1, <1>4, <2>1 DEF Tidy
<1>5. ASSUME NEW i \in DOMAIN prog'[p], prog'[p][i].do \in {"verify_awaiting", "escalate"}
      PROVE  \E j \in DOMAIN prog'[p] : prog'[p][j].do = "mark_fired"
  <2>1. PICK j \in DOMAIN prog[p] : prog[p][j].do = "mark_fired"
    BY <1>1, <1>5 DEF Tidy
  <2>2. j # 1
    <3>1. j = Len(prog[p])
      BY <2>1, MarkIsLast
    <3>2. \A n \in Nat : \A x \in 1 .. n - 1 : n # 1
      OBVIOUS
    <3> QED BY <1>2, <3>1, <3>2
  <2> QED BY <1>1, <2>1, <2>2
<1>6. ASSUME NEW i \in DOMAIN prog'[p], NEW j \in DOMAIN prog'[p],
             prog'[p][i].do = "mark_fired"
      PROVE  ~Answers(prog'[p][j])
  BY <1>1, <1>6 DEF Tidy
<1> QED BY <1>3, <1>4, <1>5, <1>6 DEF Tidy

LEMMA TidyAside ==
  ASSUME WorkflowInv, WholeHandlers, TidyHandlers, NEW p \in Procs, Aside(p)
  PROVE  Tidy(prog'[p])
<1>1. PICK new \in Seq(HandlerSteps) :
        /\ Fresh(new) /\ Suits(p, new) /\ prog'[p] \in Seq(HandlerSteps)
        /\ DOMAIN new = 1 .. Len(new) /\ Len(new) \in Nat
        /\ \A i \in DOMAIN new : i \in DOMAIN prog'[p] /\ prog'[p][i] = new[i]
        /\ \A i \in DOMAIN prog'[p] \ DOMAIN new :
             /\ prog[p] # << >> /\ i - Len(new) + 1 \in DOMAIN prog[p] \ {1}
             /\ prog'[p][i] = prog[p][i - Len(new) + 1]
        /\ \/ prog[p] # << >> /\ prog[p][1].do \in Lasting
           \/ DOMAIN prog'[p] \ DOMAIN new # {}
           => \A j \in DOMAIN prog[p] \ {1} :
                \E i \in DOMAIN prog'[p] \ DOMAIN new : prog'[p][i] = prog[p][j]
  BY AsideEntries
<1>2. prog[p] \in Seq(HandlerSteps) /\ DOMAIN prog[p] = 1 .. Len(prog[p])
      /\ Len(prog[p]) \in Nat /\ Tidy(prog[p])
  BY DEF WorkflowInv, Types, TidyHandlers
<1>3. prog[p] # << >> => 1 \in DOMAIN prog[p] /\ prog[p][1].do \notin Busy
  BY RestOfHandler DEF Aside
<1>4. DOMAIN prog'[p] \subseteq Int
  BY <1>1
<1>5. \A i \in DOMAIN new : new[i].do # "mark_fired"
  BY <1>1 DEF Fresh, Unmarked
\* A reply is not taken in what is left.
<1>6. \A i \in DOMAIN prog'[p] \ DOMAIN new : ~Receives(prog'[p][i])
  <2> SUFFICES ASSUME NEW i \in DOMAIN prog'[p] \ DOMAIN new, Receives(prog'[p][i])
               PROVE  FALSE
    OBVIOUS
  <2> DEFINE j == i - Len(new) + 1
  <2>1. prog[p] # << >> /\ j \in DOMAIN prog[p] \ {1} /\ Receives(prog[p][j])
    BY <1>1
  <2>2. 1 \in 1 .. j - 1
    BY <1>2, <2>1
  <2> HIDE DEF j
  <2>3. Records(prog[p][1])
    BY <1>2, <2>1, <2>2 DEF Tidy
  <2> QED BY <1>3, <2>1, <2>3 DEF Records, Busy
<1>7. ASSUME NEW i \in DOMAIN prog'[p], NEW j \in DOMAIN prog'[p],
             Token(prog'[p][i]), Token(prog'[p][j])
      PROVE  i = j
  <2>1. CASE i \in DOMAIN new /\ j \in DOMAIN new
    BY <1>1, <1>7, <2>1 DEF Suits, Turns, Quiet
  <2>2. CASE i \notin DOMAIN new /\ j \notin DOMAIN new
    <3> DEFINE x == i - Len(new) + 1
               y == j - Len(new) + 1
    <3>1. /\ x \in DOMAIN prog[p] /\ prog'[p][i] = prog[p][x]
          /\ y \in DOMAIN prog[p] /\ prog'[p][j] = prog[p][y]
      BY <1>1, <2>2
    <3>2. x = y => i = j
      BY <1>1, <1>4
    <3> HIDE DEF x, y
    <3> QED BY <1>2, <1>7, <3>1, <3>2 DEF Tidy
  <2>3. ASSUME NEW x \in DOMAIN new, NEW y \in DOMAIN prog'[p] \ DOMAIN new,
               Token(new[x]), Token(prog'[p][y])
        PROVE  FALSE
    <3> DEFINE z == y - Len(new) + 1
    <3>1. prog[p] # << >> /\ z \in DOMAIN prog[p] \ {1} /\ Token(prog[p][z])
      BY <1>1, <2>3
    <3>2. Token(prog[p][1])
      BY <1>1, <2>3, <3>1 DEF Suits, Quiet
    <3> HIDE DEF z
    <3> QED BY <1>2, <1>3, <3>1, <3>2 DEF Tidy
  <2> QED BY <1>1, <1>7, <2>1, <2>2, <2>3
<1>8. ASSUME NEW i \in DOMAIN prog'[p], Receives(prog'[p][i]), NEW j \in 1 .. i - 1
      PROVE  Records(prog'[p][j])
  <2>1. i \in DOMAIN new /\ Receives(new[i])
    BY <1>1, <1>6, <1>8
  <2>2. j \in DOMAIN new
    BY <1>1, <2>1
  <2>3. Records(new[j])
    <3>1. CASE prog[p] = << >> /\ \A x \in DOMAIN new : x = 1 /\ new[x].do = "dedupe_and_parse"
      BY <2>1, <3>1, TokenKinds
    <3> QED BY <1>1, <1>8, <2>1, <3>1 DEF Suits, Turns, Quiet
  <2> QED BY <1>1, <2>2, <2>3
<1>9. ASSUME NEW i \in DOMAIN prog'[p], prog'[p][i].do \in {"verify_awaiting", "escalate"}
      PROVE  \E j \in DOMAIN prog'[p] : prog'[p][j].do = "mark_fired"
  <2>1. /\ prog[p] # << >>
        /\ \E j \in DOMAIN prog[p] : prog[p][j].do = "mark_fired"
        /\ \/ prog[p][1].do \in Lasting
           \/ DOMAIN prog'[p] \ DOMAIN new # {}
    <3>1. CASE i \in DOMAIN new
      <4>1. Token(new[i]) /\ new[i].do \in {"verify_awaiting", "escalate"}
        BY <1>1, <1>9, <3>1 DEF Token, Ahead
      <4>2. prog[p] # << >> /\ prog[p][1].do = "verify_awaiting"
        BY <1>1, <3>1, <4>1 DEF Suits, Turns, Quiet
      <4> QED BY <1>2, <1>3, <4>2 DEF Tidy, Lasting
    <3>2. CASE i \notin DOMAIN new
      BY <1>1, <1>2, <1>9, <3>2 DEF Tidy
    <3> QED BY <3>1, <3>2
  <2>2. PICK j \in DOMAIN prog[p] : prog[p][j].do = "mark_fired"
    BY <2>1
  <2>3. j # 1
    BY <1>3, <2>1, <2>2 DEF Busy
  <2> QED BY <1>1, <2>1, <2>2, <2>3
<1>10. ASSUME NEW i \in DOMAIN prog'[p], NEW j \in DOMAIN prog'[p],
              prog'[p][i].do = "mark_fired", Answers(prog'[p][j])
       PROVE  FALSE
  <2> DEFINE x == i - Len(new) + 1
             y == j - Len(new) + 1
  <2>1. prog[p] # << >> /\ x \in DOMAIN prog[p] \ {1} /\ prog[p][x].do = "mark_fired"
    BY <1>1, <1>5, <1>10
  <2>2. \E z \in DOMAIN prog[p] : Answers(prog[p][z])
    <3>1. CASE j \in DOMAIN new
      <4>1. Answers(new[j]) /\ Token(new[j])
        BY <1>1, <1>10, <3>1 DEF Token
      <4>2. Answers(prog[p][1])
        BY <1>1, <2>1, <3>1, <4>1 DEF Suits, Turns, Quiet
      <4> QED BY <1>3, <2>1, <4>2
    <3>2. CASE j \notin DOMAIN new
      <4>1. y \in DOMAIN prog[p] /\ Answers(prog[p][y])
        BY <1>1, <1>10, <3>2
      <4> QED BY <4>1
    <3> QED BY <3>1, <3>2
  <2> HIDE DEF x, y
  <2> QED BY <1>2, <2>1, <2>2 DEF Tidy
<1> QED BY <1>7, <1>8, <1>9, <1>10 DEF Tidy

LEMMA TidyStays ==
  ASSUME WorkflowInv, WholeHandlers, TidyHandlers, NEW p \in Procs, Sweep(p) \/ HandlerStep(p)
  PROVE  TidyHandlers'
<1>1. \A q \in Procs \ {p} : Tidy(prog'[q])
  BY OthersKept DEF TidyHandlers
<1>2. Tidy(prog'[p])
  <2>1. CASE Stops(p)
    BY <2>1, TidyQuiet DEF Stops
  <2>2. CASE Sweep(p)
    <3>1. /\ DOMAIN prog'[p] = 1 .. 2
          /\ prog'[p][1].do = "verify_awaiting" /\ prog'[p][2].do = "mark_fired"
      BY <2>2, SweepStarts DEF Step
    <3>2. \A i \in DOMAIN prog'[p] : i = 1 \/ i = 2
      BY <3>1
    <3>3. /\ ~Receives(prog'[p][1]) /\ ~Answers(prog'[p][1])
          /\ ~Receives(prog'[p][2]) /\ ~Answers(prog'[p][2]) /\ ~Token(prog'[p][2])
      BY <3>1 DEF Receives, Answers, Token, Ahead, MovesTo, MessageSteps
    <3> QED BY <3>1, <3>2, <3>3 DEF Tidy
  <2> QED BY <2>1, <2>2, TidyGoes, TidyAside, AsideForms, HandlersMove
<1> QED BY <1>1, <1>2 DEF TidyHandlers

\* Only the sweep makes a handler one that will mark the timer fired.
LEMMA MarksStay ==
  ASSUME WorkflowInv, NEW p \in Procs, HandlerStep(p)
  PROVE  \A q \in Procs : Marks(q)' => Marks(q)
<1>1. \A q \in Procs \ {p} : Marks(q)' => Marks(q)
  BY OthersKept, OtherHandlers
<1>2. Goes(p) /\ Marks(p)' => Marks(p)
  <2> SUFFICES ASSUME Goes(p), Marks(p)'
               PROVE  Marks(p)
    OBVIOUS
  <2>1. PICK i \in DOMAIN prog'[p] : prog'[p][i].do = "mark_fired"
    BY DEF Marks
  <2> QED BY <2>1, GoesEntries DEF Marks
<1>3. Stops(p) => ~Marks(p)'
  BY DEF Stops, Marks
<1>4. Aside(p) /\ Marks(p)' => Marks(p)
  BY AheadAfterAside
<1> QED BY <1>1, <1>2, <1>3, <1>4, AsideForms, HandlersMove

\* A handler that goes on, and is not at the mark yet, still makes it.
LEMMA MarksGoOn ==
  ASSUME WorkflowInv, NEW p \in Procs, Goes(p), Marks(p), prog[p][1].do # "mark_fired"
  PROVE  Marks(p)'
<1>1. PICK j \in DOMAIN prog[p] : prog[p][j].do = "mark_fired"
  BY DEF Marks
<1>2. j # 1
  BY <1>1
<1>3. PICK i \in DOMAIN prog'[p] : prog'[p][i] = prog[p][j]
  BY <1>1, <1>2, GoesEntries
<1> QED BY <1>1, <1>3 DEF Marks

\* So does one that leaves a lasting node, or of which something is left.
LEMMA MarksLast ==
  ASSUME WorkflowInv, NEW p \in Procs, Aside(p), Marks(p), prog[p][1].do \in Lasting
  PROVE  Marks(p)'
<1>1. PICK j \in DOMAIN prog[p] : prog[p][j].do = "mark_fired"
  BY DEF Marks
<1>2. prog[p] # << >> /\ j # 1
  <2>1. prog[p] # << >>
    BY <1>1
  <2> QED BY <1>1, <2>1 DEF Aside, Busy
<1>3. \E i \in DOMAIN prog'[p] : prog'[p][i] = prog[p][j]
  BY <1>1, <1>2, AsideEntries
<1> QED BY <1>1, <1>3 DEF Marks

\* A handler comes to own a case by taking a reply.
LEMMA OwnersByGoing ==
  ASSUME WorkflowInv, WholeHandlers, TidyHandlers, NEW p \in Procs, Goes(p), Owner(p)'
  PROVE  Owner(p) \/ Receives(prog[p][1])
<1>1. /\ prog[p] # << >> /\ 1 \in DOMAIN prog[p] /\ Tidy(prog[p])
      /\ \A i \in DOMAIN prog'[p] :
           i + 1 \in DOMAIN prog[p] \ {1} /\ prog'[p][i] = prog[p][i + 1]
      /\ \A j \in DOMAIN prog[p] \ {1} :
           \E i \in DOMAIN prog'[p] : i + 1 = j /\ prog'[p][i] = prog[p][j]
  BY GoesEntries DEF TidyHandlers
<1>2. PICK i \in DOMAIN prog'[p] : Owns(prog'[p][i])
  BY DEF Owner
<1>3. i + 1 \in DOMAIN prog[p] /\ Owns(prog[p][i + 1])
  BY <1>1, <1>2
<1>4. prog[p][1].do # "mark_fired"
  <2> SUFFICES ASSUME prog[p][1].do = "mark_fired"
               PROVE  FALSE
    OBVIOUS
  <2>1. 1 = Len(prog[p])
    BY <1>1, MarkIsLast
  <2>2. DOMAIN prog'[p] = 1 .. Len(prog[p]) - 1
    BY RestOfHandler DEF Goes
  <2>3. DOMAIN prog'[p] = {}
    <3>1. 1 .. 1 - 1 = {}
      OBVIOUS
    <3> QED BY <2>1, <2>2, <3>1
  <2> QED BY <1>2, <2>3
<1>5. ~Marks(p)
  BY <1>4, MarksGoOn DEF Owner
<1>6. \A j \in DOMAIN prog[p] \ {1} : ~Receives(prog[p][j])
  BY <1>1 DEF Owner
<1> QED BY <1>1, <1>3, <1>5, <1>6 DEF Owner

LEMMA OwnersByAside ==
  ASSUME WorkflowInv, WholeHandlers, TidyHandlers, NEW p \in Procs, Aside(p), Owner(p)'
  PROVE  Owner(p)
<1>1. PICK new \in Seq(HandlerSteps) :
        /\ Fresh(new) /\ Suits(p, new) /\ prog'[p] \in Seq(HandlerSteps)
        /\ DOMAIN new = 1 .. Len(new) /\ Len(new) \in Nat
        /\ \A i \in DOMAIN new : i \in DOMAIN prog'[p] /\ prog'[p][i] = new[i]
        /\ \A i \in DOMAIN prog'[p] \ DOMAIN new :
             /\ prog[p] # << >> /\ i - Len(new) + 1 \in DOMAIN prog[p] \ {1}
             /\ prog'[p][i] = prog[p][i - Len(new) + 1]
        /\ \/ prog[p] # << >> /\ prog[p][1].do \in Lasting
           \/ DOMAIN prog'[p] \ DOMAIN new # {}
           => \A j \in DOMAIN prog[p] \ {1} :
                \E i \in DOMAIN prog'[p] \ DOMAIN new : prog'[p][i] = prog[p][j]
  BY AsideEntries
<1>2. PICK i \in DOMAIN prog'[p] : Owns(prog'[p][i])
  BY DEF Owner
<1>3. prog[p] # << >> => /\ 1 \in DOMAIN prog[p] /\ prog[p][1].do \notin Busy
                         /\ DOMAIN prog[p] = 1 .. Len(prog[p]) /\ Len(prog[p]) \in Nat
                         /\ Tidy(prog[p])
  BY RestOfHandler DEF Aside, TidyHandlers
<1>4. prog[p] # << >> => \A j \in DOMAIN prog[p] : ~Receives(prog[p][j])
  <2> SUFFICES ASSUME prog[p] # << >>, NEW j \in DOMAIN prog[p], Receives(prog[p][j])
               PROVE  FALSE
    OBVIOUS
  <2>1. CASE j = 1
    BY <1>3, <2>1, TokenKinds DEF Busy
  <2>2. CASE j # 1
    <3>1. 1 \in 1 .. j - 1
      BY <1>3, <2>2
    <3>2. Records(prog[p][1])
      BY <1>3, <3>1 DEF Tidy
    <3> QED BY <1>3, <3>2, TokenKinds DEF Busy
  <2> QED BY <2>1, <2>2
<1>5. prog[p] # << >> /\ \/ prog[p][1].do \in Lasting
                         \/ DOMAIN prog'[p] \ DOMAIN new # {}
      => ~Marks(p)
  <2> SUFFICES ASSUME prog[p] # << >>, Marks(p),
                      \/ prog[p][1].do \in Lasting
                      \/ DOMAIN prog'[p] \ DOMAIN new # {}
               PROVE  FALSE
    OBVIOUS
  <2>1. PICK j \in DOMAIN prog[p] : prog[p][j].do = "mark_fired"
    BY DEF Marks
  <2>2. j # 1
    BY <1>3, <2>1 DEF Busy
  <2>3. \E x \in DOMAIN prog'[p] : prog'[p][x] = prog[p][j]
    BY <1>1, <2>1, <2>2
  <2> QED BY <2>1, <2>3 DEF Owner, Marks
<1>6. CASE i \in DOMAIN new
  <2>1. Owns(new[i]) /\ Token(new[i])
    BY <1>1, <1>2, <1>6, TokenKinds
  <2>2. \A j \in DOMAIN new : ~Receives(new[j])
    BY <1>1 DEF Owner
  <2>3. prog[p] # << >> /\ (Owns(prog[p][1]) \/ prog[p][1].do = "escalate")
    <3>1. ~(\A j \in DOMAIN new : Quiet(new[j]))
      BY <1>6, <2>1 DEF Quiet
    <3>2. ~(\A j \in DOMAIN new : j = 1 /\ new[j].do = "dedupe_and_parse")
      BY <1>6, <2>1, TokenKinds
    <3>3. prog[p] # << >> /\ Turns(prog[p][1], new)
      BY <1>1, <3>1, <3>2 DEF Suits
    <3> QED BY <1>6, <2>1, <2>2, <3>3 DEF Turns
  <2>4. prog[p][1].do # "escalate"
    <3> SUFFICES ASSUME prog[p][1].do = "escalate"
                 PROVE  FALSE
      OBVIOUS
    <3>1. Marks(p)
      BY <1>3, <2>3 DEF Tidy, Marks
    <3> QED BY <1>5, <2>3, <3>1 DEF Lasting
  <2>5. Owns(prog[p][1]) /\ Answers(prog[p][1])
    BY <1>3, <2>3, <2>4, TokenKinds
  <2>6. ~Marks(p)
    BY <1>3, <2>3, <2>5 DEF Tidy, Marks
  <2> QED BY <1>3, <1>4, <2>3, <2>5, <2>6 DEF Owner
<1>7. CASE i \notin DOMAIN new
  <2>1. prog[p] # << >> /\ \E j \in DOMAIN prog[p] : Owns(prog[p][j])
    BY <1>1, <1>2, <1>7
  <2>2. ~Marks(p)
    BY <1>5, <1>7, <2>1
  <2> QED BY <1>4, <2>1, <2>2 DEF Owner
<1> QED BY <1>6, <1>7

LEMMA OwnersAfter ==
  ASSUME WorkflowInv, WholeHandlers, TidyHandlers, NEW p \in Procs, Sweep(p) \/ HandlerStep(p),
         NEW q \in Procs, Owner(q)'
  PROVE  \/ Owner(q)
         \/ /\ q = p /\ prog[p] # << >> /\ Receives(prog[p][1])
            /\ \E kind \in {"write", "attempt"} : CommitCase(p, kind)
<1>1. CASE q # p
  <2>1. prog'[q] = prog[q]
    BY <1>1, OthersKept
  <2> QED BY <2>1 DEF Owner, Marks
<1>2. CASE q = p
  <2>1. ~Stops(p)
    BY <1>2 DEF Stops, Owner
  <2>2. ~Sweep(p)
    <3>1. Sweep(p) => 2 \in DOMAIN prog'[p] /\ prog'[p][2].do = "mark_fired"
      BY SweepStarts DEF Step
    <3> QED BY <1>2, <3>1 DEF Owner, Marks
  <2>3. Aside(p) => Owner(p)
    BY <1>2, OwnersByAside
  <2>4. ASSUME Goes(p)
        PROVE  Owner(p) \/ /\ prog[p] # << >> /\ Receives(prog[p][1])
                           /\ \E kind \in {"write", "attempt"} : CommitCase(p, kind)
    <3>1. Owner(p) \/ (prog[p] # << >> /\ Receives(prog[p][1]))
      BY <1>2, <2>4, OwnersByGoing DEF Goes
    <3>2. prog[p] # << >> /\ Receives(prog[p][1]) =>
            \E kind \in {"write", "attempt"} : CommitCase(p, kind)
      BY <2>1, HandlersMove, WritesCommit, TokenKinds
    <3> QED BY <3>1, <3>2
  <2> QED BY <1>2, <2>1, <2>2, <2>3, <2>4, AsideForms, HandlersMove
<1> QED BY <1>1, <1>2

\* What taking a reply, escalating and deciding do to the status.
LEMMA CommitStatus ==
  ASSUME WorkflowInv, NEW p \in Procs, NEW kind \in {"write", "attempt"}, CommitCase(p, kind)
  PROVE  LET s == prog[p][1]
         IN  /\ prog[p] # << >> /\ s.do = kind
             /\ Receives(s) => Waiting(row) /\ row'.status = "RESPONSE_RECEIVED"
             /\ row'.status = "ESCALATED" /\ row.status # "ESCALATED" =>
                  /\ MovesTo(s, "ESCALATED")
                  /\ PendingGates(row', GateTypes) = {}
                  /\ row.status # "CANCELLED"
             /\ row.status \in TakenUp /\ row'.status \notin TakenUp =>
                  Clarifies(s) /\ row.status = "ESCALATED" /\ Waiting(row')
                  /\ PendingGates(row, GateTypes) # {}
             /\ row.status = "ESCALATED" /\ row'.status = "ESCALATED" =>
                  \/ OpensGate(s)
                  \/ s.call.op = "closeGate" /\ PendingGates(row, GateTypes) # {}
                  \/ s.call.op \notin {"openGate", "closeGate", "transition", "kill"}
                     /\ row'.gates = row.gates
<1> DEFINE s == prog[p][1]
           k == s.call
<1>1. /\ s.do = kind /\ row \in Case /\ Orderly(row) /\ prog[p] # << >>
      /\ k \in HandlerCalls \cup Attempts /\ k \in Calls /\ Allowed(row, k)
      /\ kind = "write" => k \in HandlerCalls
      /\ k \in Attempts => row.status = "AGREED"
      /\ k.op = "openGate" /\ k.target = "none" => OpensGate(s)
      /\ row' = Result(row, k)
  <2>1. s = Head(prog[p]) /\ prog[p] # << >>
    BY CurrentStep DEF CommitCase
  <2> HIDE DEF s
  <2> QED BY <2>1, Committed
<1>2. kind = "attempt" => k \in Attempts
  BY AttemptedCalls
<1>3. k \in Attempts => k.op = "transition" /\ k.target = "RESOLVED"
  BY AttemptCalls
<1> HIDE DEF s
<1>4. CASE k.op = "transition"
  <2>1. MayTransition(row, k.target, Context(k.human, k.eligible)) /\ k \in TransitionCalls
        /\ row'.status = k.target /\ row'.gates = row.gates
    BY <1>1, <1>4, ResultFields, CallKinds DEF Allowed, TransitionAllowed
  <2>2. /\ row.status \notin TerminalStatuses
        /\ row.status = "ESCALATED" =>
             k.target \in {"RESOLVED", "AWAITING_CLARIFICATION", "CANCELLED"}
        /\ row.status = "RESOLVED" => k.target \in {"CLOSED", "CANCELLED"}
    BY <1>1, <2>1, LegalEdges
  <2>3. k.target \notin {"AWAITING_CLARIFICATION", "CANCELLED"}
    BY <2>1 DEF TransitionCalls, TransitionCall
  <2>4. k.target # row.status /\ k.target \in Transitions[row.status] \cup {"CANCELLED"}
        /\ row.status \in Statuses \ {"CLOSED", "CANCELLED"}
    BY <1>1, <2>1, <2>2 DEF MayTransition, IllegalTransition, AllowedTargets, TerminalStatuses, Case
  <2>5. k.target = "RESPONSE_RECEIVED" => Waiting(row)
    BY <2>4 DEF Transitions, Statuses, Waiting, AwaitingStatuses
  <2>6. row.status \in TakenUp => k.target \in TakenUp
    BY <2>2, <2>3, <2>4 DEF Transitions, Statuses, TakenUp
  <2>7. kind = "write" \/ k.target = "RESOLVED"
    BY <1>2, <1>3
  <2>8. k.target = "ESCALATED" => PendingGates(row', GateTypes) = {}
    <3>1. PendingGates(row, GateTypes) = {}
      BY <1>1, <1>4, MovesHaveNoOpenGate
    <3> QED BY <2>1, <3>1 DEF PendingGates
  <2> QED BY <1>1, <1>4, <2>1, <2>2, <2>5, <2>6, <2>7, <2>8
          DEF Receives, MovesTo, s, TerminalStatuses
<1>5. CASE k.op = "closeGate"
  <2>1. kind = "write" /\ k \in CloseGateCalls /\ row'.status = TargetStatus(row, k.target)
    BY <1>1, <1>2, <1>3, <1>5, CallKinds, ResultFields
  <2>2. HasOpenGate(row, {k.gate}) /\ k.gate \in GateTypes
    BY <1>1, <1>5, <2>1 DEF Allowed, CloseGateAllowed, GateActionable, CloseGateCalls, GateTypes
  <2>3. PendingGates(row, GateTypes) # {}
    BY <2>2 DEF HasOpenGate, PendingGates
  <2>4. k.target \in {"none", "RESOLVED", "AWAITING_CLARIFICATION"}
    BY <2>1 DEF CloseGateCalls
  <2>5. k.target = "AWAITING_CLARIFICATION" =>
          Clarifies(s) /\ row'.status = "AWAITING_CLARIFICATION" /\ Waiting(row')
    BY <1>1, <1>5, <2>1 DEF Clarifies, TargetStatus, Waiting, AwaitingStatuses
  <2>6. k.target = "AWAITING_CLARIFICATION" /\ row.status \in TakenUp => row.status = "ESCALATED"
    <3>1. k.target = "AWAITING_CLARIFICATION" =>
            MayTransition(row, k.target, Context(k.human, FALSE))
      BY <1>1, <1>5 DEF Allowed, CloseGateAllowed
    <3>2. k.target = "AWAITING_CLARIFICATION" =>
            /\ row.status \in Statuses \ {"CLOSED", "CANCELLED"}
            /\ k.target \in Transitions[row.status] \cup {"CANCELLED"}
      BY <1>1, <3>1, LegalEdges
         DEF MayTransition, IllegalTransition, AllowedTargets, TerminalStatuses, Case
    <3> QED BY <3>2 DEF Transitions, Statuses, TakenUp
  <2>7. /\ k.target = "none" => row'.status = row.status
        /\ k.target = "RESOLVED" => row'.status = "RESOLVED"
    BY <2>1 DEF TargetStatus
  <2>8. ~Receives(s) /\ ~OpensGate(s)
    BY <1>5 DEF Receives, MovesTo, OpensGate
  <2> QED BY <1>1, <1>5, <2>1, <2>3, <2>4, <2>5, <2>6, <2>7, <2>8 DEF TakenUp, s
<1>6. CASE k.op = "openGate"
  <2>1. kind = "write" /\ k \in OpenGateCalls /\ row'.status = TargetStatus(row, k.target)
    BY <1>1, <1>2, <1>3, <1>6, CallKinds, ResultFields
  <2>2. CASE k.target = "none"
    <3>1. row'.status = row.status /\ OpensGate(s) /\ ~Receives(s)
      BY <1>1, <1>6, <2>1, <2>2 DEF TargetStatus, Receives, MovesTo
    <3> QED BY <1>1, <3>1 DEF s
  <2>3. CASE k.target # "none"
    <3>1. k.target = "PENDING_ANALYST_APPROVAL" /\ row'.status = k.target
      BY <2>1, <2>3 DEF OpenGateCalls, TargetStatus
    <3>2. MayTransition(row, k.target, Context(FALSE, FALSE))
      BY <1>1, <1>6, <2>3 DEF Allowed, OpenGateAllowed
    <3>3. row.status = "COMMS_DRAFTED"
      BY <1>1, <3>1, <3>2, LegalEdges
    <3>4. ~Receives(s)
      BY <1>6 DEF Receives, MovesTo
    <3> QED BY <1>1, <3>1, <3>3, <3>4 DEF s, TakenUp
  <2> QED BY <2>2, <2>3
<1>7. CASE k.op = "kill"
  <2>1. row'.status = "CANCELLED" /\ ~Receives(s)
    BY <1>1, <1>7, ResultFields DEF Receives, MovesTo
  <2> QED BY <1>1, <2>1 DEF s, TakenUp
<1>8. CASE k.op \notin {"transition", "closeGate", "openGate", "kill"}
  <2>1. row'.status = row.status /\ row'.gates = row.gates /\ ~Receives(s)
    BY <1>1, <1>8, ResultFields DEF Receives, MovesTo
  <2> QED BY <1>1, <1>8, <2>1 DEF s
<1> QED BY <1>4, <1>5, <1>6, <1>7, <1>8

\* What a step that crosses no other handler does not do.
LEMMA SweepsWaitStays ==
  ASSUME WorkflowInv, TimedInv, SweepInv, ~disturbed, NEW p \in Procs, TimedStep(p)
  PROVE  SweepsWait'
<1> SUFFICES ASSUME ~disturbed', Waiting(row'), NEW q \in Procs, Marks(q)'
             PROVE  now' >= since' + ResponseWindow
  BY DEF SweepsWait, Waiting, Marks
<1>1. /\ Sweep(p) \/ HandlerStep(p)
      /\ ~Crosses(p)
      /\ now' = now /\ since' = IF Waiting(row') /\ row'.status # row.status THEN now ELSE since
  BY DEF TimedStep
<1>2. CASE Marks(q)
  <2>1. Sweeping(q)
    BY <1>2 DEF Marks, Sweeping
  <2>2. row'.status = row.status
    BY <1>1, <2>1 DEF Crosses
  <2>3. Waiting(row) /\ since' = since
    BY <1>1, <2>2 DEF Waiting
  <2> QED BY <1>1, <1>2, <2>3 DEF SweepInv, SweepsWait
<1>3. CASE ~Marks(q)
  <2>1. Sweep(p)
    BY <1>1, <1>3, MarksStay
  <2>2. row' = row /\ since' = since /\ Waiting(row)
    BY <1>1, <2>1, SweepStarts
  <2>3. \A x \in Procs : ~Begun(x)
    BY <1>1, <2>1, BegunIsYetToArm DEF Crosses, TimedInv
  <2>4. due >= since + ResponseWindow /\ due <= now
    BY <2>1, <2>2, <2>3 DEF TimedInv, WindowArmed, Sweep, IsDue
  <2> QED BY <1>1, <2>2, <2>4, TimedAssumption DEF TimedInv, ClockTypes
<1> QED BY <1>2, <1>3

\* Who owns the case after a step owned it before, or has just taken a reply; then the
\* case is owned by nobody else.
LEMMA OwnersKept ==
  ASSUME WorkflowInv, TimedInv, SweepInv, ~disturbed, NEW p \in Procs,
         Sweep(p) \/ HandlerStep(p), NEW q \in Procs, Owner(q)'
  PROVE  \/ Owner(q) /\ row.status \in TakenUp
         \/ /\ q = p /\ row'.status = "RESPONSE_RECEIVED"
            /\ \A x \in Procs : ~Owner(x)
<1> SUFFICES ASSUME ~Owner(q)
             PROVE  /\ q = p /\ row'.status = "RESPONSE_RECEIVED"
                    /\ \A x \in Procs : ~Owner(x)
  BY DEF SweepInv, OneOwner
<1>1. q = p /\ Receives(prog[p][1])
  BY OwnersAfter DEF TimedInv, SweepInv
<1>2. PICK kind \in {"write", "attempt"} : CommitCase(p, kind)
  BY OwnersAfter DEF TimedInv, SweepInv
<1>3. Waiting(row) /\ row'.status = "RESPONSE_RECEIVED"
  BY <1>1, <1>2, CommitStatus
<1>4. row.status \notin TakenUp
  BY <1>3 DEF Waiting, AwaitingStatuses, TakenUp
<1> QED BY <1>1, <1>3, <1>4 DEF SweepInv, OneOwner

LEMMA OwnersAlone ==
  ASSUME WorkflowInv, TimedInv, SweepInv, ~disturbed, NEW p \in Procs,
         Sweep(p) \/ HandlerStep(p), NEW x \in Procs, Owner(x)', NEW y \in Procs, Owner(y)'
  PROVE  x = y
<1>1. Owner(x) /\ Owner(y) => x = y
  BY DEF SweepInv, OneOwner
<1> QED BY <1>1, OwnersKept

\* A case that someone owns is not put in a wait: the gate where that is decided is not
\* open, or a sweep is about to arm its timers and would be crossed.
LEMMA OwnedIsTakenUp ==
  ASSUME WorkflowInv, TimedInv, SweepInv, ~disturbed, NEW p \in Procs,
         Sweep(p) \/ HandlerStep(p), ~Crosses(p), NEW q \in Procs, Owner(q)'
  PROVE  row'.status \in TakenUp
<1> SUFFICES ASSUME row'.status \notin TakenUp
             PROVE  FALSE
  OBVIOUS
<1>1. Owner(q) /\ row.status \in TakenUp
  BY OwnersKept DEF TakenUp
<1>2. PICK kind \in {"write", "attempt"} : CommitCase(p, kind)
  BY <1>1, CaseKept
<1>3. row.status = "ESCALATED" /\ Waiting(row') /\ PendingGates(row, GateTypes) # {}
  BY <1>1, <1>2, CommitStatus
<1>4. \A x \in Procs : ~Marks(x)
  <2>1. \A x \in Procs : Marks(x) => Sweeping(x)
    BY DEF Marks, Sweeping
  <2>2. row'.status # row.status
    BY <1>1
  <2> QED BY <1>3, <2>1, <2>2 DEF Crosses
<1> QED BY <1>1, <1>3, <1>4 DEF SweepInv, OneOwner, GateInHand

\* After a commit no other handler is about to open a gate on the copy it has.
LEMMA OthersOpenNothing ==
  ASSUME WorkflowInv, NEW p \in Procs, NEW kind \in {"write", "attempt"}, CommitCase(p, kind),
         NEW x \in Procs \ {p}
  PROVE  /\ ~AboutToOpen(x)' /\ prog'[x] = prog[x]
         /\ At(x, "open_gate2")' => At(x, "open_gate2")
<1>1. /\ row \in Case /\ row'.version = row.version + 1
      /\ snap' = [snap EXCEPT ![p] = row']
      /\ prog' = [prog EXCEPT ![p] = Tail(prog[p])]
  BY Committed
<1>2. /\ snap \in [Procs -> Case] /\ prog \in [Procs -> Seq(HandlerSteps)]
      /\ snap[x].version <= row.version
  BY DEF WorkflowInv, Types, CopiesAgree
<1>3. snap'[x] = snap[x] /\ prog'[x] = prog[x]
  BY <1>1, <1>2
<1>4. snap[x].version \in Nat /\ row.version \in Nat
  BY <1>1, <1>2 DEF Case
<1>5. snap'[x].version # row'.version
  BY <1>1, <1>2, <1>3, <1>4
<1> QED BY <1>3, <1>5 DEF AboutToOpen, At

\* A handler that escalates has no reply to take.
LEMMA EscalatesAlone ==
  ASSUME WorkflowInv, TidyHandlers, NEW p \in Procs,
         NEW kind \in {"write", "attempt"}, CommitCase(p, kind), MovesTo(prog[p][1], "ESCALATED")
  PROVE  \A j \in DOMAIN prog[p] : ~Receives(prog[p][j])
<1> SUFFICES ASSUME NEW j \in DOMAIN prog[p], Receives(prog[p][j])
             PROVE  FALSE
  OBVIOUS
<1>1. Tidy(prog[p]) /\ DOMAIN prog[p] = 1 .. Len(prog[p]) /\ Len(prog[p]) \in Nat
  BY HandlersMove, RestOfHandler DEF TidyHandlers, Goes
<1>2. j # 1
  BY DEF Receives, MovesTo
<1>3. 1 \in 1 .. j - 1
  BY <1>1, <1>2
<1>4. Records(prog[p][1])
  BY <1>1, <1>3 DEF Tidy
<1> QED BY <1>4 DEF Records, MovesTo

\* A case that escalates while a handler owns it is escalated by a sweep.
LEMMA EscalatedBySweep ==
  ASSUME WorkflowInv, TimedInv, SweepInv, ~disturbed, NEW p \in Procs,
         NEW kind \in {"write", "attempt"}, CommitCase(p, kind), MovesTo(prog[p][1], "ESCALATED"),
         NEW q \in Procs, Owner(q), Owner(q)'
  PROVE  Marks(p)
<1>1. Goes(p)
  BY HandlersMove
<1>2. /\ 1 \in DOMAIN prog[p] /\ Tidy(prog[p]) /\ Owns(prog[p][1]) /\ Token(prog[p][1])
  BY <1>1, GoesEntries, TokenKinds DEF Owns, SweepInv, TidyHandlers
<1>3. q # p
  <2> SUFFICES ASSUME q = p
               PROVE  FALSE
    OBVIOUS
  <2>1. PICK i \in DOMAIN prog'[p] : Owns(prog'[p][i])
    BY DEF Owner
  <2>2. i + 1 \in DOMAIN prog[p] \ {1} /\ Token(prog[p][i + 1])
    BY <1>1, <2>1, GoesEntries, TokenKinds
  <2> QED BY <1>2, <2>2 DEF Tidy
<1>4. ~Owner(p)
  BY <1>3 DEF SweepInv, OneOwner
<1>5. \A j \in DOMAIN prog[p] : ~Receives(prog[p][j])
  BY EscalatesAlone DEF SweepInv
<1> QED BY <1>2, <1>4, <1>5 DEF Owner

LEMMA GateInHandStarts ==
  ASSUME WorkflowInv, TimedInv, SweepInv, ~disturbed, NEW p \in Procs,
         Sweep(p) \/ HandlerStep(p), NEW q \in Procs, Owner(q), Owner(q)',
         row.status # "ESCALATED", row'.status = "ESCALATED"
  PROVE  GateInHand'
<1>1. PICK kind \in {"write", "attempt"} : CommitCase(p, kind)
  BY CaseKept
<1>2. /\ MovesTo(prog[p][1], "ESCALATED") /\ PendingGates(row', GateTypes) = {}
      /\ row.status # "CANCELLED"
  BY <1>1, CommitStatus
<1>3. Marks(p)
  BY <1>1, <1>2, EscalatedBySweep
<1>4. Marks(p)'
  BY <1>1, <1>2, <1>3, HandlersMove, MarksGoOn DEF MovesTo
<1>5. ASSUME NEW x \in Procs, At(x, "open_gate2")' \/ AboutToOpen(x)'
      PROVE  Marks(x)'
  <2> SUFFICES ASSUME x # p
               PROVE  FALSE
    BY <1>4
  <2>1. At(x, "open_gate2")
    BY <1>1, <1>5, OthersOpenNothing
  <2>2. row.status \in {"ESCALATED", "CANCELLED"}
    BY <2>1 DEF WorkflowInv, Holds, MayOpen
  <2> QED BY <1>2, <2>2
<1>6. PendingGates(row, GateTypes)' = {}
  BY <1>2 DEF PendingGates
<1> QED BY <1>5, <1>6 DEF GateInHand

\* A handler comes to the opening of a gate, without a commit, only from the node that
\* opens one; and then it was about to open it before.
LEMMA OpenersLast ==
  ASSUME WorkflowInv, WholeHandlers, NEW p \in Procs, Sweep(p) \/ HandlerStep(p),
         \A kind \in {"write", "attempt"} : ~CommitCase(p, kind),
         At(p, "open_gate2") \/ AboutToOpen(p) => Marks(p),
         At(p, "open_gate2")' \/ AboutToOpen(p)'
  PROVE  Marks(p)'
<1>1. row' = row /\ prog'[p] # << >> /\ Opener(prog'[p][1]) /\ Led(prog'[p][1])
  BY CaseKept DEF At, AboutToOpen, Opener, Led
<1>2. ~Stops(p) /\ ~Sweep(p)
  BY <1>1, SweepStarts DEF Stops, Opener, OpensGate, Step
<1>3. prog[p] # << >> /\ prog'[p] = Tail(prog[p]) => prog[p][1].do = "write"
  <2> SUFFICES ASSUME prog[p] # << >>, prog'[p] = Tail(prog[p])
               PROVE  prog[p][1].do = "write"
    OBVIOUS
  <2>1. Leads(prog[p][1], prog'[p][1])
    BY <1>1, CurrentStep DEF Doing, Idle
  <2> QED BY <1>1, <2>1, OnlyWritesLead
<1>4. ~Goes(p)
  <2> SUFFICES ASSUME Goes(p)
               PROVE  FALSE
    OBVIOUS
  <2>1. prog[p] # << >> /\ prog[p][1].do = "write"
    BY <1>3 DEF Goes
  <2>2. WriteRaises(p)
    BY <2>1, WritesCommit
  <2> QED BY <1>2, <2>2, HandlersMove
<1>5. Aside(p)
  BY <1>2, <1>4, AsideForms, HandlersMove
<1>6. PICK new \in Seq(HandlerSteps), rest \in Seq(HandlerSteps) :
        /\ Suits(p, new) /\ prog'[p] = new \o rest
        /\ rest # << >> => prog[p] # << >> /\ rest = Tail(prog[p])
  BY <1>5 DEF Aside
<1>7. new # << >> /\ prog'[p][1] = new[1]
  <2>1. CASE new = << >>
    <3>1. prog'[p] = rest
      BY <1>6, <2>1
    <3>2. prog[p] # << >> /\ prog[p][1].do = "write"
      BY <1>1, <1>3, <1>6, <3>1
    <3> QED BY <1>5, <3>2 DEF Aside, Busy
  <2>2. CASE new # << >>
    BY <1>6, <2>2
  <2> QED BY <2>1, <2>2
<1>8. /\ OpensGate(prog'[p][1])
      /\ At(p, "open_gate2") \/ (At(p, "reopen") /\ snap'[p] = snap[p])
  BY <1>1, <1>6, <1>7 DEF Suits
<1>9. snap'[p].version = row.version
  BY <1>1, <1>8 DEF At, OpensGate, AboutToOpen
<1>10. Marks(p)
  BY <1>8, <1>9 DEF AboutToOpen
<1>11. prog[p][1].do \in Lasting
  BY <1>8 DEF At, Lasting
<1> QED BY <1>5, <1>10, <1>11, MarksLast

\* Only a commit changes another handler's copy or steps.
LEMMA OthersUntouched ==
  ASSUME WorkflowInv, NEW p \in Procs, Sweep(p) \/ HandlerStep(p), NEW x \in Procs \ {p}
  PROVE  prog'[x] = prog[x] /\ snap'[x] = snap[x]
<1>1. prog'[x] = prog[x]
  BY OthersKept
<1>2. Aside(p) \/ Sweep(p) => snap'[x] = snap[x]
  BY SweepStarts DEF Aside
<1>3. ASSUME NEW kind \in {"write", "attempt"}, CommitCase(p, kind)
      PROVE  snap'[x] = snap[x]
  <2>1. snap \in [Procs -> Case]
    BY DEF WorkflowInv, Types
  <2> QED BY <1>3, <2>1 DEF CommitCase
<1>4. CancelTimers(p) \/ WriteRaises(p) \/ ArmTimers(p) \/ MarkFired(p) => snap'[x] = snap[x]
  BY DEF CancelTimers, WriteRaises, ArmTimers, MarkFired
<1> QED BY <1>1, <1>2, <1>3, <1>4, AsideForms

LEMMA GateInHandStays ==
  ASSUME WorkflowInv, TimedInv, SweepInv, ~disturbed, NEW p \in Procs,
         Sweep(p) \/ HandlerStep(p), ~Crosses(p), NEW q \in Procs, Owner(q),
         row.status = "ESCALATED", row'.status = "ESCALATED", GateInHand
  PROVE  GateInHand'
\* A sweep that has its gate's timers to arm arms them undisturbed, so not while q runs.
<1>1. ASSUME NEW m \in Procs, Marks(m), InGap(m), At(m, "arm")
      PROVE  GateInHand'
  <2>1. CASE m = p
    <3>1. Doing(p, "arm") /\ ~Arms(p)
      <4>1. prog[p] # << >> /\ prog[p][1].do = "arm" /\ Head(prog[p]) = prog[p][1]
            /\ 1 \in DOMAIN prog[p]
        BY <1>1, <2>1, RestOfHandler DEF At
      <4>2. prog[p][1].kinds \in Windows /\ prog[p][1].kinds # Response
        BY <1>1, <2>1, <4>1 DEF TimedInv, WholeHandlers, ArmsWindow, InGap, Gap, Decides
      <4> QED BY <4>1, <4>2, GateTimersApart DEF Arms, Doing, Idle
    <3>2. q # p /\ ~Idle(q)
      BY <1>1, <2>1 DEF Owner, Idle
    <3> QED BY <3>1, <3>2 DEF Crosses
  <2>2. CASE m # p
    <3>1. prog'[m] = prog[m]
      BY <2>2, OthersUntouched
    <3>2. Marks(m)' /\ InGap(m)' /\ At(m, "arm")'
      BY <1>1, <3>1 DEF Marks, InGap, At
    <3> QED BY <3>2 DEF GateInHand
  <2> QED BY <2>1, <2>2
<1>2. ASSUME PendingGates(row, GateTypes) = {},
             \A x \in Procs : At(x, "open_gate2") \/ AboutToOpen(x) => Marks(x)
      PROVE  GateInHand'
  <2>1. ASSUME NEW kind \in {"write", "attempt"}, CommitCase(p, kind)
        PROVE  GateInHand'
    <3> DEFINE s == prog[p][1]
    <3>1. /\ prog[p] # << >>
          /\ OpensGate(s) \/ row'.gates = row.gates
      BY <1>2, <2>1, CommitStatus
    <3>2. Goes(p)
      BY <2>1, HandlersMove
    <3>3. CASE OpensGate(s)
      <4>1. snap[p] = row
        BY <2>1, Committed
      <4>2. Marks(p)
        BY <1>2, <3>1, <3>3, <4>1 DEF AboutToOpen
      <4>3. Marks(p)'
        BY <3>2, <3>3, <4>2, MarksGoOn DEF OpensGate
      <4>4. prog'[p] # << >> /\ ArmsKinds(prog'[p][1], GateTimers(s.call.gate))
        <5>1. Opens(s) /\ NeedsNext(s)
          BY <3>3 DEF OpensGate, Opens, NeedsNext
        <5> QED BY <3>2, <5>1, GoesOn DEF Bound, TimedInv
      <4>5. GateTimers(s.call.gate) # Response
        BY GateTimersApart DEF Response
      <4>6. InGap(p)' /\ At(p, "arm")'
        BY <4>4, <4>5 DEF InGap, Gap, ArmsKinds, At
      <4> QED BY <4>3, <4>6 DEF GateInHand
    <3>4. CASE row'.gates = row.gates
      <4>1. PendingGates(row, GateTypes)' = {}
        BY <1>2, <3>4 DEF PendingGates
      <4>2. MayOpen(row, "DISPUTE_ESCALATION") /\ ~HasOpenGate(row, GateTypes)
        BY <1>2 DEF MayOpen, HasOpenGate
      <4>3. ~At(p, "open_gate2")' /\ ~AboutToOpen(p)'
        BY <2>1, <4>2, CommitLeads DEF AboutToOpen
      <4>4. ASSUME NEW x \in Procs, At(x, "open_gate2")' \/ AboutToOpen(x)'
            PROVE  Marks(x)'
        <5>1. x # p
          BY <4>3, <4>4
        <5>2. At(x, "open_gate2") /\ prog'[x] = prog[x]
          BY <2>1, <4>4, <5>1, OthersOpenNothing
        <5> QED BY <1>2, <5>2 DEF Marks
      <4> QED BY <4>1, <4>4 DEF GateInHand
    <3> QED BY <3>1, <3>3, <3>4
  <2>2. ASSUME \A kind \in {"write", "attempt"} : ~CommitCase(p, kind)
        PROVE  GateInHand'
    <3>1. row' = row
      BY <2>2, CaseKept
    <3>2. PendingGates(row, GateTypes)' = {}
      BY <1>2, <3>1 DEF PendingGates
    <3>3. ASSUME NEW x \in Procs, At(x, "open_gate2")' \/ AboutToOpen(x)'
          PROVE  Marks(x)'
      <4>1. CASE x = p
        BY <1>2, <2>2, <3>3, <4>1, OpenersLast DEF TimedInv
      <4>2. CASE x # p
        <5>1. prog'[x] = prog[x] /\ snap'[x] = snap[x]
          BY <4>2, OthersUntouched
        <5>2. At(x, "open_gate2") \/ AboutToOpen(x)
          BY <3>1, <3>3, <5>1 DEF At, AboutToOpen
        <5> QED BY <1>2, <5>1, <5>2 DEF Marks
      <4> QED BY <4>1, <4>2
    <3> QED BY <3>2, <3>3 DEF GateInHand
  <2> QED BY <2>1, <2>2
<1> QED BY <1>1, <1>2 DEF GateInHand

LEMMA OneOwnerStays ==
  ASSUME WorkflowInv, TimedInv, SweepInv, ~disturbed, NEW p \in Procs, TimedStep(p)
  PROVE  OneOwner'
<1> SUFFICES ASSUME ~disturbed'
             PROVE  /\ \A x, y \in Procs : Owner(x)' /\ Owner(y)' => x = y
                    /\ \A q \in Procs : Owner(q)' => row'.status \in TakenUp
                    /\ \A q \in Procs : Owner(q)' /\ row'.status = "ESCALATED" => GateInHand'
  BY DEF OneOwner, TakenUp
<1>1. (Sweep(p) \/ HandlerStep(p)) /\ ~Crosses(p)
  BY DEF TimedStep
<1>2. \A x, y \in Procs : Owner(x)' /\ Owner(y)' => x = y
  BY <1>1, OwnersAlone
<1>3. \A q \in Procs : Owner(q)' => row'.status \in TakenUp
  BY <1>1, OwnedIsTakenUp
<1>4. ASSUME NEW q \in Procs, Owner(q)', row'.status = "ESCALATED"
      PROVE  GateInHand'
  <2>1. Owner(q)
    BY <1>1, <1>4, OwnersKept
  <2>2. CASE row.status = "ESCALATED"
    <3>1. GateInHand
      BY <2>1, <2>2 DEF SweepInv, OneOwner
    <3> QED BY <1>1, <1>4, <2>1, <2>2, <3>1, GateInHandStays
  <2>3. CASE row.status # "ESCALATED"
    BY <1>1, <1>4, <2>1, <2>3, GateInHandStarts
  <2> QED BY <2>2, <2>3
<1> QED BY <1>2, <1>3, <1>4

LEMMA SweepStart ==
  ASSUME TimedInit
  PROVE  SweepInv
<1>1. \A p \in Procs : prog[p] \in {SubmitForApproval, << >>}
  BY DEF TimedInit, Init
<1>2. \A p \in Procs : Plain(prog[p])
  BY <1>1, PlainSubmission, PlainEmpty
<1>3. \A p \in Procs : \A i \in DOMAIN prog[p] : prog[p][i] \in Minor
  BY <1>2 DEF Plain
<1>4. \A p \in Procs : \A i \in DOMAIN prog[p] :
        Quiet(prog[p][i]) /\ prog[p][i].do # "mark_fired"
  BY <1>3 DEF Minor, Unmarked
<1>5. TidyHandlers
  BY <1>4, TidyQuiet DEF TidyHandlers
<1>6. \A p \in Procs : ~Owner(p) /\ ~Marks(p)
  BY <1>4, TokenKinds DEF Owner, Marks, Quiet
<1> QED BY <1>5, <1>6 DEF SweepInv, OneOwner, SweepsWait

\* No handler runs while the clock goes on.
LEMMA SweepTick ==
  ASSUME SweepInv, Tick
  PROVE  SweepInv'
<1>1. prog' = prog /\ \A p \in Procs : prog'[p] = << >>
  BY DEF Tick, vars, Idle
<1>2. TidyHandlers'
  BY <1>1 DEF SweepInv, TidyHandlers
<1>3. \A p \in Procs : ~Owner(p)' /\ ~Marks(p)'
  BY <1>1 DEF Owner, Marks
<1> QED BY <1>2, <1>3 DEF SweepInv, OneOwner, SweepsWait

LEMMA SweepStutter ==
  ASSUME SweepInv, UNCHANGED timedVars
  PROVE  SweepInv'
<1>1. /\ row' = row /\ snap' = snap /\ prog' = prog
      /\ since' = since /\ disturbed' = disturbed /\ now' = now
  BY DEF timedVars, vars
<1>2. \A p : (Owner(p)' <=> Owner(p)) /\ (Marks(p)' <=> Marks(p))
  BY <1>1 DEF Owner, Marks
<1>3. GateInHand' <=> GateInHand
  BY <1>1, <1>2 DEF GateInHand, PendingGates, InGap, At, AboutToOpen
<1>4. TidyHandlers'
  BY <1>1 DEF SweepInv, TidyHandlers
<1> QED BY <1>1, <1>2, <1>3, <1>4 DEF SweepInv, OneOwner, SweepsWait, Waiting

(* A sweep that waits to mark the timer fired waits for a window that has    *)
(* passed, and only one handler at a time deals with a reply that came.      *)
THEOREM SweepInvariant == TimedSpec => []SweepInv
<1>1. TimedInit => SweepInv
  BY SweepStart
<1>2. WorkflowInv /\ TimedInv /\ SweepInv /\ [TimedNext]_timedVars => SweepInv'
  <2>1. ASSUME WorkflowInv, TimedInv, SweepInv, ~disturbed, NEW p \in Procs, TimedStep(p)
        PROVE  SweepInv'
    <3>1. TidyHandlers'
      BY <2>1, TidyStays DEF SweepInv, TimedInv, TimedStep
    <3>2. OneOwner' /\ SweepsWait'
      BY <2>1, OneOwnerStays, SweepsWaitStays
    <3> QED BY <3>1, <3>2 DEF SweepInv
  <2> QED BY <2>1, SweepTick, SweepStutter DEF TimedNext
<1> QED BY <1>1, <1>2, TimedImplementsWorkflow, WorkflowInvariant, TimedInvariant, PTL
        DEF TimedSpec

(* While no handler crosses another, no case is taken out of a wait for the  *)
(* counterparty before the window of that wait has passed: neither by a      *)
(* timer left over from an earlier wait, nor by a handler that still deals   *)
(* with the reply to one.                                                    *)
THEOREM WaitsAreNotCutShort == TimedSpec => WaitsLastTheirWindow
<1>1. WorkflowInv /\ TimedInv /\ SweepInv /\ [TimedNext]_timedVars =>
        [Waiting(row) /\ row'.status = "ESCALATED" =>
           disturbed \/ now >= since + ResponseWindow]_timedVars
  <2> SUFFICES ASSUME WorkflowInv, TimedInv, SweepInv, ~disturbed, TimedNext,
                      Waiting(row), row'.status = "ESCALATED"
               PROVE  now >= since + ResponseWindow
    BY DEF TimedNext
  <2>1. row.status # "ESCALATED" /\ row.status \notin TakenUp
    BY DEF Waiting, AwaitingStatuses, TakenUp
  <2>2. ~Tick
    BY <2>1 DEF Tick, vars
  <2>3. PICK p \in Procs : Sweep(p) \/ HandlerStep(p)
    BY <2>2 DEF TimedNext, TimedStep
  <2>4. PICK kind \in {"write", "attempt"} : CommitCase(p, kind)
    BY <2>1, <2>3, CaseKept
  <2>5. MovesTo(prog[p][1], "ESCALATED")
    BY <2>1, <2>4, CommitStatus
  <2>6. Marks(p)
    <3>1. ~Owner(p)
      BY <2>1 DEF SweepInv, OneOwner
    <3>2. 1 \in DOMAIN prog[p] /\ Owns(prog[p][1])
      BY <2>4, <2>5, HandlersMove, GoesEntries DEF Owns
    <3>3. \A j \in DOMAIN prog[p] : ~Receives(prog[p][j])
      BY <2>4, <2>5, EscalatesAlone DEF SweepInv
    <3> QED BY <3>1, <3>2, <3>3 DEF Owner
  <2> QED BY <2>6 DEF SweepInv, SweepsWait
<1> QED BY <1>1, TimedImplementsWorkflow, WorkflowInvariant, TimedInvariant, SweepInvariant, PTL
        DEF TimedSpec, WaitsLastTheirWindow

=============================================================================
