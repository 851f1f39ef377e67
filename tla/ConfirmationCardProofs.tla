------------------------- MODULE ConfirmationCardProofs -------------------------
(***************************************************************************)
(* Proofs about ConfirmationCard: the cards use the gate only as it allows,*)
(* so that what is proved of the gate holds beneath them, and what the     *)
(* user reads on a card is true.                                           *)
(***************************************************************************)
EXTENDS ConfirmationCard, TLAPS

GateFacts == INSTANCE ConfirmationGateProofs

-------------------------------------------------------------------------------
(* The two instances of the gate are one specification.                     *)

LEMMA SameLedgerSteps ==
  /\ \A b, q, k : Gate!Ledger!Book(b, q, k) => GateFacts!Ledger!Book(b, q, k)
  /\ \A b, to : Gate!Ledger!Transition(b, to) => GateFacts!Ledger!Transition(b, to)
  /\ \A q : Gate!Ledger!CreateQuote(q) => GateFacts!Ledger!CreateQuote(q)
  /\ \A q : Gate!Ledger!HoldQuote(q) => GateFacts!Ledger!HoldQuote(q)
<1>1. \A b, q, k : Gate!Ledger!Book(b, q, k) => GateFacts!Ledger!Book(b, q, k)
  BY DEF Gate!Ledger!Book, GateFacts!Ledger!Book, Gate!Ledger!BookedRow,
     GateFacts!Ledger!BookedRow, Gate!Ledger!Exists, GateFacts!Ledger!Exists,
     Gate!Ledger!BirthEvents, GateFacts!Ledger!BirthEvents, Gate!Ledger!None,
     GateFacts!Ledger!None, Gate!Ledger!InitialStatus, GateFacts!Ledger!InitialStatus
<1>2. \A b, to : Gate!Ledger!Transition(b, to) => GateFacts!Ledger!Transition(b, to)
  BY Zenon DEF Gate!Ledger!Transition, GateFacts!Ledger!Transition, Gate!Ledger!Moved,
     GateFacts!Ledger!Moved, Gate!Ledger!Exists, GateFacts!Ledger!Exists,
     Gate!Ledger!CanTransition, GateFacts!Ledger!CanTransition, Gate!Ledger!Transitions,
     GateFacts!Ledger!Transitions, Gate!Ledger!BookingStatus,
     GateFacts!Ledger!BookingStatus, Gate!Ledger!None, GateFacts!Ledger!None,
     Gate!Ledger!InitialStatus, GateFacts!Ledger!InitialStatus
<1>3. \A q : Gate!Ledger!CreateQuote(q) => GateFacts!Ledger!CreateQuote(q)
  BY DEF Gate!Ledger!CreateQuote, GateFacts!Ledger!CreateQuote, Gate!Ledger!None,
     GateFacts!Ledger!None
<1>4. \A q : Gate!Ledger!HoldQuote(q) => GateFacts!Ledger!HoldQuote(q)
  BY Zenon DEF Gate!Ledger!HoldQuote, GateFacts!Ledger!HoldQuote, Gate!Ledger!QuoteStatus,
     GateFacts!Ledger!QuoteStatus, Gate!Ledger!CanMoveQuote, GateFacts!Ledger!CanMoveQuote,
     Gate!Ledger!QuoteTransitions, GateFacts!Ledger!QuoteTransitions
<1>5. QED
  BY <1>1, <1>2, <1>3, <1>4

LEMMA SameHandlerSteps ==
  \A r : Gate!Step(r) => GateFacts!Step(r)
<1>1. \A r : Gate!Claim(r) => GateFacts!Claim(r)
  BY DEF Gate!Claim, GateFacts!Claim, Gate!Claimable, GateFacts!Claimable, Gate!Consumed,
     GateFacts!Consumed, Gate!ledger, GateFacts!ledger, Gate!None, GateFacts!None,
     Gate!Answer, GateFacts!Answer, Gate!Goto, GateFacts!Goto
<1>2. \A r : Gate!LoseClaim(r) => GateFacts!LoseClaim(r)
  BY DEF Gate!LoseClaim, GateFacts!LoseClaim, Gate!Claimable, GateFacts!Claimable,
     Gate!ledger, GateFacts!ledger, Gate!None, GateFacts!None, Gate!Answer,
     GateFacts!Answer, Gate!Goto, GateFacts!Goto
<1>3. \A r : Gate!Find(r) => GateFacts!Find(r)
  BY DEF Gate!Find, GateFacts!Find, Gate!Stored, GateFacts!Stored, Gate!ledger,
     GateFacts!ledger, Gate!None, GateFacts!None, Gate!Answer, GateFacts!Answer, Gate!Goto,
     GateFacts!Goto
<1>4. \A r : Gate!MarkExpired(r) => GateFacts!MarkExpired(r)
  BY DEF Gate!MarkExpired, GateFacts!MarkExpired, Gate!Expired, GateFacts!Expired,
     Gate!ledger, GateFacts!ledger, Gate!None, GateFacts!None, Gate!Answer,
     GateFacts!Answer, Gate!Goto, GateFacts!Goto
<1>5. \A r : Gate!StoreFails(r) => GateFacts!StoreFails(r)
  BY DEF Gate!StoreFails, GateFacts!StoreFails, Gate!Claimable, GateFacts!Claimable,
     Gate!Consumed, GateFacts!Consumed, Gate!Expired, GateFacts!Expired, Gate!StoredOrNot,
     GateFacts!StoredOrNot, Gate!ledger, GateFacts!ledger, Gate!None, GateFacts!None,
     Gate!Answer, GateFacts!Answer, Gate!Goto, GateFacts!Goto
<1>6. \A r : Gate!CreateBooks(r) => GateFacts!CreateBooks(r)
  BY DEF Gate!CreateBooks, GateFacts!CreateBooks, Gate!Ledger!Book, GateFacts!Ledger!Book,
     Gate!Ledger!BookedRow, GateFacts!Ledger!BookedRow, Gate!Ledger!Exists,
     GateFacts!Ledger!Exists, Gate!Ledger!BirthEvents, GateFacts!Ledger!BirthEvents,
     Gate!Ledger!None, GateFacts!Ledger!None, Gate!Ledger!InitialStatus,
     GateFacts!Ledger!InitialStatus, Gate!ledger, GateFacts!ledger, Gate!None,
     GateFacts!None, Gate!Answer, GateFacts!Answer, Gate!Goto, GateFacts!Goto
<1>7. \A r : Gate!CreateRefused(r) => GateFacts!CreateRefused(r)
  BY DEF Gate!CreateRefused, GateFacts!CreateRefused, Gate!ledger, GateFacts!ledger,
     Gate!None, GateFacts!None, Gate!Answer, GateFacts!Answer, Gate!Goto, GateFacts!Goto
<1>8. \A r : Gate!CreateFails(r) => GateFacts!CreateFails(r)
  BY DEF Gate!CreateFails, GateFacts!CreateFails, Gate!Ledger!Book, GateFacts!Ledger!Book,
     Gate!Ledger!BookedRow, GateFacts!Ledger!BookedRow, Gate!Ledger!Exists,
     GateFacts!Ledger!Exists, Gate!Ledger!BirthEvents, GateFacts!Ledger!BirthEvents,
     Gate!Ledger!None, GateFacts!Ledger!None, Gate!Ledger!InitialStatus,
     GateFacts!Ledger!InitialStatus, Gate!ledger, GateFacts!ledger, Gate!None,
     GateFacts!None, Gate!Answer, GateFacts!Answer, Gate!Goto, GateFacts!Goto
<1>9. \A r : Gate!Confirm(r) => GateFacts!Confirm(r)
  BY Zenon DEF Gate!Confirm, GateFacts!Confirm, Gate!Ledger!Transition,
     GateFacts!Ledger!Transition, Gate!Ledger!Moved, GateFacts!Ledger!Moved,
     Gate!Ledger!Exists, GateFacts!Ledger!Exists, Gate!Ledger!CanTransition,
     GateFacts!Ledger!CanTransition, Gate!Ledger!Transitions, GateFacts!Ledger!Transitions,
     Gate!Ledger!BookingStatus, GateFacts!Ledger!BookingStatus, Gate!Ledger!None,
     GateFacts!Ledger!None, Gate!Ledger!InitialStatus, GateFacts!Ledger!InitialStatus,
     Gate!ledger, GateFacts!ledger, Gate!None, GateFacts!None, Gate!Answer,
     GateFacts!Answer, Gate!Goto, GateFacts!Goto
<1>10. \A r : Gate!ConfirmRefused(r) => GateFacts!ConfirmRefused(r)
  BY Zenon DEF Gate!ConfirmRefused, GateFacts!ConfirmRefused, Gate!CanTransition,
     GateFacts!CanTransition, Gate!Transitions, GateFacts!Transitions, Gate!BookingStatus,
     GateFacts!BookingStatus, Gate!InitialStatus, GateFacts!InitialStatus, Gate!ledger,
     GateFacts!ledger, Gate!None, GateFacts!None, Gate!Answer, GateFacts!Answer, Gate!Goto,
     GateFacts!Goto
<1>11. \A r : Gate!ConfirmFails(r) => GateFacts!ConfirmFails(r)
  BY Zenon DEF Gate!ConfirmFails, GateFacts!ConfirmFails, Gate!Ledger!Transition,
     GateFacts!Ledger!Transition, Gate!Ledger!Moved, GateFacts!Ledger!Moved,
     Gate!Ledger!Exists, GateFacts!Ledger!Exists, Gate!Ledger!CanTransition,
     GateFacts!Ledger!CanTransition, Gate!Ledger!Transitions, GateFacts!Ledger!Transitions,
     Gate!Ledger!BookingStatus, GateFacts!Ledger!BookingStatus, Gate!Ledger!None,
     GateFacts!Ledger!None, Gate!Ledger!InitialStatus, GateFacts!Ledger!InitialStatus,
     Gate!ledger, GateFacts!ledger, Gate!None, GateFacts!None, Gate!Answer,
     GateFacts!Answer, Gate!Goto, GateFacts!Goto
<1>12. \A r : Gate!Read(r) => GateFacts!Read(r)
  BY DEF Gate!Read, GateFacts!Read, Gate!MaxConfirmAttempts, GateFacts!MaxConfirmAttempts,
     Gate!ledger, GateFacts!ledger, Gate!None, GateFacts!None, Gate!Answer,
     GateFacts!Answer, Gate!Goto, GateFacts!Goto
<1>13. \A r : Gate!LastRead(r) => GateFacts!LastRead(r)
  BY DEF Gate!LastRead, GateFacts!LastRead, Gate!ledger, GateFacts!ledger, Gate!None,
     GateFacts!None, Gate!Answer, GateFacts!Answer, Gate!Goto, GateFacts!Goto
<1>14. \A r : Gate!ReadFails(r) => GateFacts!ReadFails(r)
  BY DEF Gate!ReadFails, GateFacts!ReadFails, Gate!ledger, GateFacts!ledger, Gate!None,
     GateFacts!None, Gate!Answer, GateFacts!Answer, Gate!Goto, GateFacts!Goto
<1>15. \A r : Gate!Record(r) => GateFacts!Record(r)
  BY DEF Gate!Record, GateFacts!Record, Gate!Recorded, GateFacts!Recorded, Gate!ledger,
     GateFacts!ledger, Gate!None, GateFacts!None, Gate!Answer, GateFacts!Answer, Gate!Goto,
     GateFacts!Goto
<1>16. \A r : Gate!RecordFails(r) => GateFacts!RecordFails(r)
  BY DEF Gate!RecordFails, GateFacts!RecordFails, Gate!Recorded, GateFacts!Recorded,
     Gate!StoredOrNot, GateFacts!StoredOrNot, Gate!ledger, GateFacts!ledger, Gate!None,
     GateFacts!None, Gate!Answer, GateFacts!Answer, Gate!Goto, GateFacts!Goto
<1>17. \A r : Gate!RecordFailure(r) => GateFacts!RecordFailure(r)
  BY DEF Gate!RecordFailure, GateFacts!RecordFailure, Gate!Recorded, GateFacts!Recorded,
     Gate!FailureStatus, GateFacts!FailureStatus, Gate!ledger, GateFacts!ledger, Gate!None,
     GateFacts!None, Gate!Answer, GateFacts!Answer, Gate!Goto, GateFacts!Goto
<1>18. \A r : Gate!RecordFailureFails(r) => GateFacts!RecordFailureFails(r)
  BY DEF Gate!RecordFailureFails, GateFacts!RecordFailureFails, Gate!Recorded,
     GateFacts!Recorded, Gate!FailureStatus, GateFacts!FailureStatus, Gate!StoredOrNot,
     GateFacts!StoredOrNot, Gate!ledger, GateFacts!ledger, Gate!None, GateFacts!None,
     Gate!Answer, GateFacts!Answer, Gate!Goto, GateFacts!Goto
<1>19. QED
  BY <1>1, <1>2, <1>3, <1>4, <1>5, <1>6, <1>7, <1>8, <1>9, <1>10, <1>11, <1>12, <1>13,
     <1>14, <1>15, <1>16, <1>17, <1>18 DEF Gate!Step, GateFacts!Step

LEMMA SameInit == Gate!Init => GateFacts!Init
  BY DEF Gate!Init, GateFacts!Init, Gate!Unminted, GateFacts!Unminted, Gate!Idle,
     GateFacts!Idle, Gate!None, GateFacts!None, Gate!Ledger!Init, GateFacts!Ledger!Init,
     Gate!Ledger!NoRow, GateFacts!Ledger!NoRow, Gate!Ledger!None, GateFacts!Ledger!None

LEMMA SameSteps == [Next]_vars => [GateFacts!Next]_(GateFacts!vars)
<1> SUFFICES ASSUME [Next]_vars PROVE [GateFacts!Next]_(GateFacts!vars)
  OBVIOUS
<1>1. \A t, q : Gate!Propose(t, q) => GateFacts!Propose(t, q)
  BY DEF Gate!Propose, GateFacts!Propose, Gate!ledger, GateFacts!ledger, Gate!None,
     GateFacts!None
<1>2. \A r, t : Gate!Redeem(r, t) => GateFacts!Redeem(r, t)
  BY DEF Gate!Redeem, GateFacts!Redeem, Gate!ledger, GateFacts!ledger, Gate!None,
     GateFacts!None
<1>3. \A call : Gate!Land(call) => GateFacts!Land(call)
  BY Zenon DEF Gate!Land, GateFacts!Land, Gate!Ledger!Book, GateFacts!Ledger!Book,
     Gate!Ledger!BookedRow, GateFacts!Ledger!BookedRow, Gate!Ledger!Exists,
     GateFacts!Ledger!Exists, Gate!Ledger!BirthEvents, GateFacts!Ledger!BirthEvents,
     Gate!Ledger!None, GateFacts!Ledger!None, Gate!Ledger!InitialStatus,
     GateFacts!Ledger!InitialStatus, Gate!Ledger!Transition, GateFacts!Ledger!Transition,
     Gate!Ledger!Moved, GateFacts!Ledger!Moved, Gate!Ledger!CanTransition,
     GateFacts!Ledger!CanTransition, Gate!Ledger!Transitions, GateFacts!Ledger!Transitions,
     Gate!Ledger!BookingStatus, GateFacts!Ledger!BookingStatus
<1>4. Gate!Crash => GateFacts!Crash
  BY DEF Gate!Crash, GateFacts!Crash, Gate!InFlight, GateFacts!InFlight, Gate!Active,
     GateFacts!Active, Gate!Executing, GateFacts!Executing, Gate!ledger, GateFacts!ledger
<1>5. Gate!Users => GateFacts!Users
  BY SameLedgerSteps DEF Gate!Users, GateFacts!Users
<1>6. Gate!Tick => GateFacts!Tick
  BY DEF Gate!Tick, GateFacts!Tick, Gate!ledger, GateFacts!ledger
<1>7. UNCHANGED gate => UNCHANGED GateFacts!vars
  BY DEF gate, GateFacts!vars
<1>8. CASE Services
  BY <1>1, <1>3, <1>4, <1>5, <1>6, <1>8, SameHandlerSteps DEF Services, GateFacts!Next
<1>9. ASSUME NEW r \in Redeems, NEW t \in Tokens, Arrive(r, t) PROVE GateFacts!Next
  BY <1>2, <1>9 DEF Arrive, GateFacts!Next
<1>10. ASSUME NEW t \in Tokens,
              Show(t) \/ Click(t) \/ Receive(t) \/ Break(t) \/ Poll(t) \/ GiveUp(t)
       PROVE  UNCHANGED gate
  BY <1>10 DEF Show, Click, Receive, Break, Poll, GiveUp, Become
<1>11. UNCHANGED vars => UNCHANGED gate
  BY DEF vars, gate
<1>12. QED
  BY <1>7, <1>8, <1>9, <1>10, <1>11 DEF Next

\* What the cards do to the gate, the gate does.
LEMMA CardsUseTheGate == Spec => GateFacts!Spec
  BY SameInit, SameSteps, PTL DEF Spec, Init, GateFacts!Spec

-------------------------------------------------------------------------------
(* So what is proved of the gate holds beneath the cards.                   *)

LEMMA SameGateTypes == GateFacts!TypeOK <=> Gate!TypeOK
  BY DEF Gate!TypeOK, GateFacts!TypeOK, Gate!Ledger!TypeOK, GateFacts!Ledger!TypeOK,
     Gate!Ledger!Row, GateFacts!Ledger!Row, Gate!Ledger!Event, GateFacts!Ledger!Event,
     Gate!Ledger!BookingStatus, GateFacts!Ledger!BookingStatus, Gate!Ledger!QuoteStatus,
     GateFacts!Ledger!QuoteStatus, Gate!Ledger!None, GateFacts!Ledger!None,
     Gate!Confirmation, GateFacts!Confirmation, Gate!Handler, GateFacts!Handler, Gate!Call,
     GateFacts!Call, Gate!Active, GateFacts!Active, Gate!Executing, GateFacts!Executing,
     Gate!Answers, GateFacts!Answers, Gate!FinalStatus, GateFacts!FinalStatus,
     Gate!MaxConfirmAttempts, GateFacts!MaxConfirmAttempts, Gate!None, GateFacts!None

\* All copies of a post that learn an outcome learn the same one, if the
\* statements of the store do not fail.
THEOREM CardOneOutcome ==
  ASSUME "store" \notin Faults
  PROVE  Spec => []OneOutcomePerToken
<1>1. GateFacts!OneOutcomePerToken => OneOutcomePerToken
  BY DEF OneOutcomePerToken, Gate!OneOutcomePerToken, GateFacts!OneOutcomePerToken,
     Gate!FinalStatus, GateFacts!FinalStatus
<1>2. QED
  BY <1>1, CardsUseTheGate, CardConstants, GateFacts!OneOutcome, PTL

\* Beneath the cards, too, only a crash leaves a claimed token without outcome
\* and without executor.
THEOREM CardOnlyCrashesStrand ==
  ASSUME "store" \notin Faults
  PROVE  Spec => []StuckOnlyByCrash
<1>1. GateFacts!StuckOnlyByCrash => StuckOnlyByCrash
  BY DEF StuckOnlyByCrash, Gate!StuckOnlyByCrash, GateFacts!StuckOnlyByCrash,
     Gate!Executing, GateFacts!Executing, Gate!None, GateFacts!None
<1>2. QED
  BY <1>1, CardsUseTheGate, CardConstants, GateFacts!OnlyCrashesStrand, PTL

\* However posts are delayed, sent again or cut off: one approval, at most one
\* booking and one verdict per token.
THEOREM CardImplementsPromise ==
  ASSUME "store" \notin Faults
  PROVE  Spec => ImplementsPromise
<1>1. /\ \A t : GateFacts!Phase(t) = Gate!Phase(t)
      /\ \A t : GateFacts!Bought(t) = Gate!Bought(t)
      /\ \A t : GateFacts!Verdict(t) = Gate!Verdict(t)
  BY DEF Gate!Phase, GateFacts!Phase, Gate!Bought, GateFacts!Bought, Gate!BookedUnder,
     GateFacts!BookedUnder, Gate!Verdict, GateFacts!Verdict, Gate!None, GateFacts!None
<1>2. GateFacts!Promise!Init => Gate!Promise!Init
  BY <1>1 DEF Gate!Promise!Init, GateFacts!Promise!Init
<1>3. [GateFacts!Promise!Next]_(GateFacts!Promise!vars) => [Gate!Promise!Next]_(Gate!Promise!vars)
  BY Zenon DEF Gate!Promise!Next, GateFacts!Promise!Next, Gate!Promise!Mint,
     GateFacts!Promise!Mint, Gate!Promise!Leave, GateFacts!Promise!Leave, Gate!Promise!Buy,
     GateFacts!Promise!Buy, Gate!Promise!Settle, GateFacts!Promise!Settle,
     Gate!Promise!Verdicts, GateFacts!Promise!Verdicts, Gate!Promise!vars,
     GateFacts!Promise!vars, Gate!Phase, GateFacts!Phase, Gate!Bought, GateFacts!Bought,
     Gate!BookedUnder, GateFacts!BookedUnder, Gate!Verdict, GateFacts!Verdict, Gate!None,
     GateFacts!None
<1>4. QED
  BY <1>2, <1>3, CardsUseTheGate, CardConstants, GateFacts!GateImplementsPromise, PTL
     DEF ImplementsPromise, Gate!ImplementsPromise, GateFacts!ImplementsPromise,
         Gate!Promise!Spec, GateFacts!Promise!Spec

-------------------------------------------------------------------------------
(* What the user reads.                                                     *)

\* What an answer or an outcome says of token t is so.
TrueOf(t, said) ==
  /\ said \in {"CONFIRMED", "HELD", "CANCELLED", "UNKNOWN"} => GateFacts!BookedUnder(t) # {}
  /\ said = "CONFIRMED" => \E b \in GateFacts!BookedUnder(t) : bookings[b].confirmedAt = TRUE
  /\ said = "QUOTE_UNAVAILABLE" => conf[t].status = "consumed" /\ GateFacts!Unbuyable(t)

\* Cards have their shape, and what a card was told or polled is true still.
CardInv ==
  /\ GateFacts!GateInv
  /\ card \in [Tokens -> Card]
  /\ \A t \in Tokens : TrueOf(t, card[t].told) /\ TrueOf(t, card[t].data)

LEMMA GateInvHolds == Spec => []GateFacts!GateInv
  BY CardsUseTheGate, CardConstants, GateFacts!GateInvariant, PTL

LEMMA OutcomeKinds ==
  /\ Gate!FinalStatus = {"CONFIRMED", "HELD", "CANCELLED", "UNKNOWN", "QUOTE_UNAVAILABLE",
                         "EXECUTION_FAILED"}
  /\ GateFacts!FinalStatus = Gate!FinalStatus
  /\ GateFacts!Answers = Gate!Answers
  /\ Gate!FinalStatus \subseteq Gate!Answers
  /\ None = "NONE" /\ GateFacts!None = "NONE"
  BY DEF Gate!FinalStatus, GateFacts!FinalStatus, Gate!Answers, GateFacts!Answers, None,
     GateFacts!None

\* Truths of a token stay true, whatever the gate does.
LEMMA TrueStays ==
  ASSUME GateFacts!GateInv, [GateFacts!Next]_(GateFacts!vars), NEW t \in Tokens, NEW said,
         TrueOf(t, said)
  PROVE  TrueOf(t, said)'
<1>1. GateFacts!Forward /\ GateFacts!Onward(t)
  BY CardConstants, GateFacts!NextGoesForward, GateFacts!NextIsOnward
<1>2. GateFacts!Ledger!TypeOK
  BY CardConstants, GateFacts!HandlerTypes
<1>3. GateFacts!BookedUnder(t) \subseteq GateFacts!BookedUnder(t)'
  BY <1>1, <1>2, CardConstants, GateFacts!TruthStays
<1>4. \A b \in GateFacts!BookedUnder(t) :
        bookings[b].confirmedAt = TRUE => bookings'[b].confirmedAt = TRUE
  BY <1>1, CardConstants DEF GateFacts!Forward, GateFacts!BookedUnder
<1>5. QED
  BY <1>1, <1>3, <1>4 DEF TrueOf, GateFacts!Onward

\* The answer of a handler and the outcome in a row are true.
LEMMA GateTellsTruth ==
  ASSUME GateFacts!GateInv, NEW t \in Tokens
  PROVE  /\ TrueOf(t, conf[t].final)
         /\ \A r \in Redeems : redeem[r].pc = "answered" /\ redeem[r].token = t =>
              redeem[r].said \in Gate!Answers \cup {None} /\ TrueOf(t, redeem[r].said)
<1>1. TrueOf(t, conf[t].final)
  BY CardConstants, OutcomeKinds
     DEF TrueOf, GateFacts!GateInv, GateFacts!TokenInv, GateFacts!Truthful, GateFacts!RowsInv
<1>2. ASSUME NEW r \in Redeems, redeem[r].pc = "answered", redeem[r].token = t
      PROVE  redeem[r].said \in Gate!Answers \cup {None} /\ TrueOf(t, redeem[r].said)
  <2>1. redeem[r].said \in Gate!Answers \cup {None}
    BY CardConstants, OutcomeKinds, GateFacts!HandlerTypes
  <2>2. GateFacts!HandlerInv(r)
    BY DEF GateFacts!GateInv
  <2>3. QED
    BY <1>2, <2>1, <2>2 DEF TrueOf, GateFacts!HandlerInv, GateFacts!Truthful
<1>3. QED
  BY <1>1, <1>2

LEMMA CardInvInit == Init => CardInv
<1> SUFFICES ASSUME Init PROVE CardInv
  OBVIOUS
<1>1. GateFacts!GateInv
  BY SameInit, CardConstants, GateFacts!GateInvInit DEF Init
<1>2. Unseen \in Card /\ \A t \in Tokens : card[t] = Unseen
  BY DEF Unseen, Card, Init
<1>3. QED
  BY <1>1, <1>2, OutcomeKinds DEF Init, CardInv, TrueOf, Unseen

\* A card that changes to k, of its shape and with truths, keeps the invariant.
LEMMA CardChanges ==
  ASSUME CardInv, GateFacts!GateInv', NEW t \in Tokens, NEW k \in Card,
         Become(t, k),
         k.told = card[t].told \/ TrueOf(t, k.told), k.data = card[t].data \/ TrueOf(t, k.data)
  PROVE  CardInv'
<1>1. card' = [card EXCEPT ![t] = k] /\ UNCHANGED gate
  BY DEF Become
<1>2. card' \in [Tokens -> Card] /\ card'[t] = k /\ \A u \in Tokens \ {t} : card'[u] = card[u]
  BY <1>1 DEF CardInv
<1>3. ASSUME NEW u \in Tokens, NEW said, TrueOf(u, said) PROVE TrueOf(u, said)'
  BY <1>1, <1>3 DEF gate, TrueOf, GateFacts!BookedUnder, GateFacts!Unbuyable, GateFacts!Unbought,
     GateFacts!LateCreate, GateFacts!Creates
<1>4. \A u \in Tokens : /\ card'[u] = card[u] \/ u = t
                        /\ TrueOf(u, card[u].told) /\ TrueOf(u, card[u].data)
  BY <1>2 DEF CardInv
<1>5. ASSUME NEW u \in Tokens PROVE TrueOf(u, card[u].told)' /\ TrueOf(u, card[u].data)'
  <2>1. PICK told, data : told = card'[u].told /\ data = card'[u].data
    OBVIOUS
  <2>2. TrueOf(u, told) /\ TrueOf(u, data)
    <3>1. CASE u = t
      BY <1>2, <1>4, <2>1, <3>1
    <3>2. CASE u # t
      BY <1>2, <1>4, <2>1, <3>2
    <3>3. QED
      BY <3>1, <3>2
  <2>3. TrueOf(u, told)' /\ TrueOf(u, data)'
    BY <1>3, <2>2
  <2>4. QED
    BY <2>1, <2>3 DEF TrueOf
<1>6. QED
  BY <1>2, <1>5 DEF CardInv

\* What the steps of a card make of it.
At(k, pc) == [k EXCEPT !.pc = pc]
Told(k, said) == [k EXCEPT !.pc = "told", !.told = said]
Exhausted(k) == [k EXCEPT !.exhausted = TRUE]
Failing(k, failed) == [k EXCEPT !.failed = failed]
Polled(k, data) == [k EXCEPT !.data = data, !.failed = FALSE]

LEMMA CardFields ==
  ASSUME NEW k \in Card
  PROVE  /\ \A pc \in {"proposal", "posting"} :
              At(k, pc) \in Card /\ At(k, pc).told = k.told /\ At(k, pc).data = k.data
         /\ \A said \in Gate!Answers \cup {"BROKEN", None} :
              /\ Told(k, said) \in Card
              /\ Told(k, said).told = said /\ Told(k, said).data = k.data
         /\ Exhausted(k) \in Card /\ Exhausted(k).pc = k.pc
         /\ Exhausted(k).told = k.told /\ Exhausted(k).data = k.data
         /\ \A failed \in BOOLEAN :
              /\ Failing(k, failed) \in Card /\ Failing(k, failed).pc = k.pc
              /\ Failing(k, failed).told = k.told /\ Failing(k, failed).data = k.data
         /\ \A data \in Gate!FinalStatus \cup {"UNSETTLED", None} :
              /\ Polled(k, data) \in Card /\ Polled(k, data).pc = k.pc
              /\ Polled(k, data).told = k.told /\ Polled(k, data).data = data
  BY DEF Card, At, Told, Exhausted, Failing, Polled

LEMMA CardInvStep == CardInv /\ [Next]_vars => CardInv'
<1> SUFFICES ASSUME CardInv, [Next]_vars PROVE CardInv'
  OBVIOUS
<1>1. GateFacts!GateInv /\ GateFacts!GateInv' /\ [GateFacts!Next]_(GateFacts!vars)
  BY SameSteps, CardConstants, GateFacts!GateInvStep DEF CardInv
<1>2. ASSUME NEW t \in Tokens PROVE card[t] \in Card
  BY DEF CardInv
<1>3. ASSUME UNCHANGED card PROVE CardInv'
  <2>1. ASSUME NEW t \in Tokens PROVE TrueOf(t, card[t].told)' /\ TrueOf(t, card[t].data)'
    <3>1. PICK told, data : told = card[t].told /\ data = card[t].data
      OBVIOUS
    <3>2. TrueOf(t, told) /\ TrueOf(t, data)
      BY <3>1 DEF CardInv
    <3>3. TrueOf(t, told)' /\ TrueOf(t, data)'
      BY <1>1, <3>2, TrueStays
    <3>4. QED
      BY <1>3, <3>1, <3>3 DEF TrueOf
  <2>2. QED
    BY <1>1, <1>3, <2>1 DEF CardInv
<1>4. ASSUME NEW t \in Tokens, NEW k \in Card, Become(t, k),
             k.told = card[t].told \/ TrueOf(t, k.told), k.data = card[t].data \/ TrueOf(t, k.data)
      PROVE  CardInv'
  BY <1>1, <1>4, CardChanges
<1>5. ASSUME NEW t \in Tokens, Show(t) \/ Click(t) \/ Break(t) \/ GiveUp(t) PROVE CardInv'
  <2>1. PICK k \in Card : /\ Become(t, k) /\ k.data = card[t].data
                          /\ k.told = card[t].told \/ k.told = "BROKEN"
    <3>1. PICK old \in Card : old = card[t]
      BY <1>2
    <3>2. Show(t) => Become(t, At(old, "proposal"))
      BY <3>1, Zenon DEF At, Show, Become
    <3>3. Click(t) => Become(t, At(old, "posting"))
      BY <3>1, Zenon DEF At, Click, Become
    <3>4. Break(t) => Become(t, Told(old, "BROKEN"))
      BY <3>1, Zenon DEF Told, Break, Become
    <3>5. GiveUp(t) => Become(t, Exhausted(old))
      BY <3>1, Zenon DEF Exhausted, GiveUp, Become
    <3>6. QED
      BY <1>5, <3>1, <3>2, <3>3, <3>4, <3>5, CardFields
  <2>2. QED
    BY <1>4, <2>1 DEF TrueOf
<1>6. ASSUME NEW t \in Tokens, Receive(t) PROVE CardInv'
  <2>1. PICK old \in Card : old = card[t]
    BY <1>2
  <2>2. PICK r, said :
          /\ r \in Redeems /\ redeem[r].token = t /\ redeem[r].pc = "answered" /\ said = redeem[r].said
          /\ Become(t, Told(old, said))
    BY <1>6, <2>1, Zenon DEF Told, Receive, Become
  <2>3. said \in Gate!Answers \cup {None} /\ TrueOf(t, said)
    BY <1>1, <2>2, GateTellsTruth DEF TrueOf
  <2>4. PICK k \in Card : k = Told(old, said) /\ k.told = said /\ k.data = old.data
    BY <2>1, <2>3, CardFields
  <2>5. QED
    BY <1>4, <2>1, <2>2, <2>3, <2>4
<1>7. ASSUME NEW t \in Tokens, Poll(t) PROVE CardInv'
  <2>1. PICK old \in Card, data \in Gate!FinalStatus \cup {"UNSETTLED", None} :
          old = card[t] /\ data = Fetched(conf[t])
    <3>1. conf[t].final \in Gate!FinalStatus \cup {None}
      BY <1>1, CardConstants, OutcomeKinds, GateFacts!HandlerTypes
    <3>2. QED
      BY <1>2, <3>1 DEF Fetched
  <2>2. TrueOf(t, data)
    BY <1>1, <2>1, GateTellsTruth DEF TrueOf, Fetched
  <2>3. \/ Become(t, Polled(old, data))
        \/ \E failed \in BOOLEAN : Become(t, Failing(old, failed))
    BY <1>7, <2>1, Zenon DEF Polled, Failing, Poll, Become
  <2>4. QED
    BY <1>4, <2>1, <2>2, <2>3, CardFields
<1>8. QED
  BY <1>3, <1>5, <1>6, <1>7 DEF Next, Arrive, Services, vars

LEMMA CardInvariant == Spec => []CardInv
<1>1. Init => CardInv
  BY CardInvInit
<1>2. QED
  BY <1>1, CardInvStep, PTL DEF Spec

\* The state of the cards and of the gate beneath them has its shape.
THEOREM CardTypeCorrect == Spec => []TypeOK
<1>1. CardInv => TypeOK
  BY SameGateTypes DEF CardInv, TypeOK, GateFacts!GateInv
<1>2. QED
  BY <1>1, CardInvariant, PTL

\* Where each text of the card comes from.
LEMMA WhatIsRead ==
  ASSUME NEW t, card[t] \in Card
  PROVE  /\ View(t) = "confirmed" => "CONFIRMED" \in {card[t].told, card[t].data}
         /\ View(t) = "awaiting" =>
              {card[t].told, card[t].data} \cap {"CONFIRMED", "HELD", "CANCELLED", "UNKNOWN"} # {}
         /\ View(t) = "unavailable" => "QUOTE_UNAVAILABLE" \in {card[t].told, card[t].data}
<1>1. PICK k \in Card : k = card[t]
  OBVIOUS
<1>2. CASE k.pc # "told"
  BY <1>1, <1>2 DEF View, Card
<1>3. CASE k.pc = "told" /\ k.told = "in_progress"
  <2>1. View(t) = FromPoll(k)
    BY <1>1, <1>3 DEF View
  <2>2. CASE PollFailed(k) \/ k.data \notin Gate!FinalStatus
    BY <2>1, <2>2 DEF FromPoll, PollFailed
  <2>3. CASE ~ PollFailed(k) /\ k.data \in Gate!FinalStatus
    <3>1. View(t) = Resolved(k.data)
      BY <2>1, <2>3 DEF FromPoll
    <3>2. QED
      BY <1>1, <2>3, <3>1, OutcomeKinds DEF Resolved
  <2>4. QED
    BY <2>2, <2>3
<1>4. CASE k.pc = "told" /\ k.told \in {"CONFIRMED", "HELD", "CANCELLED", "UNKNOWN"}
  <2>1. View(t) = FromRedeem(k.told)
    BY <1>1, <1>4 DEF View
  <2>2. QED
    BY <1>1, <1>4, <2>1 DEF FromRedeem
<1>5. CASE k.pc = "told" /\ k.told \notin {"in_progress", "CONFIRMED", "HELD", "CANCELLED", "UNKNOWN"}
  <2>1. View(t) = FromError(k.told)
    BY <1>1, <1>5 DEF View
  <2>2. QED
    BY <1>1, <1>5, <2>1 DEF FromError
<1>6. QED
  BY <1>2, <1>3, <1>4, <1>5

\* What the user reads is true, whatever calls, statements, connections, polls
\* or processes failed: a confirmed booking is confirmed, a created one
\* exists, and a quote said to be unavailable was and will not be bought.
THEOREM WhatIsShownIsTrue == Spec => []ShownIsTrue
<1>1. CardInv => ShownIsTrue
  <2> SUFFICES ASSUME CardInv, NEW t \in Tokens
               PROVE  /\ View(t) = "confirmed" => \E b \in Gate!BookedUnder(t) : bookings[b].confirmedAt
                      /\ View(t) = "awaiting" => Gate!BookedUnder(t) # {}
                      /\ View(t) = "unavailable" =>
                           Gate!BookedUnder(t) = {} /\ [op |-> "create", token |-> t] \notin late
    BY DEF ShownIsTrue
  <2>1. TrueOf(t, card[t].told) /\ TrueOf(t, card[t].data) /\ card[t] \in Card
    BY DEF CardInv
  <2>2. Gate!BookedUnder(t) = GateFacts!BookedUnder(t)
    BY DEF Gate!BookedUnder, GateFacts!BookedUnder
  <2>3. View(t) = "confirmed" => \E b \in Gate!BookedUnder(t) : bookings[b].confirmedAt
    BY <2>1, <2>2, WhatIsRead DEF TrueOf
  <2>4. View(t) = "awaiting" => Gate!BookedUnder(t) # {}
    BY <2>1, <2>2, WhatIsRead DEF TrueOf
  <2>5. View(t) = "unavailable" => Gate!BookedUnder(t) = {} /\ [op |-> "create", token |-> t] \notin late
    BY <2>1, <2>2, WhatIsRead DEF TrueOf, GateFacts!Unbuyable, GateFacts!Unbought, GateFacts!LateCreate
  <2>6. QED
    BY <2>3, <2>4, <2>5
<1>2. QED
  BY <1>1, CardInvariant, PTL

-------------------------------------------------------------------------------
(* With a store that does not fail, what the user reads is final.           *)

\* What a poll brought is what the row still holds.
FinalInv ==
  /\ CardInv /\ GateFacts!CleanInv
  /\ \A t \in Tokens : card[t].data \in Gate!FinalStatus => conf[t].final = card[t].data

\* A step leaves a card alone, moves one that has no answer yet, or polls.
LEMMA CardSteps ==
  ASSUME CardInv, [Next]_vars, NEW t \in Tokens
  PROVE  \/ card'[t] = card[t]
         \/ /\ card[t].pc # "told" /\ UNCHANGED gate
            /\ card'[t].data = card[t].data
         \/ /\ Polling(t) /\ UNCHANGED gate
            /\ card'[t].pc = card[t].pc /\ card'[t].told = card[t].told
            /\ card'[t].data \in {card[t].data, Fetched(conf[t])}
<1> DEFINE Goal == \/ card'[t] = card[t]
                   \/ /\ card[t].pc # "told" /\ UNCHANGED gate
                      /\ card'[t].data = card[t].data
                   \/ /\ Polling(t) /\ UNCHANGED gate
                      /\ card'[t].pc = card[t].pc /\ card'[t].told = card[t].told
                      /\ card'[t].data \in {card[t].data, Fetched(conf[t])}
<1>1. card \in [Tokens -> Card]
  BY DEF CardInv
<1>2. ASSUME NEW u \in Tokens, NEW k, Become(u, k)
      PROVE  /\ UNCHANGED gate /\ (u # t => card'[t] = card[t]) /\ card'[u] = k
  BY <1>1, <1>2 DEF Become
<1>3. ASSUME NEW u \in Tokens, Show(u) \/ Click(u) \/ Break(u) PROVE Goal
  <2>1. PICK old \in Card : old = card[u]
    BY <1>1
  <2>2. Show(u) => old.pc # "told" /\ Become(u, At(old, "proposal"))
    BY <2>1, Zenon DEF At, Show, Become
  <2>3. Click(u) => old.pc # "told" /\ Become(u, At(old, "posting"))
    BY <2>1, Zenon DEF At, Click, Become
  <2>4. Break(u) => old.pc # "told" /\ Become(u, Told(old, "BROKEN"))
    BY <2>1, Zenon DEF Told, Break, Become
  <2>5. PICK k \in Card : old.pc # "told" /\ Become(u, k) /\ k.data = old.data
    BY <1>3, <2>2, <2>3, <2>4, CardFields
  <2>6. QED
    BY <1>2, <2>1, <2>5
<1>4. ASSUME NEW u \in Tokens, Receive(u) PROVE Goal
  <2>1. PICK old \in Card : old = card[u]
    BY <1>1
  <2>2. PICK r, said :
          /\ r \in Redeems /\ redeem[r].token = u /\ redeem[r].pc = "answered" /\ said = redeem[r].said
          /\ old.pc # "told" /\ Become(u, Told(old, said))
    BY <1>4, <2>1, Zenon DEF Told, Receive, Become
  <2>3. said \in Gate!Answers \cup {None}
    BY <2>2, GateTellsTruth DEF CardInv
  <2>4. PICK k \in Card : k = Told(old, said) /\ k.data = old.data
    BY <2>3, CardFields
  <2>5. QED
    BY <1>2, <2>1, <2>2, <2>4
<1>5. ASSUME NEW u \in Tokens, Poll(u) \/ GiveUp(u) PROVE Goal
  <2>1. PICK old \in Card, data \in Gate!FinalStatus \cup {"UNSETTLED", None} :
          old = card[u] /\ data = Fetched(conf[u])
    <3>1. conf[u].final \in Gate!FinalStatus \cup {None}
      BY CardConstants, OutcomeKinds, GateFacts!HandlerTypes DEF CardInv
    <3>2. QED
      BY <1>1, <3>1 DEF Fetched
  <2>2. \/ Become(u, Polled(old, data))
        \/ \E failed \in BOOLEAN : Become(u, Failing(old, failed))
        \/ Become(u, Exhausted(old))
    BY <1>5, <2>1, Zenon DEF Polled, Failing, Exhausted, Poll, GiveUp, Become
  <2>3. PICK k \in Card : /\ Become(u, k) /\ k.pc = old.pc /\ k.told = old.told
                          /\ k.data \in {old.data, data}
    BY <2>2, CardFields
  <2>4. Polling(u)
    BY <1>5 DEF Poll, GiveUp
  <2>5. QED
    BY <1>2, <2>1, <2>3, <2>4
<1>6. QED
  BY <1>3, <1>4, <1>5 DEF Next, Arrive, Services, vars

LEMMA FinalInvStep ==
  ASSUME "store" \notin Faults
  PROVE  FinalInv /\ [Next]_vars => FinalInv'
<1> SUFFICES ASSUME FinalInv, [Next]_vars PROVE FinalInv'
  OBVIOUS
<1>1. CardInv /\ CardInv' /\ GateFacts!GateInv /\ GateFacts!GateInv' /\ GateFacts!CleanInv
  BY CardInvStep DEF FinalInv, CardInv
<1>2. [GateFacts!Next]_(GateFacts!vars)
  BY SameSteps
<1>3. GateFacts!CleanInv'
  BY <1>1, <1>2, CardConstants, GateFacts!CleanInvStep
<1>4. ASSUME NEW t \in Tokens, card'[t].data \in Gate!FinalStatus
      PROVE  conf'[t].final = card'[t].data
  <2>1. CASE card'[t].data = card[t].data
    <3>1. conf[t].final = card[t].data /\ conf[t].final # GateFacts!None
      BY <1>4, <2>1, OutcomeKinds DEF FinalInv
    <3>2. conf'[t].final = conf[t].final
      BY <1>1, <1>2, <3>1, CardConstants, GateFacts!OutcomesStand
    <3>3. QED
      BY <2>1, <3>1, <3>2
  <2>2. CASE card'[t].data # card[t].data
    <3>1. UNCHANGED gate /\ card'[t].data = Fetched(conf[t])
      BY <1>1, <2>2, CardSteps
    <3>2. QED
      BY <1>4, <3>1, OutcomeKinds DEF gate, Fetched
  <2>3. QED
    BY <2>1, <2>2
<1>5. QED
  BY <1>1, <1>3, <1>4 DEF FinalInv

\* What a card shows when it shows an outcome.
LEMMA SettledCards ==
  ASSUME NEW k \in Card, NEW t, card[t] = k, View(t) \in Settled
  PROVE  /\ k.pc = "told"
         /\ k.told = "in_progress" => k.data \in Gate!FinalStatus /\ View(t) = Resolved(k.data)
<1>1. k.pc = "told"
  BY DEF View, Settled, Card
<1>2. ASSUME k.told = "in_progress"
      PROVE  k.data \in Gate!FinalStatus /\ View(t) = Resolved(k.data)
  <2>1. View(t) = FromPoll(k)
    BY <1>1, <1>2 DEF View
  <2>2. QED
    BY <2>1 DEF FromPoll, Settled
<1>3. QED
  BY <1>1, <1>2

LEMMA PolledCards ==
  ASSUME NEW t, card[t].pc = "told", card[t].told = "in_progress",
         card[t].data \in Gate!FinalStatus
  PROVE  View(t) = Resolved(card[t].data)
<1>1. View(t) = FromPoll(card[t])
  BY DEF View
<1>2. QED
  BY <1>1 DEF FromPoll, PollFailed

LEMMA PolledCardsNext ==
  ASSUME NEW t, card'[t].pc = "told", card'[t].told = "in_progress",
         card'[t].data \in Gate!FinalStatus
  PROVE  View(t)' = Resolved(card'[t].data)
<1>1. View(t)' = FromPoll(card'[t])
  BY DEF View
<1>2. QED
  BY <1>1 DEF FromPoll, PollFailed

\* Once a card shows an outcome it never shows another, whatever later polls
\* bring or fail to bring, as long as the store does not fail.
THEOREM ShownIsFinal ==
  ASSUME "store" \notin Faults
  PROVE  Spec => SettledIsFinal
<1>1. Init => FinalInv
  <2> SUFFICES ASSUME Init PROVE FinalInv
    OBVIOUS
  <2>1. CardInv
    BY CardInvInit
  <2>2. GateFacts!CleanInv
    BY SameInit, CardConstants, GateFacts!CleanInvInit DEF Init
  <2>3. \A t \in Tokens : card[t].data = None
    BY DEF Init, Unseen
  <2>4. QED
    BY <2>1, <2>2, <2>3, OutcomeKinds DEF FinalInv
<1>2. FinalInv /\ [Next]_vars => [\A t \in Tokens : View(t) \in Settled => View(t)' = View(t)]_vars
  <2> SUFFICES ASSUME FinalInv, [Next]_vars, NEW t \in Tokens, View(t) \in Settled
               PROVE  View(t)' = View(t)
    OBVIOUS
  <2>1. CASE card'[t] = card[t]
    BY <2>1 DEF View
  <2>2. CASE card'[t] # card[t]
    <3>1. card[t] \in Card /\ CardInv
      BY DEF FinalInv, CardInv
    <3>2. card[t].pc = "told"
      BY <3>1, SettledCards
    <3>3. /\ card[t].told = "in_progress" /\ UNCHANGED gate
          /\ card'[t].pc = "told" /\ card'[t].told = "in_progress"
          /\ card'[t].data \in {card[t].data, Fetched(conf[t])}
      BY <2>2, <3>1, <3>2, CardSteps DEF Polling
    <3>4. card[t].data \in Gate!FinalStatus /\ View(t) = Resolved(card[t].data)
      BY <3>1, <3>3, SettledCards
    <3>5. Fetched(conf[t]) = card[t].data
      BY <3>4, OutcomeKinds DEF FinalInv, Fetched
    <3>6. View(t)' = Resolved(card'[t].data) /\ card'[t].data = card[t].data
      BY <3>3, <3>4, <3>5, PolledCardsNext
    <3>7. QED
      BY <3>4, <3>6
  <2>3. QED
    BY <2>1, <2>2
<1>3. FinalInv /\ [Next]_vars => FinalInv'
  BY FinalInvStep
<1>4. QED
  BY <1>1, <1>2, <1>3, PTL DEF Spec, SettledIsFinal

===============================================================================
