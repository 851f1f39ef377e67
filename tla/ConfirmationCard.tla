---------------------------- MODULE ConfirmationCard ----------------------------
(***************************************************************************)
(* The web client's card over the confirmation gate.  The user's one click *)
(* posts the token; the card shows the answer, or polls the confirmation   *)
(* while somebody else executes it, or gives up polling.  Between browser  *)
(* and agent-service the post may be delayed, sent again or cut off, and   *)
(* each poll may fail.                                                     *)
(*                                                                         *)
(* react-query keeps the data of the last good poll beside the error of a  *)
(* failed one and goes on polling after either, by the interval until the  *)
(* deadline, and by the focus of the window or the button after it.        *)
(***************************************************************************)
EXTENDS Integers, FiniteSets

CONSTANTS Tokens, Redeems, Quotes, Bookings, UserKeys,
          NoQuote, NoKey, NoBooking, NoToken, TTL, MaxTime, Faults

ASSUME CardConstants ==
  /\ NoQuote \notin Quotes /\ NoKey \notin Tokens \cup UserKeys
  /\ NoBooking \notin Bookings /\ NoToken \notin Tokens
  /\ Tokens \cap UserKeys = {}
  /\ TTL \in Nat \ {0} /\ MaxTime \in Nat
  /\ Faults \subseteq {"call", "store", "crash"}

VARIABLES quotes, bookings, log, conf, clock, redeem, late,   \* see ConfirmationGate
          card      \* card[t]: the component that shows token t

gate == <<quotes, bookings, log, conf, clock, redeem, late>>
vars == <<quotes, bookings, log, conf, clock, redeem, late, card>>

Gate == INSTANCE ConfirmationGate

None == "NONE"

\* told: the answer to the post, "BROKEN" when the connection was.
\* data: what the last good poll brought; failed: a later one failed;
\* exhausted: POLL_MAX_MS are over.
Card == [pc : {"unseen", "proposal", "posting", "told"},
         told : Gate!Answers \cup {"BROKEN", None},
         data : Gate!FinalStatus \cup {"UNSETTLED", None}, failed : BOOLEAN, exhausted : BOOLEAN]

Unseen == [pc |-> "unseen", told |-> None, data |-> None, failed |-> FALSE, exhausted |-> FALSE]

Become(t, k) == card' = [card EXCEPT ![t] = k] /\ UNCHANGED gate

\* The mappings of answers, errors and polled rows to what the user reads.
FromRedeem(said) == IF said = "CONFIRMED" THEN "confirmed" ELSE "awaiting"

FromError(code) ==
  CASE code = "CONFIRMATION_EXPIRED"   -> "expired"
    [] code = "CONFIRMATION_NOT_FOUND" -> "gone"
    [] code = "QUOTE_UNAVAILABLE"      -> "unavailable"
    [] code = "EXECUTION_FAILED"       -> "failed"
    [] OTHER                           -> "wrong"

-------------------------------------------------------------------------------
(* Seeded defects: steps as a plausible mistake would leave them, used only *)
(* to show that the properties below notice.                               *)

\* A failed execution has no case of its own and falls to the default.
ResolvedByDefault(final) ==
  CASE final = "CONFIRMED"         -> "confirmed"
    [] final = "QUOTE_UNAVAILABLE" -> "unavailable"
    [] OTHER                       -> "awaiting"

\* The error of a poll is looked at before the data.
ErrorFirst(k) == k.failed

\* The life of the token is taken for the outcome of its execution.
StatusAsOutcome(row) == row.status

\* The deadline stops the polling but renders nothing.
SilentDeadline(t) ==
  /\ card[t].pc = "told" /\ card[t].told = "in_progress" /\ FALSE
  /\ UNCHANGED vars

-------------------------------------------------------------------------------

\* What a good poll brings: a row without final_status has not settled.
Fetched(row) == IF row.final = None THEN "UNSETTLED" ELSE row.final

Resolved(final) ==
  CASE final = "CONFIRMED"         -> "confirmed"
    [] final = "QUOTE_UNAVAILABLE" -> "unavailable"
    [] final = "EXECUTION_FAILED"  -> "failed"
    [] OTHER                       -> "awaiting"

\* An outcome comes before the error of a poll, the error before the deadline.
PollFailed(k) == k.failed /\ k.data \notin Gate!FinalStatus

\* While it is polling.
FromPoll(k) ==
  IF PollFailed(k) THEN "wrong"
  ELSE IF k.data \in Gate!FinalStatus THEN Resolved(k.data)
  ELSE IF k.exhausted THEN "still" ELSE "finishing"

\* What the card shows, in the component's order of priority.
View(t) ==
  LET k == card[t] IN
  IF k.pc # "told" THEN k.pc
  ELSE IF k.told = "in_progress" THEN FromPoll(k)
  ELSE IF k.told \in {"CONFIRMED", "HELD", "CANCELLED", "UNKNOWN"} THEN FromRedeem(k.told)
  ELSE FromError(k.told)

Polling(t) == card[t].pc = "told" /\ card[t].told = "in_progress"

Init == Gate!Init /\ card = [t \in Tokens |-> Unseen]

\* The reply of the turn brings token and card.
Show(t) ==
  /\ card[t].pc = "unseen" /\ conf[t].status # None
  /\ Become(t, [card[t] EXCEPT !.pc = "proposal"])

\* onConfirm(): the re-entry guard and the pending button let one click through.
Click(t) ==
  /\ card[t].pc = "proposal"
  /\ Become(t, [card[t] EXCEPT !.pc = "posting"])

\* The post reaches agent-service, or a copy that a proxy sent again does.
Arrive(r, t) ==
  /\ card[t].pc \in {"posting", "told"}
  /\ Gate!Redeem(r, t)
  /\ UNCHANGED card

\* The answer to one of its copies reaches the card.
Receive(t) ==
  /\ card[t].pc = "posting"
  /\ \E r \in Redeems :
       /\ redeem[r].token = t /\ redeem[r].pc = "answered"
       /\ Become(t, [card[t] EXCEPT !.pc = "told", !.told = redeem[r].said])

\* The connection breaks: mutateAsync rejects without an envelope.
Break(t) ==
  /\ card[t].pc = "posting"
  /\ Become(t, [card[t] EXCEPT !.pc = "told", !.told = "BROKEN"])

\* A poll brings the row or an error; one that starts while there is no data
\* forgets the last error.
Poll(t) ==
  /\ Polling(t)
  /\ \/ Become(t, [card[t] EXCEPT !.data = Fetched(conf[t]), !.failed = FALSE])
     \/ Become(t, [card[t] EXCEPT !.failed = TRUE])
     \/ card[t].data = None /\ Become(t, [card[t] EXCEPT !.failed = FALSE])

\* The timer of POLL_MAX_MS fires.
GiveUp(t) ==
  /\ Polling(t) /\ ~ card[t].exhausted
  /\ Become(t, [card[t] EXCEPT !.exhausted = TRUE])

\* Everything in agent-service and booking-service but the arrival of posts.
Services ==
  /\ \/ \E t \in Tokens, q \in Quotes : Gate!Propose(t, q)
     \/ \E r \in Redeems : Gate!Step(r)
     \/ \E call \in late : Gate!Land(call)
     \/ Gate!Crash \/ Gate!Users \/ Gate!Tick
  /\ UNCHANGED card

Next ==
  \/ \E t \in Tokens : Show(t) \/ Click(t) \/ Receive(t) \/ Break(t) \/ Poll(t) \/ GiveUp(t)
  \/ \E r \in Redeems, t \in Tokens : Arrive(r, t)
  \/ Services

Spec == Init /\ [][Next]_vars

\* No copy of the post is being served or has an answer on the way.
Unserved(t) ==
  \A r \in Redeems : redeem[r].token = t => redeem[r].pc = "lost"

\* A handler goes on until it has answered: its statements and its calls end,
\* one way or the other.  The answer or the end of a connection that leads nowhere
\* reaches the browser, and its timer fires.  Nobody has to click, and no
\* poll has to succeed or even to be made.
FairSpec ==
  /\ Spec
  /\ \A r \in Redeems : WF_vars(Gate!Step(r) /\ UNCHANGED card)
  /\ \A t \in Tokens :
       /\ WF_vars(Receive(t))
       /\ WF_vars(Unserved(t) /\ (Break(t) \/ \E r \in Redeems : Arrive(r, t)))
       /\ WF_vars(GiveUp(t))

-------------------------------------------------------------------------------

\* The state of a card has its shape, and so has the gate beneath it.
TypeOK == Gate!TypeOK /\ card \in [Tokens -> Card]

\* What the user reads, from the answer or from a poll, is true of the
\* ledger: "Booking confirmed" of a booking that was, "Booking created" of one
\* that exists, and after "Quote no longer bookable" nothing has been or will
\* be booked under the token.
ShownIsTrue ==
  \A t \in Tokens :
    /\ View(t) = "confirmed" => \E b \in Gate!BookedUnder(t) : bookings[b].confirmedAt
    /\ View(t) = "awaiting" => Gate!BookedUnder(t) # {}
    /\ View(t) = "unavailable" =>
         Gate!BookedUnder(t) = {} /\ [op |-> "create", token |-> t] \notin late

Settled == {"confirmed", "awaiting", "unavailable", "failed"}

\* Once the card shows an outcome it never shows another or an error, whatever
\* later polls bring or fail to bring.
SettledIsFinal ==
  [][\A t \in Tokens : View(t) \in Settled => View(t)' = View(t)]_vars

\* A click never ends in a spinner: the card comes to show an outcome, an
\* error or "Still processing", even when the execution was lost with its
\* process and no poll gets through (the deadline of onConfirm).
CardSettles ==
  \A t \in Tokens :
    card[t].pc = "posting" ~> View(t) \notin {"posting", "finishing"}

\* The gate keeps its promises beneath the card, whose posts are delayed and
\* sent again: all copies learn one outcome, only a crash leaves a token stuck,
\* and approval, booking and verdict are single (SingleUse).
OneOutcomePerToken == Gate!OneOutcomePerToken

\* Only a crash leaves a claimed token without outcome and without executor.
StuckOnlyByCrash == Gate!StuckOnlyByCrash

\* One approval, at most one booking and one verdict per token.
ImplementsPromise == Gate!ImplementsPromise

\* The gate's two promises of liveness hold beneath the cards.
EveryRedeemIsAnswered == Gate!EveryRedeemIsAnswered

\* The claimed token under a card is settled, or its execution was lost.
ClaimIsSettled == Gate!ClaimIsSettled

===============================================================================
