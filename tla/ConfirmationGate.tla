---------------------------- MODULE ConfirmationGate ----------------------------
(***************************************************************************)
(* agent-service's confirmation gate: the one path from a proposal of the  *)
(* language model to a booking.  A proposal mints a token; the user's      *)
(* click redeems it.  A redeem claims the token in the confirmations       *)
(* table, then creates and confirms the booking over HTTP and records the  *)
(* outcome; the losers of the claim read what the winner recorded.         *)
(*                                                                         *)
(* Each await of the code is a step, so redeems interleave with each       *)
(* other, with users working on booking-service directly, and with the     *)
(* faults a run allows: calls that fail before or after they took effect,  *)
(* calls that take effect late, statements of the store that fail, and the *)
(* death of the process.  booking-service is the atomic BookingLedger,     *)
(* which its handlers implement.                                           *)
(***************************************************************************)
EXTENDS Integers, FiniteSets, BookingLifecycle

CONSTANTS Tokens,      \* confirmation tokens; also the Idempotency-Key of the create
          Redeems,     \* POST /confirmations/{token} requests
          Quotes, Bookings,
          UserKeys,    \* Idempotency-Keys of users who book without the agent
          NoQuote, NoKey, NoBooking, NoToken,
          TTL,         \* life of a token, in ticks
          MaxTime,     \* bound on the clock, in ticks
          Faults       \* the faults of the run

ASSUME GateConstants ==
  /\ NoQuote \notin Quotes /\ NoKey \notin Tokens \cup UserKeys
  /\ NoBooking \notin Bookings /\ NoToken \notin Tokens
  /\ Tokens \cap UserKeys = {}
  /\ TTL \in Nat \ {0} /\ MaxTime \in Nat
  /\ Faults \subseteq {"call", "store", "crash"}

VARIABLES quotes, bookings, log,   \* booking-service, see BookingLedger
          conf,     \* conf[t]: the row of the confirmations table
          clock,    \* Date.now() of the agent
          redeem,   \* redeem[r]: the handler of the request
          late      \* calls without a caller that booking-service may still serve

ledger == <<quotes, bookings, log>>
vars == <<quotes, bookings, log, conf, clock, redeem, late>>

Ledger == INSTANCE BookingLedger WITH Keys <- Tokens \cup UserKeys

MaxConfirmAttempts == 2

\* What final_status can hold.
FinalStatus == {"CONFIRMED", "HELD", "CANCELLED", "UNKNOWN",
                "QUOTE_UNAVAILABLE", "EXECUTION_FAILED"}

\* What a redeem can answer: an outcome, or that there is none to tell.
Answers == FinalStatus \cup
  {"in_progress", "CONFIRMATION_EXPIRED", "CONFIRMATION_NOT_FOUND", "INTERNAL_ERROR"}

Confirmation ==
  [status : {None, "pending", "consumed", "expired"}, quote : Quotes \cup {NoQuote},
   expiresAt : Nat, booking : Bookings \cup {NoBooking}, final : FinalStatus \cup {None}]

Unminted == [status |-> None, quote |-> NoQuote, expiresAt |-> 0,
             booking |-> NoBooking, final |-> None]

Call == [op : {"create"}, token : Tokens] \cup [op : {"confirm"}, booking : Bookings]

Executing == {"create", "confirm", "read", "lastRead", "record", "recordFailure"}
Active == {"claim", "find", "expire"} \cup Executing

Handler ==
  [pc : Active \cup {"idle", "answered", "lost"}, token : Tokens \cup {NoToken},
   at : Nat, booking : Bookings \cup {NoBooking}, attempt : 0 .. MaxConfirmAttempts,
   said : Answers \cup {None}]

Idle == [pc |-> "idle", token |-> NoToken, at |-> 0, booking |-> NoBooking,
         attempt |-> 0, said |-> None]

\* The handler r goes on at pc with the booking and the attempt it is at, and
\* with what it has to say: the outcome to record, or the answer it gives.
Goto(r, pc, b, n, said) ==
  redeem' = [redeem EXCEPT ![r] =
    [pc |-> pc, token |-> @.token, at |-> @.at, booking |-> b, attempt |-> n, said |-> said]]

Answer(r, said) == Goto(r, "answered", redeem[r].booking, redeem[r].attempt, said)

\* A statement of the store that fails leaves the row as it was, or commits
\* and loses the acknowledgement.
StoredOrNot(t, row) == conf' \in {conf, [conf EXCEPT ![t] = row]}

Init ==
  /\ Ledger!Init
  /\ conf = [t \in Tokens |-> Unminted]
  /\ clock = 0
  /\ redeem = [r \in Redeems |-> Idle]
  /\ late = {}

-------------------------------------------------------------------------------
(* Seeded defects: steps as a plausible mistake would leave them, used only *)
(* to show that the properties below notice.                               *)

\* The error of the catch is stored as it is.
RawFailureStatus(error) == error

\* The claim looks only at the expiry.
ClaimableTwice(t, at) ==
  t \in Tokens /\ conf[t].status \in {"pending", "consumed"} /\ conf[t].expiresAt > at

\* Expiry overwrites a claim.
ExpiredAnyway(row) == [row EXCEPT !.status = "expired"]

\* A consumed row without an outcome is taken for a failure.
StoredOrFailed(row) == IF row.final = None THEN "EXECUTION_FAILED" ELSE row.final

\* A claimed redeem that loses the answer to its create blames the quote.
BlameTheQuote(r) ==
  /\ redeem[r].pc = "create" /\ "call" \in Faults
  /\ \/ /\ \E b \in Bookings : Ledger!Book(b, conf[redeem[r].token].quote, redeem[r].token)
        /\ UNCHANGED late
     \/ /\ late' = late \cup {[op |-> "create", token |-> redeem[r].token]}
        /\ UNCHANGED ledger
  /\ Goto(r, "recordFailure", NoBooking, 0, "QUOTE_UNAVAILABLE")
  /\ UNCHANGED <<conf, clock>>

\* The 409 of a confirm is read as "already confirmed".
AssumeConfirmed(r) ==
  LET b == redeem[r].booking IN
  /\ redeem[r].pc = "confirm"
  /\ ~ CanTransition(bookings[b].status, "CONFIRMED")
  /\ Goto(r, "record", b, redeem[r].attempt, "CONFIRMED")
  /\ UNCHANGED <<ledger, conf, clock, late>>

\* Only an unavailable quote is recorded as a failure.
RecordSomeFailures(r) ==
  LET t == redeem[r].token IN
  /\ redeem[r].pc = "recordFailure"
  /\ conf' = IF redeem[r].said = "QUOTE_UNAVAILABLE"
             THEN [conf EXCEPT ![t].final = redeem[r].said] ELSE conf
  /\ Answer(r, redeem[r].said)
  /\ UNCHANGED <<ledger, clock, late>>

\* A booking that is still HELD is confirmed again, however often.
RetryForever(r) ==
  LET b == redeem[r].booking IN
  /\ redeem[r].pc = "read"
  /\ IF bookings[b].status = "HELD"
     THEN Goto(r, "confirm", b, 1, None)
     ELSE Goto(r, "record", b, redeem[r].attempt, bookings[b].status)
  /\ UNCHANGED <<ledger, conf, clock, late>>

-------------------------------------------------------------------------------

\* The turn handler mints a token for a proposal.  The quote is the model's
\* choice: nothing has checked that it exists or is held.
Propose(t, q) ==
  /\ conf[t].status = None
  /\ conf' = [conf EXCEPT ![t] =
       [status |-> "pending", quote |-> q, expiresAt |-> clock + TTL,
        booking |-> NoBooking, final |-> None]]
  /\ UNCHANGED <<ledger, clock, redeem, late>>

\* A click arrives with a token that was minted, or with one that never was
\* (NoToken); "now" is taken here, before the claim.
Redeem(r, t) ==
  /\ redeem[r].pc = "idle"
  /\ t \in Tokens => conf[t].status # None
  /\ redeem' = [redeem EXCEPT ![r] =
       [pc |-> "claim", token |-> t, at |-> clock, booking |-> NoBooking,
        attempt |-> 0, said |-> None]]
  /\ UNCHANGED <<ledger, conf, clock, late>>

Claimable(t, at) ==
  t \in Tokens /\ conf[t].status = "pending" /\ conf[t].expiresAt > at

Consumed(row) == [row EXCEPT !.status = "consumed"]

Claim(r) ==
  LET t == redeem[r].token IN
  /\ redeem[r].pc = "claim" /\ Claimable(t, redeem[r].at)
  /\ conf' = [conf EXCEPT ![t] = Consumed(@)]
  /\ Goto(r, "create", NoBooking, 0, None)
  /\ UNCHANGED <<ledger, clock, late>>

LoseClaim(r) ==
  /\ redeem[r].pc = "claim" /\ ~ Claimable(redeem[r].token, redeem[r].at)
  /\ Goto(r, "find", NoBooking, 0, None)
  /\ UNCHANGED <<ledger, conf, clock, late>>

\* What a consumed row tells a redeem that did not claim it.
Stored(row) == IF row.final = None THEN "in_progress" ELSE row.final

\* The loser reads the row and reports the winner's outcome, the expiry, or
\* that the token is not redeemable.
Find(r) ==
  LET t == redeem[r].token IN
  /\ redeem[r].pc = "find"
  /\ \/ t = NoToken /\ Answer(r, "CONFIRMATION_NOT_FOUND")
     \/ /\ t \in Tokens /\ conf[t].status = "consumed"
        /\ Goto(r, "answered", conf[t].booking, 0, Stored(conf[t]))
     \/ /\ t \in Tokens /\ conf[t].status # "consumed"
        /\ conf[t].expiresAt <= redeem[r].at
        /\ Goto(r, "expire", NoBooking, 0, None)
     \/ /\ t \in Tokens /\ conf[t].status # "consumed"
        /\ conf[t].expiresAt > redeem[r].at
        /\ Answer(r, "CONFIRMATION_NOT_FOUND")
  /\ UNCHANGED <<ledger, conf, clock, late>>

\* Only a row that is still pending becomes expired.
Expired(row) == IF row.status = "pending" THEN [row EXCEPT !.status = "expired"] ELSE row

MarkExpired(r) ==
  /\ redeem[r].pc = "expire"
  /\ conf' = [conf EXCEPT ![redeem[r].token] = Expired(@)]
  /\ Answer(r, "CONFIRMATION_EXPIRED")
  /\ UNCHANGED <<ledger, clock, late>>

\* A statement before or besides the execution fails, with or without effect:
\* the request answers 500.
StoreFails(r) ==
  LET t == redeem[r].token IN
  /\ "store" \in Faults
  /\ \/ /\ redeem[r].pc = "claim"
        /\ IF Claimable(t, redeem[r].at) THEN StoredOrNot(t, Consumed(conf[t]))
                                         ELSE UNCHANGED conf
     \/ redeem[r].pc = "find" /\ UNCHANGED conf
     \/ redeem[r].pc = "expire" /\ StoredOrNot(t, Expired(conf[t]))
  /\ Answer(r, "INTERNAL_ERROR")
  /\ UNCHANGED <<ledger, clock, late>>

\* The create books the quote of the claimed row under the token.  The claim
\* is why a create never finds an earlier booking of its token to replay.
CreateBooks(r) ==
  LET t == redeem[r].token IN
  /\ redeem[r].pc = "create"
  /\ \E b \in Bookings : /\ Ledger!Book(b, conf[t].quote, t)
                         /\ Goto(r, "confirm", b, 1, None)
  /\ UNCHANGED <<conf, clock, late>>

\* 409 for a quote that is not HELD, 404 for one that does not exist.
CreateRefused(r) ==
  LET quote == quotes[conf[redeem[r].token].quote] IN
  /\ redeem[r].pc = "create"
  /\ quote # "HELD"
  /\ Goto(r, "recordFailure", NoBooking, 0,
          IF quote = None THEN "EXECUTION_FAILED" ELSE "QUOTE_UNAVAILABLE")
  /\ UNCHANGED <<ledger, conf, clock, late>>

\* The create fails: it was served and the answer lost, or it may be served
\* later, or never.  A 5xx is thrown as EXECUTION_FAILED; what the transport
\* throws is rethrown as it is, and answered 500.
CreateFails(r) ==
  LET t == redeem[r].token IN
  /\ redeem[r].pc = "create" /\ "call" \in Faults
  /\ \/ /\ \E b \in Bookings : Ledger!Book(b, conf[t].quote, t)
        /\ UNCHANGED late
     \/ /\ late' = late \cup {[op |-> "create", token |-> t]}
        /\ UNCHANGED ledger
  /\ \E error \in {"EXECUTION_FAILED", "INTERNAL_ERROR"} :
       Goto(r, "recordFailure", NoBooking, 0, error)
  /\ UNCHANGED <<conf, clock>>

Confirm(r) ==
  /\ redeem[r].pc = "confirm"
  /\ Ledger!Transition(redeem[r].booking, "CONFIRMED")
  /\ Goto(r, "record", redeem[r].booking, redeem[r].attempt, "CONFIRMED")
  /\ UNCHANGED <<conf, clock, late>>

ConfirmRefused(r) ==
  /\ redeem[r].pc = "confirm"
  /\ ~ CanTransition(bookings[redeem[r].booking].status, "CONFIRMED")
  /\ Goto(r, "read", redeem[r].booking, redeem[r].attempt, None)
  /\ UNCHANGED <<ledger, conf, clock, late>>

ConfirmFails(r) ==
  LET b == redeem[r].booking IN
  /\ redeem[r].pc = "confirm" /\ "call" \in Faults
  /\ \/ Ledger!Transition(b, "CONFIRMED") /\ UNCHANGED late
     \/ late' = late \cup {[op |-> "confirm", booking |-> b]} /\ UNCHANGED ledger
  /\ Goto(r, "read", b, redeem[r].attempt, None)
  /\ UNCHANGED <<conf, clock>>

\* Reconcile by reading: a booking that is still HELD is confirmed once more,
\* and read a last time when the attempts are used up.
Read(r) ==
  LET b == redeem[r].booking
      status == bookings[b].status
      n == redeem[r].attempt IN
  /\ redeem[r].pc = "read"
  /\ \/ status # "HELD" /\ Goto(r, "record", b, n, status)
     \/ status = "HELD" /\ n < MaxConfirmAttempts /\ Goto(r, "confirm", b, n + 1, None)
     \/ status = "HELD" /\ n = MaxConfirmAttempts /\ Goto(r, "lastRead", b, n, None)
  /\ UNCHANGED <<ledger, conf, clock, late>>

LastRead(r) ==
  LET b == redeem[r].booking IN
  /\ redeem[r].pc = "lastRead"
  /\ Goto(r, "record", b, redeem[r].attempt, bookings[b].status)
  /\ UNCHANGED <<ledger, conf, clock, late>>

\* An unreadable booking is recorded UNKNOWN, or HELD after the last attempt.
ReadFails(r) ==
  /\ redeem[r].pc \in {"read", "lastRead"} /\ "call" \in Faults
  /\ Goto(r, "record", redeem[r].booking, redeem[r].attempt,
          IF redeem[r].pc = "read" THEN "UNKNOWN" ELSE "HELD")
  /\ UNCHANGED <<ledger, conf, clock, late>>

Recorded(t, b, final) == [conf[t] EXCEPT !.booking = b, !.final = final]

\* The outcome is recorded and answered.
Record(r) ==
  LET t == redeem[r].token IN
  /\ redeem[r].pc = "record"
  /\ conf' = [conf EXCEPT ![t] = Recorded(t, redeem[r].booking, redeem[r].said)]
  /\ Answer(r, redeem[r].said)
  /\ UNCHANGED <<ledger, clock, late>>

\* recordExecution stands inside the try: when it fails the catch takes over.
RecordFails(r) ==
  LET t == redeem[r].token IN
  /\ redeem[r].pc = "record" /\ "store" \in Faults
  /\ StoredOrNot(t, Recorded(t, redeem[r].booking, redeem[r].said))
  /\ Goto(r, "recordFailure", redeem[r].booking, redeem[r].attempt, "INTERNAL_ERROR")
  /\ UNCHANGED <<ledger, clock, late>>

FailureStatus(error) ==
  IF error = "QUOTE_UNAVAILABLE" THEN error ELSE "EXECUTION_FAILED"

\* The catch: the row gets no booking and the failure, the caller the error.
RecordFailure(r) ==
  LET t == redeem[r].token IN
  /\ redeem[r].pc = "recordFailure"
  /\ conf' = [conf EXCEPT ![t] = Recorded(t, NoBooking, FailureStatus(redeem[r].said))]
  /\ Answer(r, redeem[r].said)
  /\ UNCHANGED <<ledger, clock, late>>

RecordFailureFails(r) ==
  LET t == redeem[r].token IN
  /\ redeem[r].pc = "recordFailure" /\ "store" \in Faults
  /\ StoredOrNot(t, Recorded(t, NoBooking, FailureStatus(redeem[r].said)))
  /\ Answer(r, "INTERNAL_ERROR")
  /\ UNCHANGED <<ledger, clock, late>>

\* The process dies: every request in it is lost, its calls may still land.
InFlight ==
  {[op |-> "create", token |-> redeem[r].token] : r \in {s \in Redeems : redeem[s].pc = "create"}}
  \cup
  {[op |-> "confirm", booking |-> redeem[r].booking] : r \in {s \in Redeems : redeem[s].pc = "confirm"}}

Crash ==
  /\ "crash" \in Faults
  /\ \E r \in Redeems : redeem[r].pc \in Active
  /\ redeem' = [r \in Redeems |->
       IF redeem[r].pc \in Active THEN [redeem[r] EXCEPT !.pc = "lost"] ELSE redeem[r]]
  /\ late' = late \cup InFlight
  /\ UNCHANGED <<ledger, conf, clock>>

\* booking-service serves a call nobody waits for any more.
Land(call) ==
  /\ \/ call.op = "create" /\ \E b \in Bookings : Ledger!Book(b, conf[call.token].quote, call.token)
     \/ call.op = "confirm" /\ Ledger!Transition(call.booking, "CONFIRMED")
  /\ late' = late \ {call}
  /\ UNCHANGED <<conf, clock, redeem>>

\* Users and the agent's tools work on booking-service all the while.
Users ==
  /\ \/ \E q \in Quotes : Ledger!CreateQuote(q) \/ Ledger!HoldQuote(q)
     \/ \E b \in Bookings, q \in Quotes, k \in UserKeys : Ledger!Book(b, q, k)
     \/ \E b \in Bookings, to \in {"CONFIRMED", "CANCELLED"} : Ledger!Transition(b, to)
  /\ UNCHANGED <<conf, clock, redeem, late>>

Tick ==
  /\ clock < MaxTime
  /\ clock' = clock + 1
  /\ UNCHANGED <<ledger, conf, redeem, late>>

Step(r) ==
  \/ Claim(r) \/ LoseClaim(r) \/ Find(r) \/ MarkExpired(r) \/ StoreFails(r)
  \/ CreateBooks(r) \/ CreateRefused(r) \/ CreateFails(r)
  \/ Confirm(r) \/ ConfirmRefused(r) \/ ConfirmFails(r)
  \/ Read(r) \/ LastRead(r) \/ ReadFails(r)
  \/ Record(r) \/ RecordFails(r) \/ RecordFailure(r) \/ RecordFailureFails(r)

Next ==
  \/ \E t \in Tokens, q \in Quotes : Propose(t, q)
  \/ \E r \in Redeems, t \in Tokens \cup {NoToken} : Redeem(r, t)
  \/ \E r \in Redeems : Step(r)
  \/ \E call \in late : Land(call)
  \/ Crash
  \/ Users
  \/ Tick

Spec == Init /\ [][Next]_vars

-------------------------------------------------------------------------------

BookedUnder(t) == {b \in Bookings : bookings[b].key = t}

\* The confirmations table, the handlers and the calls have their shapes.
TypeOK ==
  /\ Ledger!TypeOK
  /\ conf \in [Tokens -> Confirmation]
  /\ clock \in 0 .. MaxTime
  /\ redeem \in [Redeems -> Handler]
  /\ late \in SUBSET Call

\* Between the handlers about to send it, the calls under way without a
\* caller and the bookings, each token has at most one create: the single-use
\* claim sends it once, without leaning on booking-service's unique key.
CreateSentOnce ==
  \A t \in Tokens :
    Cardinality({r \in Redeems : redeem[r].token = t /\ redeem[r].pc = "create"})
      + Cardinality({call \in late : call.op = "create" /\ call.token = t})
      + Cardinality(BookedUnder(t)) <= 1

\* Nothing is booked without a click on it: a booking under a token is of the
\* quote that the token was minted for, and the token is consumed, even if
\* the TTL passed or an expired redeem ran meanwhile (Conditions A and B).
OnlyApprovedBookings ==
  \A t \in Tokens : \A b \in BookedUnder(t) :
    conf[t].status = "consumed" /\ bookings[b].quote = conf[t].quote

\* What the row or an answer says of a booking is true: CONFIRMED of one made
\* under the token and confirmed, CANCELLED of one that was cancelled.
Truthful(t, b, said) ==
  /\ said \in {"CONFIRMED", "HELD", "CANCELLED", "UNKNOWN"} => b \in BookedUnder(t)
  /\ said = "CONFIRMED" => bookings[b].confirmedAt
  /\ said = "CANCELLED" => bookings[b].status = "CANCELLED"

\* Stored outcomes and answers are truthful, whatever calls, statements or
\* processes failed: nobody is shown a confirmation that is not one.
OutcomesAreTrue ==
  /\ \A t \in Tokens : Truthful(t, conf[t].booking, conf[t].final)
  /\ \A r \in Redeems :
       redeem[r].pc = "answered" => Truthful(redeem[r].token, redeem[r].booking, redeem[r].said)

\* "Please re-quote" is safe advice: a token recorded or answered
\* QUOTE_UNAVAILABLE has bought nothing and no late call can make it.
UnavailableMeansUnbooked ==
  \A t \in Tokens :
    \/ conf[t].final = "QUOTE_UNAVAILABLE"
    \/ \E r \in Redeems : redeem[r].token = t /\ redeem[r].said = "QUOTE_UNAVAILABLE"
    => BookedUnder(t) = {} /\ [op |-> "create", token |-> t] \notin late

\* However many clicks, and in whatever order their reads and the winner's
\* write fall, all that learn an outcome learn the same one.
OneOutcomePerToken ==
  \A r, s \in Redeems :
    /\ redeem[r].token = redeem[s].token
    /\ redeem[r].pc = "answered" /\ redeem[s].pc = "answered"
    /\ redeem[r].said \in FinalStatus /\ redeem[s].said \in FinalStatus
    => redeem[r].said = redeem[s].said /\ redeem[r].booking = redeem[s].booking

\* A consumed row without an outcome is being executed, or its process died:
\* the only way to be stuck in_progress that the decision record allows
\* (docs/decisions/0009, Consequences).
StuckOnlyByCrash ==
  \A t \in Tokens :
    conf[t].status = "consumed" /\ conf[t].final = None =>
      \E r \in Redeems : redeem[r].token = t /\ redeem[r].pc \in Executing \cup {"lost"}

\* A row marked EXECUTION_FAILED has no confirmed booking that its own redeem
\* made: the catch records failures "so a re-redeem/GET reflects the live
\* outcome" (gateService.ts).
FailureReflectsOutcome ==
  \A t \in Tokens :
    conf[t].final = "EXECUTION_FAILED" =>
      \A b \in BookedUnder(t) : ~ bookings[b].confirmedAt

Phase(t) == IF conf[t].status = None THEN "unminted" ELSE conf[t].status
Bought(t) == IF BookedUnder(t) = {} THEN NoBooking ELSE CHOOSE b \in Bookings : bookings[b].key = t
Verdict(t) == IF conf[t].final = None THEN "none" ELSE conf[t].final

Promise == INSTANCE SingleUse WITH
  phase <- [t \in Tokens |-> Phase(t)],
  bought <- [t \in Tokens |-> Bought(t)],
  verdict <- [t \in Tokens |-> Verdict(t)]

\* The gate implements the single-use promise: one approval, at most one
\* booking and one verdict.
ImplementsPromise == Promise!Spec

\* Every redeem is answered unless its process dies: the confirm loop is
\* bounded, whatever the calls and the users of the booking do meanwhile.
EveryRedeemIsAnswered ==
  \A r \in Redeems : redeem[r].pc \in Active ~> redeem[r].pc \in {"answered", "lost"}

\* A claimed token gets its outcome, so a poll of the card ends, unless a
\* process died at it.
ClaimIsSettled ==
  \A t \in Tokens :
    conf[t].status = "consumed" ~>
      \/ conf[t].final # None
      \/ \E r \in Redeems : redeem[r].token = t /\ redeem[r].pc = "lost"

===============================================================================
