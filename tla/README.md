# FreightPilot: formal models

FreightPilot quotes and books freight. A shipper books from the web client, or
asks an agent that proposes a booking which the shipper confirms with one click.
This directory models the code that must not sell twice, lose a booking or tell
the shipper something untrue, checks the models with TLC on small instances and
proves their safety properties with TLAPS for every instance.

## The system

| Component | State | Operations | Talks to |
|---|---|---|---|
| booking-service (`services/booking`) | Postgres tables `quotes`, `bookings` (UNIQUE idempotency key), `booking_events`; a pool of ten connections | create and hold a quote; create a booking (idempotent on its key); confirm, cancel, read a booking | its database |
| agent-service, confirmation gate (`services/agent/src/gate`) | table `confirmations`: token, quote, status, expiry, outcome | propose (mint), getCard, redeem (claim, create, confirm, reconcile, record) | its database; booking-service over HTTP |
| agent-service, turns (`turn`, `loop`, `tools`) | none between requests; a conversation within one | run one turn: at most two calls of the model, at most one tool | LLM router, gate (propose), rates- and booking-service |
| agent-service, LLM adapter (`llm`) | one token bucket per provider | chat: try providers in order, fall back on retryable errors | the providers over HTTP |
| rates-service (`services/rates`) | read-only rate cards and surcharges | search cards, calculate a quote | its database |
| web client (`client`) | component state: search, selection, cached prices, one key per booking panel, one conversation, one token per card | search, price, reserve, confirm or cancel; chat, confirm a card, poll it | the three services |
| evaluation runner (`evals/runner`) | recordings and their metadata on disk | a pass in record mode (captures what is missing) or in replay mode (gates merges) | the tool loop; the provider in record mode |

What is hard, and where:

* **booking-service** handles requests concurrently. Each handler is a few SQL
  statements with an `await` between them; read committed isolation, `FOR UPDATE`
  row locks and one unique index are all the protection there is. Correct means:
  a quote is sold once, a key names one booking, a booking's status is explained
  by its event log, quote and booking change together, a success answer is
  backed by committed rows, a conflict is never reported to the caller who won,
  and every request is answered although handlers wait for locks, for each
  other's uncommitted keys and for connections.
* **the gate** spans two databases and HTTP. Clicks race; the clock passes the
  token's TTL; calls fail before or after they took effect, or take effect late;
  statements fail; the process dies. confirm is not idempotent. Correct means:
  nothing is booked without an approved, unexpired, unspent token, a token is
  spent and sent once, everyone who is told an outcome is told the same true
  one, and a claimed token gets an outcome.
* **turns and the LLM adapter**: timeouts and fallback order, a shared rate
  limiter without a queue, a bounded correction, tools and an INSERT that fail
  before or after they took effect. Correct means: every turn is answered, it has
  at most one effect and never a booking, a reply that reads "nothing was done" is true,
  providers are tried in order, the limiter keeps to its rate.
* **rates-service** is pure integer arithmetic: no ordering, but rounding and
  overflow. Correct means: a price is what its lines say, in any order of the surcharges, rounded to
  half a cent, and what is smaller does not cost more.
* **the web client** has re-entry guards, a key reused across retries of a chain
  of three calls, prices that are fetched in the background and kept by query, and bounded polling.
  Correct means: a panel books at most once, books what it showed and is not refused its own
  retry, the chat stays in one conversation, what a card tells is true and final, and no
  click ends in a spinner.
* **the evaluation runner** captures over several passes and days; what it wrote is looked up by
  a key that contains earlier answers. Correct means: a complete capture replays to the results it had,
  a green gate has driven every case to an outcome, and the scorecard tells
  which models, and which day, the recordings are of.

## Modules

| Module | What it is |
|---|---|
| `BookingLifecycle` | The transition tables of bookings and quotes (`stateMachine.ts`, `quoteStatus.ts`). |
| `BookingLedger` | The abstract specification of booking-service: every request is one indivisible step on the three tables. |
| `BookingService` | The handlers of `bookingService.ts`, statement by statement, with row locks, the wait on an uncommitted unique key, the pool, statements that fail and commits whose acknowledgement is lost. |
| `MCBookingService` | Symmetry for TLC. |
| `BookingLedgerProofs` | Theorems about `BookingLedger`. |
| `BookingServiceProofs` | Theorems about `BookingService`: it implements `BookingLedger`, and its answers are true and last. |
| `SingleUse` | The abstract specification of the gate: an approval is minted, spent or expired, buys at most one booking, gets at most one verdict. |
| `ConfirmationGate` | The gate of `gateService.ts`, `confirmationStore.ts` and `executor.ts`, await by await, over `BookingLedger`. |
| `MCConfirmationGate` | Symmetry for TLC. |
| `ConfirmationGateProofs` | Theorems about `ConfirmationGate`: approvals, truth of outcomes, one create per token, and that it implements `SingleUse`. |
| `ConfirmationCard` | The card of `ConfirmationCard.tsx` with its polling, over `ConfirmationGate`: what the shipper is told. |
| `ConfirmationCardProofs` | Theorems about `ConfirmationCard`: what is shown is true and final, and the gate's theorems hold beneath it. |
| `Pacer` | The abstract specification of a rate limiter: permits accrue up to a capacity, a call takes one. |
| `TokenBucket` | The bucket of `tokenBucket.ts` in integer time, with callers that sleep and race; implements `Pacer`. |
| `TokenBucketProofs` | Theorems about `TokenBucket`: burst plus rate, and that it implements `Pacer`. |
| `LlmRouter` | The fallback chain of `router.ts` over a `Pacer` per provider, with the transport of `http.ts` in its two phases. |
| `AgentTurn` | One turn from `ChatPanel.tsx` through `turnService.ts` and `agentLoop.ts` with its tools, over `LlmRouter` and the two provider dialects. |
| `AgentTurnProofs` | Theorems about `AgentTurn` and the `LlmRouter` beneath it. |
| `Pricing` | The arithmetic of rates-service (`QuoteCalculator.java` and the strategies) as operators, and what makes a price sound. |
| `RatesPage` | The page of `RatesPage.tsx` with its searches and prices, and the reserve chain of `BookingPanel.tsx`, over `Pricing` and `BookingLedger`. |
| `MCRatesPage` | Cards, shipments, symmetry and the samples of `Pricing` for TLC. |
| `RatesPageProofs` | Theorems about `RatesPage`: one booking per panel, booked as shown, and the ledger kept; and about `Pricing`: every price is sound. |
| `EvalRunner` | The passes of `evals/runner`: capture, replay, scoring, the gate and the scorecard. |
| `MCEvalRunner` | Suites, answers and the floors of `gating.ts` for TLC. |
| `EvalRunnerProofs` | Theorems about `EvalRunner`: replay, gate and scorecard. |

### How the models correspond to the code

**BookingService.** `pc[r]`, `req[r]`, `seen[r]`, `page[r]` and `out[r]` are the stack of one request: its program
counter, the quote, key or booking it is about, what it read and its answer.
`Receive` is the route, `Begin`/`HoldQuote`/`CommitHold` are `holdQuote`;
`ReadPrior`/`LockQuote`/`InsertBooking`/`CommitBooking`/`Reread` are
`createBooking` from its fast path to its catch; `LockBooking`/`CommitTransition`
are `transitionExistingBooking` with `applyTransition`; `ReadRow`/`ReadEvents`
are the two statements of `getBooking`. Writes of an open transaction are kept
in the handler until it commits, which is what read committed shows to others;
the exception is the unique index, which an insert of the same key waits on even
before the commit. The statements after the last lock of a transaction are one
step with its commit, because nobody can see or disturb what they touch.
`Fail` is a statement error or a lost connection: the transaction rolls back, its
locks and its connection are released, the caller gets a 500. A commit whose
acknowledgement is lost is a commit followed by an error answer.
A transaction keeps a connection from `Begin` to its end, a lone statement only while it runs
(`PoolHasConnection`); `TypeOK` says, beside the shapes, that there are never more
`Transactions` than connections.
`bookings` ids are drawn by the database (uuid); a finite instance needs at
least as many ids as creates that can succeed, and the instances have them.
Data without influence on control (shipment, breakdown, price, actor, metadata) is left out.

**ConfirmationGate.** `conf` is the confirmations table, `redeem[r]` one POST of
a token. A claim is `Claim` or `LoseClaim`; the loser goes on to `Find` and
possibly `MarkExpired`; the winner goes through `CreateBooks`, `CreateRefused`
(409 for a quote that is not HELD, 404 for none) or `CreateFails` (the row gets `EXECUTION_FAILED`, the
caller too after a 5xx, but a 500 after a transport failure), then the loop
`Confirm`/`ConfirmRefused`/`ConfirmFails`, `Read`/`LastRead`/`ReadFails`, then
`Record`. `RecordFails` shows that `recordExecution` is inside the `try`: its
failure enters the catch, `RecordFailure`, which may fail too. `redeem[r].at` is
the `now` taken at the start. `late` holds calls whose caller has given up or
died and which booking-service may still serve (`Land`), or never. booking-service
is `BookingLedger` with tokens among the keys; `BookingServiceProofs` is the
reason why its handlers may be taken as atomic here. `Users` are people
and the agent's own tools at work on booking-service. `getCard` returns the row
and needs no step. `CONSTANT Faults` selects the faults of a run: `call` (HTTP),
`store` (statements of the confirmations table), `crash` (the process).
A request for a token that was never minted is the token `NoToken`.

**ConfirmationCard.** `card[t]` is the component that shows token `t`: how far the
click is, the answer to the post (`redeem.data` or `redeem.error`), what the last
good poll brought, whether a later one failed and whether the timer fired.
`View` is the component's rendering in its order of priority, `FromRedeem`,
`FromError` and `Resolved` are its three mappings. `Arrive` is the post at the
gate; it may come late, or twice by way of a proxy, which is how one click ends
in `in_progress`. `Poll` has both results and the forgotten error of a fetch that
starts without data. Data and error of react-query, and its refetch on the focus
of the window, are modelled from how `agentHooks.ts` uses it. A card
that is left and shown no more is one that takes no further step.

**TokenBucket.** The level is counted in ticks worth of refill, so that rate and
waiting time are integers; `elapsed` and `sleep` are relative to the clock, which
keeps the state space finite without a bound on time. One round of the loop of `acquire()` has
no `await` in it: `Grant` or `Wait`. `grants` is bookkeeping of the model: when
tokens were granted within the last minute. Fractions of a millisecond are not modelled.

**LlmRouter.** `chat[c]` is one call of `router.chat()`. `Send` is
`bucket.acquire()` and the request; `Headers` clears the timer and leads to the body,
which is read as JSON (`Body`; what breaks is "malformed") or for its text (`ErrorBody`,
`safeText` swallows what breaks); `Timeout` and `NetworkError` can only happen
before the headers, because the `finally` of `postJson` clears the timer.
`Fails` is the `catch` of the router.

**AgentTurn.** `turn[t]` is `runTurn` with the loop inside: `Ask` is an iteration of the loop
up to its `await`, `Extract` what follows the answer, `Correct` the end of an
invalid iteration, `Execute` the tool, `Propose` the minting. The call the turn waits for
is `chat[t]` of `LlmRouter`, whose own steps `Serve` lets through. `effects` is
bookkeeping: what happened outside agent-service. Whether a tool call is valid is one bit, which of the
seven tools it names decides what it may do; an echoed call is who made it and
whose signature it carries. `Accepts` is the provider's rule, modelled from the comment at
`NormalizedToolCall`; the provider itself is external. `pane` is `ChatPanel`:
one post at a time, which may break while the turn runs on. `Arrive` refuses a body that Fastify
does not take (one that is too large, say) or that the schema rejects.
A minted token and a booking tool act on the gate and on booking-service
in `ConfirmationGate!Propose` and `!Users`, for any quote at any time.

**Pricing.** One operator for each method, each strategy's among them. A `long` is an integer from `-MaxLong - 1` to `MaxLong`; products go
through `BigDecimal` or `multiplyExact` and throw when they do not fit (`Fits`), the total is summed by
`Plus`, which wraps. `Sum` and `Total` are recursive functions, one step for each line, as the loop of
`QuoteCalculator.calculate` is. `IsCard`, `IsLoad` and `Surcharge` say what the tables and the validation of a
request let through: the base of a card, weight and volume are positive; the sign of a surcharge
and of a lane's distance is checked nowhere, so a surcharge may be a discount.

**RatesPage.** `page` is the component's state with the mount count of its panel; `cache` and
`fetching` are the two sides of react-query as `hooks.ts` uses it: a query is fetched when it comes
into view or the window gets the focus, and answers arrive in any order. `Render` is what every change of
state ends in, and mounts a new panel exactly when React's `key` does. `panel[p]`
is a mounted panel and its running chain: `Click` is `reserve()` behind its
re-entry guard, the three calls are `QuoteSaved`, `QuoteHeld` and `BookingCreated`,
`Fails` is its catch. A failed call was served or is in `late`. A panel that is
left keeps its chain running, as a promise does; a new panel has a new key.
The cards do not change while the page is open; rates-service only reads them. `saved` is bookkeeping:
the request a quote was saved from.

**EvalRunner.** `run` is one process of `run.ts`: `Start` loads and refuses the suite, one
action per case and answer (`SkipPending`, `Serve`, `Miss`, `Fetch`), `Finish` is the
end of `runEvals` with the scorecard and the exit code. A recording is its answer, its pinned id and its model; the
key is the case's input and, for a correction, the rejected call that goes back. A capture is under one
configured name and one prompt, which are part of every key and left out. `captured` and the `day` of a recording are
bookkeeping. A safety case may be driven through the real turn, which changes
the details of its scoring, but still lets any outcome but an error pass.

**Seeded defects.** The operators under this heading in each module are not part
of the specification. They are the steps as a plausible mistake would leave
them; each property is known to fail when one of them takes the place of the
step it is modelled on.

## What is checked

| Run | Question | Instance |
|---|---|---|
| `service_ledger` | Does every interleaving of the handlers amount to ledger steps, do checks made under a lock still hold at commit, and are answers true (a conflict blames another key, a read shows no status without its event)? | 2 requests of any kind, 2 quotes, 2 keys, 2 bookings, 2 connections; 100,595 states |
| `service_live` | Is every request answered, is a success answer backed by committed rows, and has every transaction a connection? | 3 requests (hold, create, confirm) on 1 quote, 1 key, 1 booking, 2 connections; 74,890 states |
| `gate_faults` | With every fault allowed: is anything booked unapproved, sent twice or reported untruly? | 2 tokens, 2 clicks, 2 quotes, 2 bookings; about 1.6 million states |
| `card` | Over the gate with failing calls and crashes: is what the card shows true and final, does it leave its spinner, is every redeem answered with the one outcome and every claim settled unless its process died, and does the gate implement `SingleUse`? | 1 token, 2 posts, 1 quote, 1 booking, users at work; 47,205 states |
| `gate_lost_outcome` | *Violated.* Does the row of a finished redeem reflect the live outcome? | one failing statement |
| `gate_stuck` | *Violated.* Is a crash the only way to be stuck in progress? | one failing statement |
| `bucket` | Do racing callers keep to a burst plus the rate, do tokens flow while one waits, is the lazy refill a `Pacer`? | 3 callers, 3 tokens a minute, 2 ticks a token; 11,202 states |
| `turn` | Over the chain of providers: is every turn answered after at most one correction, is its reply true to its effects, are only crossed echoes refused, does the panel stay in one conversation, are providers tried in order? | 2 turns, 2 providers of which the first signs, 3 courier tools; 134,752 states |
| `router_stall` | *Violated.* Does every chat end, whatever a provider does? | 1 chat, 1 provider |
| `page` | Is what a panel books what the page showed, at most once, with no retry refused, is the ledger consistent and its history append-only under this load, and are prices sound? | 2 cards, 2 shipments, 4 views, 2 panels, 2 clicks each, 1 late call, 3 quotes, 2 bookings; 350,707 states; prices for 36 cards, 43 lists of surcharges and 8 loads |
| `eval` | Does a complete capture replay to its results, is a green gate honest, are the models named? | 3 suites of 4, 7 and 1 cases, 2 answers, 2 days, 2 removals; 4,981,264 states |
| `eval_stamp` | *Violated.* Is the capture date that of the recordings? | the same |

Runs that say `CHECK_DEADLOCK FALSE` stop when every request of the instance was
answered and nobody has anything left to do, which real clients may do too.

**Bounds.** Two requests suffice for every pairwise race of the handlers and
three for a lock holder, a waiter and a third that slips in between; three on a pool of two
make the pool itself contended, so that its bound in `TypeOK` bites (that run checks `TypeOK` for this reason). Two quotes and two keys are the least that tell "same" from
"another" in `LedgerConsistent` and `AnswersAreTrue`.
In the gate two tokens for one quote compete for it and two clicks give a
winner and a loser, which reads early or late. A card needs one token, for cards share nothing
but the gate, and two posts, so that the answer it gets may be the loser's. `MaxTime = TTL = 1` is
enough: the clock matters only through "before" and "at or after" expiry. The
confirm loop has the two attempts of the code. Logs and calls are bounded by the transition table.
In `page` the two cards are valid together for one shipment and only one of them for
the other, so that a panel can be changed by selecting and by searching; `MaxViews = 4` lets the user come
back to a card and a shipment seen before while answers are on the wire. `MaxLong = 127` and
`Scale = 10` bring the edges of a long and of a decimal within reach of sample prices of one to
three digits; the samples hold every mode, both kinds of surcharge, a discount, none to two of them, and products and
sums on both sides of the edge. In `eval` one suite has a case of every kind, two of which share
a question; in another the tool tier has five cases, so that its floor tolerates one failure, exactly; a third has
a case that may not be there. Two removals (`MaxRemovals`) can leave a gap at a first attempt and at its
correction; with two days the model behind the name rotates once.
The bucket needs a third caller to overtake one of two, and two ticks a token for
the fractions; two providers make one that has another after it and one that has
not; two clicks (`MaxClicks`) make a retry, and two panels a neighbour whose
quote could be booked by mistake. Four chains would save four quotes; with three
ids the last one fails or waits at its first call.

**Fairness.** `BookingService!FairSpec` is strong fairness of the steps of each
handler: a handler that can go on again and again does. Postgres grants row
locks and index waits in order of arrival and the driver queues transactions for
connections in order, so a waiter is not overtaken for ever. `ConfirmationCard!FairSpec`
is weak fairness of each redeem (a statement or a call ends in some way), of the
answer's or the broken connection's way to the browser, and of the browser's timer. Nothing
is assumed of clicks, polls, faults, late calls or the clock. In `TokenBucket` time
goes on and a timer that is due fires. In `LlmRouter` and `AgentTurn`, permits accrue,
a caller takes one that stays for it (not more, because the bucket has no
queue; but finitely many compete, each for two chats at most, so every turn of an instance gets its own) and timers fire;
`AgentTurn!FairSpec` adds that the loop goes on and that a body that was begun is finished or broken, which no code enforces:
`turn` is the claim under that assumption, `router_stall` the same claim about one chat without it.
Nothing is assumed of the panel, which need not send or show anything. `RatesPage` and `EvalRunner` have
no liveness property: their next step is always the user's or the operator's.

### What the violated runs show

* `gate_lost_outcome`: create and confirm succeed, the booking is CONFIRMED, and
  `recordExecution` fails. The catch then stores no booking id and
  `EXECUTION_FAILED`, and later clicks and polls advise to "retry from a new
  quote", although the comment on the catch promises that the row reflects the live outcome.
  Without store faults it is the true one (`OutcomesAreTrue`, `OneOutcomePerToken`).
* `gate_stuck`: a claim that commits but loses its acknowledgement leaves the
  token consumed with no executor; so does a `recordExecution` that fails twice.
  ADR-0009 names process death as the sole way there. With only call faults
  and crashes it is (`card`).
* `router_stall`: the timer is cleared once the headers are there, so the deadline
  does not cover the body: one that trickles on keeps the chat open without end.
  (The HTTP client's own limit ends a silent body after five minutes; json()
  then throws, which is "malformed" and does not fall back either.)
* `eval_stamp`: `liveFetches` counts answers, not refusals, although both are written down, and
  only a pass that reaches its end stamps. A capture whose provider refuses for
  good leaves fixtures without a date; so does one that is interrupted after its last
  fetch, because the pass that finishes it has nothing left to fetch. The date in the scorecard is
  then older than some of the recordings it is computed from.

Other disagreements with a text, visible in the models but without a run of their own:

* `now` is read at the start of a redeem, so a claim that has to wait for a
  connection may consume a token whose TTL is over (`ConfirmationGate!Claim` with an
  old `redeem[r].at`); ADR-0009 gives the guard as `expires_at > now()`, the time of the statement.
* `TokenBucket` has a capacity of a whole minute's tokens, so a full bucket and
  the refill together grant nearly 2 rpm in a minute; `BurstPlusRate` states the true bound.
* A connection reset in a 200 body is "malformed" and stops the chain
  (`LlmRouter!Body`), while the same reset a moment earlier falls back.
* When the last call of the reserve chain fails, the orphan is HELD, not
  ACTIVE as the comment in `BookingPanel.tsx` says, and no code expires either.
* `AgentTurn` reaches the crossed echo that `llm/types.ts` names as its known limitation;
  `OnlyCrossedEchoesAreRefused` states that nothing else is refused for its signature.
* With failing statements (`store`, which `card` does not allow) a card that polled
  CONFIRMED between a `recordExecution` that lost its acknowledgement and the
  catch can later poll EXECUTION_FAILED: `SettledIsFinal` rests on the outcome being written once.

Not a disagreement with any text, but visible in the model: a create whose answer is
lost is recorded `EXECUTION_FAILED` while a HELD booking keeps the quote; and
`final_status` HELD or UNKNOWN is never refreshed when a late confirm lands.

## What is proved

`BookingLedgerProofs` (for all sets of quotes, keys and bookings):

* `TypeCorrect`: the tables keep their shape.
* `LedgerIsConsistent`: `LedgerConsistent`, which is QuoteSoldOnce, KeyNamesOneBooking and ConsumedIffBooked.
  QuoteSoldOnce is not inductive alone: a HELD quote could already have been
  sold. ConsumedIffBooked is what excludes it, so the three are proved together
  with the type invariant.
* `LogIsTheHistory`: every event log is a legal path to the stored status.
* `HistoryIsAppendOnly`: no step rewrites an event, leaves a terminal status,
  changes a row without an event or frees a spent quote.

`BookingServiceProofs` (for any finite set of requests, all operations and pool sizes):

* `ServiceTypeCorrect`: the shapes, and never more transactions than connections: a transaction
  starts on a connection nobody has, and no other step adds one (`PoolStep`).
* `ChecksHold`: what a handler checked under a lock is
  true until its commit. The inductive invariant says who holds which row lock, that
  a handler past its check holds the lock that guards what it checked, and that
  an uncommitted key is nobody else's.
* `ServiceImplementsLedger`: every step of an interleaved handler is a ledger
  step or changes no table. The commit steps are the interesting ones, and each needs ChecksHold:
  the ledger's guard must be true at the commit, not when it was evaluated.
* `ServiceSellsOnce`: no interleaving sells a quote twice, by the refinement and
  the step lemmas of the ledger.
* `ServiceAnswersTruly` and `ServiceAnswersLast`: `AnswersAreTrue` and `AnswersAreDurable`. A
  handler reads in several statements while others commit, so `AnswersInv` says of
  each point of a handler what is true of its earlier reads: a quote seen spent has been
  sold, the caller's own key is not the one that bought it, a status read has its event. That these stay
  true is monotonicity (rows, events and spent quotes stay), which comes from the refinement;
  that a row has its event at all is `LogIsTheHistory` of the ledger.

`ConfirmationGateProofs` (for all tokens, clicks, quotes and bookings, any TTL, with every fault allowed
unless said otherwise):

* `GateTypeCorrect`; `ApprovedOnly`: a booking under a token is of the quote that was approved;
  `SentOnce`: handlers, late calls and bookings hold one create of a token at most; `OutcomesTrue` and
  `UnavailableUnbooked`: stored outcomes and answers are true, and who is sent to re-quote has bought nothing.
  None of them is inductive alone. `GateInv` says of each token that before
  the claim nobody executes and nothing was sent; that after it one handler executes, and the create is in one place:
  with the handler that has still to send it, on its way without a caller, or in the ledger; and
  that the row tells the truth. Of each handler it says what it carries from step to step.
  Truth survives the ledger's own steps because these only go forward (`Forward`): a booking
  keeps key, quote, confirmation and cancellation.
* `OneOutcome`, `OnlyCrashesStrand` and `GateImplementsPromise` (the refinement of `SingleUse`) have the
  hypothesis `"store" \notin Faults`: statements of the confirmations table do not fail.
  It cannot be dropped: `gate_stuck` is a counterexample to the second, and a `recordExecution` that commits,
  loses its acknowledgement and is then overwritten by the catch is one to the others: two clicks that read before and
  after the catch are told different outcomes.
  `CleanInv` adds that an executor has not recorded anything yet and that who answers an outcome answers the recorded one.
  HTTP failures, late calls and crashes are allowed.

`ConfirmationCardProofs` (for all tokens and posts):

* `WhatIsShownIsTrue`, with every fault allowed, and `CardTypeCorrect`. The card uses the gate only as the gate's
  next-state relation allows, so `GateInv` holds beneath it; `CardInv` adds that
  what a post or a poll has brought is true of its token. Truth of an outcome is stable, so a card
  that shows an old answer still shows a true one.
* `ShownIsFinal`, `CardOneOutcome`, `CardOnlyCrashesStrand`, `CardImplementsPromise`, again for a store that does not fail:
  `FinalInv` adds that a polled outcome is the recorded one, which is written once.

`AgentTurnProofs` (for any chain of providers, any number of turns, any tools):

* `TurnTypeCorrect`, `ChainInOrder`, `RepliesTellEffects`, `OnlyCrossedAreRefused`, `PanelShowsOneConversation`.
  `AgentInv` has a part for the router's calls (a chat at provider n has n - 1 retryable
  failures behind it), one for the turns (none has an effect before its reply; an echoed call is signed by whoever of
  the signing providers made it), and one for the panel (all it shows, and the turn it waits for, are of its conversation).

`TokenBucketProofs` (for any number of callers, rate, capacity and resolution of time):

* `KeepsToTheRate`: `BurstPlusRate`, with `BucketTypeCorrect`. `BurstInv` strengthens it by the refill: the tokens
  that a caller would find, and those granted since, are not more than a full bucket and the time since. A level
  above that would pay for one grant too many.
* `LazyRefillIsAPacer`: the bucket implements `Pacer`, which is what `LlmRouter` takes it for.

`RatesPageProofs` (for any cards, shipments, panels and clicks). The page, which takes a price as it comes:

* `PanelBooksOnce`, `RetriesSucceed`, `ShownIsBooked`. `WholeInv` follows a request on its way: what the page shows was
  found, a cached price is that of its query, a panel asks for what it shows, the quote of a chain
  was saved from the panel's request and is HELD or spent under its own key, a lost call carries what
  its panel sent, and a booking has the key of the panel that saved its quote.
* `PageKeepsTheLedger`: the page with all its panels and late calls takes only ledger steps, and `PageLedgerHolds`, by the theorems of the ledger.

And what a price is (for any width of a long, and any scale of a decimal):

* `EveryPriceIsSound`: for every card, load and list of surcharges, of any length and sign, a price that is answered
  has a total equal to the sum of its lines if that sum fits a long at all, the same total with any two surcharges
  swapped, and each percentage within half a cent of the exact share. The code's comment says that order is
  immaterial because every surcharge refers to the base; the sum also wraps on the way, and
  `TotalIsTheSum` shows why that does no harm: the total is `Wrap` of the exact sum (`WrapAdds`), whatever the order.
* `LessIsNeverDearer`: what is lighter and smaller does not cost more on the same card, if no surcharge is a
  discount. With discounts it may: of two of thirty percent each
  nothing is taken from one cent and both from two, because each is rounded for itself. The hypothesis that the dearer
  sum fits is needed too: a sum that wraps is negative.
* `PricesStaySound` is the property of the run, from these two. `SoldPricesAddUp` joins both halves: the price of every
  booking that the page made is what its lines add up to, since it is the price that was shown, which rates-service computed.
* The argument is by induction over the lines. The induction theorems of the library have an operator as a parameter and
  cannot be used, but that `<` on the naturals is well-founded, and that a non-empty set then has a least element
  (`WFMin`), can: `Induction` and `BoundedInduction` state induction for sets, `RecursionIsDefined` that a recursion
  from integers to integers defines a function, and `SumIs` and `TotalIs` give the equations of the two sums.

`EvalRunnerProofs` (for all suites, answers, floors, days and rotations):

* `ReplaysTheCapture`: a complete capture replays to its results. The invariant is that the results of a pass so far are a
  function of the cases and of what is on disk (`Replays`), that recordings are only added between
  removals (`Grows`), and that the call echoed to a correction is the one on disk.
* `EveryModelIsNamed`: every recording that is an answer carries a model, and the scorecard collects them.
* `GreenMeansMeasured`: `GateIsHonest` for suites of less than 200 cases. The hypothesis is needed:
  the pass rate is rounded to hundredths of a percent, and two cases of 201, which is less than one percent, are
  rounded up to a floor of one. `RateIsExact` shows that below 200 cases no rate is. The suites of the repository are far smaller.

**Assumptions.** Those on the constants, named in the modules that declare
them and evaluated by TLC in every run: markers such as `NoQuote` are
not members, keys of users are not tokens, bounds are numbers, no tool is named like another outcome,
reads and writes are disjoint; `PricingConstants` (a long has some width, a decimal some scale) and `PriceData`
(the cards, loads and surcharges of the page and of the samples are such as the tables and the validation let through). The requests in flight at once are finitely many. The bounds of the instances (`MaxTime`, `MaxViews`, `MaxRemovals` and so on) are constants of the
theorems like any others: they hold for every value. The hypotheses that single theorems have beyond these are stated with them, and explained above.

**Only model-checked.**

Every invariant and every action property of the runs is a theorem, and so are the refinements. What is left is

* Liveness: `EveryRequestIsAnswered`, `CardSettles`, `EveryRedeemIsAnswered`, `ClaimIsSettled`, `EveryTurnIsAnswered`, `SomeoneGetsThrough`. The
  prover has neither fairness nor ENABLED.

## Not modelled, and why

Entropy and secrecy of tokens, request validation, the bodies of wire formats, prompts, SQL text, rendering,
sorting, start-up and shutdown, contracts and CI carry no state that a property speaks of.
Quote expiry (`quotes.expires_at`) and the EXPIRED and DOCUMENTS_ISSUED statuses
have no code that acts on them; the lifecycle table has their transitions, no
action takes them. How the evaluation matches arguments, intervals and texts against what a case expects is
abstracted to equality of outcomes, and its preregistration and stub services are left out. A search's
results are read from the cards rather than from react-query's cache: cards do not change, so a cached list is the list.

## Plan

1. Done: lifecycle, ledger, service, their proofs; single use, gate; pacer,
   bucket, router; agent turn; pricing and the rates page; confirmation card; evaluation runner.
2. Done: proofs of the gate, the card, the service's answers, the turn with the router, the bucket, the page and the evaluation.
3. Done: induction for sums, and with it the soundness of prices, from the rate card to the booking.
4. Left over: what TLC alone can check (liveness), and what is not modelled, above.
