------------------------- MODULE ConfirmationGateProofs -------------------------
(***************************************************************************)
(* Proofs about ConfirmationGate, for any sets of tokens, redeems, quotes  *)
(* and bookings and any faults: the single-use claim buys at most once,    *)
(* only what was approved, and every outcome that is stored or answered is *)
(* true.  With a store that does not fail, all who learn an outcome learn  *)
(* the same one, and the gate implements SingleUse.                        *)
(***************************************************************************)
EXTENDS ConfirmationGate, Sequences, FiniteSetTheorems, TLAPS

\* The ledger consults the same two tables as the gate.
LEMMA SameTables ==
  /\ Ledger!BookingStatus = BookingStatus /\ Ledger!QuoteStatus = QuoteStatus
  /\ Ledger!None = None /\ Ledger!InitialStatus = InitialStatus
  /\ \A from, to : Ledger!CanTransition(from, to) <=> CanTransition(from, to)
<1>1. Ledger!BookingStatus = BookingStatus /\ Ledger!QuoteStatus = QuoteStatus
  BY DEF Ledger!BookingStatus, BookingStatus, Ledger!QuoteStatus, QuoteStatus
<1>2. Ledger!None = None /\ Ledger!InitialStatus = InitialStatus
  BY DEF Ledger!None, None, Ledger!InitialStatus, InitialStatus
<1>3. Ledger!Transitions = Transitions
  BY <1>1, Zenon DEF Ledger!Transitions, Transitions
<1>4. \A from, to : Ledger!CanTransition(from, to) <=> CanTransition(from, to)
  BY <1>2, <1>3 DEF Ledger!CanTransition, CanTransition
<1>5. QED
  BY <1>1, <1>2, <1>4

\* From the statuses that occur here, the table leads only to these.
LEMMA TableFacts ==
  /\ {"HELD", "CONFIRMED", "CANCELLED"} \subseteq BookingStatus /\ None \notin BookingStatus
  /\ \A to : ~ CanTransition("CANCELLED", to)
  /\ CanTransition("HELD", "CONFIRMED") /\ ~ CanTransition("CONFIRMED", "CONFIRMED")
  BY DEF BookingStatus, None, CanTransition, Transitions

\* The bookings are of the kinds the gate can meet: absent and without a key,
\* HELD, CONFIRMED with its time, or CANCELLED; and a key has one booking.
RowsInv ==
  /\ \A b \in Bookings :
       /\ bookings[b].status \in {None, "HELD", "CONFIRMED", "CANCELLED"}
       /\ bookings[b].status = None => bookings[b].key = NoKey
       /\ bookings[b].status = "CONFIRMED" => bookings[b].confirmedAt = TRUE
  /\ \A b, c \in Bookings :
       bookings[b].key = bookings[c].key /\ bookings[b].key # NoKey => b = c

\* The tables keep their shape, and a booking with a key keeps what was said
\* of it: its key, its quote, its confirmation and its cancellation.
Forward ==
  /\ Ledger!TypeOK' /\ RowsInv'
  /\ \A b \in Bookings :
       bookings[b].key # NoKey =>
         /\ bookings'[b].key = bookings[b].key /\ bookings'[b].quote = bookings[b].quote
         /\ bookings[b].confirmedAt = TRUE => bookings'[b].confirmedAt = TRUE
         /\ bookings[b].status = "CANCELLED" => bookings'[b].status = "CANCELLED"

SameBought(t) == BookedUnder(t)' = BookedUnder(t)

LEMMA UnchangedLedger ==
  ASSUME Ledger!TypeOK, RowsInv, UNCHANGED ledger
  PROVE  Forward /\ \A t \in Tokens : SameBought(t)
  BY DEF ledger, Forward, RowsInv, Ledger!TypeOK, SameBought, BookedUnder

\* A booking made under a key is the first and the only one of the key.
LEMMA BookEffect ==
  ASSUME Ledger!TypeOK, RowsInv, NEW b \in Bookings, NEW q \in Quotes,
         NEW k \in Tokens \cup UserKeys, Ledger!Book(b, q, k)
  PROVE  /\ Forward
         /\ \A t \in Tokens \ {k} : SameBought(t)
         /\ BookedUnder(k) = {} /\ BookedUnder(k)' = {b}
         /\ bookings[b].key = NoKey /\ bookings'[b].quote = q /\ bookings'[b].status = "HELD"
<1>1. /\ bookings'[b] = Ledger!BookedRow(q, k)
      /\ \A c \in Bookings \ {b} : bookings'[c] = bookings[c]
      /\ bookings[b].status = None /\ \A c \in Bookings : bookings[c].key # k
  BY SameTables DEF Ledger!Book, Ledger!TypeOK, Ledger!Exists
<1>2. /\ bookings'[b].key = k /\ bookings'[b].quote = q /\ bookings'[b].status = "HELD"
      /\ bookings'[b].confirmedAt = FALSE
  BY <1>1 DEF Ledger!BookedRow
<1>3. k # NoKey
  BY GateConstants
<1>4. RowsInv'
  <2>1. \A c \in Bookings :
          /\ bookings'[c].status \in {None, "HELD", "CONFIRMED", "CANCELLED"}
          /\ bookings'[c].status = None => bookings'[c].key = NoKey
          /\ bookings'[c].status = "CONFIRMED" => bookings'[c].confirmedAt = TRUE
    BY <1>1, <1>2 DEF RowsInv, None
  <2>2. \A c, d \in Bookings :
          bookings'[c].key = bookings'[d].key /\ bookings'[c].key # NoKey => c = d
    BY <1>1, <1>2 DEF RowsInv
  <2>3. QED
    BY <2>1, <2>2 DEF RowsInv
<1>5. Ledger!TypeOK'
  <2>1. Ledger!BookedRow(q, k) \in Ledger!Row
    BY SameTables, TableFacts DEF Ledger!BookedRow, Ledger!Row
  <2>2. Ledger!BirthEvents \in Seq(Ledger!Event)
    BY SameTables, TableFacts DEF Ledger!BirthEvents, Ledger!Event, InitialStatus, BookingStatus
  <2>3. "CONSUMED" \in Ledger!QuoteStatus
    BY DEF Ledger!QuoteStatus
  <2>4. QED
    BY <2>1, <2>2, <2>3 DEF Ledger!TypeOK, Ledger!Book
<1>6. bookings[b].key = NoKey
  BY <1>1 DEF RowsInv
<1>7. Forward
  BY <1>1, <1>4, <1>5, <1>6 DEF Forward
<1>8. BookedUnder(k) = {} /\ BookedUnder(k)' = {b}
  BY <1>1, <1>2 DEF BookedUnder
<1>9. \A t \in Tokens \ {k} : SameBought(t)
  BY <1>1, <1>2, <1>6, GateConstants DEF SameBought, BookedUnder
<1>10. QED
  BY <1>2, <1>6, <1>7, <1>8, <1>9

\* A transition leaves key and quote, never takes a confirmation back, and
\* never leaves CANCELLED.
LEMMA TransitionEffect ==
  ASSUME Ledger!TypeOK, RowsInv, NEW b \in Bookings, NEW to \in {"CONFIRMED", "CANCELLED"},
         Ledger!Transition(b, to)
  PROVE  /\ Forward
         /\ \A t \in Tokens : SameBought(t)
         /\ to = "CONFIRMED" => bookings'[b].confirmedAt = TRUE
<1>1. /\ bookings'[b] = Ledger!Moved(bookings[b], to)
      /\ \A c \in Bookings \ {b} : bookings'[c] = bookings[c]
      /\ bookings[b].status # None /\ CanTransition(bookings[b].status, to)
  BY SameTables DEF Ledger!Transition, Ledger!TypeOK, Ledger!Exists
<1>2. /\ bookings'[b].key = bookings[b].key /\ bookings'[b].quote = bookings[b].quote
      /\ bookings'[b].status = to
      /\ to = "CONFIRMED" => bookings'[b].confirmedAt = TRUE
      /\ bookings[b].confirmedAt = TRUE => bookings'[b].confirmedAt = TRUE
  <2>1. CASE to = "CONFIRMED"
    BY <1>1, <2>1 DEF Ledger!Moved
  <2>2. CASE to = "CANCELLED"
    <3>1. bookings'[b].confirmedAt = bookings[b].confirmedAt
      BY <1>1, <2>2 DEF Ledger!Moved
    <3>2. QED
      BY <1>1, <2>2, <3>1 DEF Ledger!Moved
  <2>3. QED
    BY <2>1, <2>2
<1>3. bookings[b].status # "CANCELLED"
  BY <1>1, TableFacts
<1>4. RowsInv'
  <2>1. \A c \in Bookings :
          /\ bookings'[c].status \in {None, "HELD", "CONFIRMED", "CANCELLED"}
          /\ bookings'[c].status = None => bookings'[c].key = NoKey
          /\ bookings'[c].status = "CONFIRMED" => bookings'[c].confirmedAt = TRUE
    BY <1>1, <1>2 DEF RowsInv, None
  <2>2. \A c \in Bookings : bookings'[c].key = bookings[c].key
    BY <1>1, <1>2
  <2>3. \A c, d \in Bookings :
          bookings'[c].key = bookings'[d].key /\ bookings'[c].key # NoKey => c = d
    BY <2>2 DEF RowsInv
  <2>4. QED
    BY <2>1, <2>3 DEF RowsInv
<1>5. Ledger!TypeOK'
  <2>1. to \in Ledger!BookingStatus
    BY SameTables, TableFacts
  <2>2. Ledger!Moved(bookings[b], to) \in Ledger!Row
    BY <2>1 DEF Ledger!Moved, Ledger!Row, Ledger!TypeOK
  <2>3. [from |-> bookings[b].status, to |-> to] \in Ledger!Event
    BY <2>1 DEF Ledger!Event, Ledger!TypeOK, Ledger!Row
  <2>4. log' \in [Bookings -> Seq(Ledger!Event)]
    BY <2>3 DEF Ledger!TypeOK, Ledger!Transition
  <2>5. QED
    BY <2>2, <2>4 DEF Ledger!TypeOK, Ledger!Transition
<1>6. Forward
  BY <1>1, <1>2, <1>3, <1>4, <1>5 DEF Forward
<1>7. \A t \in Tokens : SameBought(t)
  BY <1>1, <1>2 DEF SameBought, BookedUnder
<1>8. QED
  BY <1>2, <1>6, <1>7

\* Creating or holding a quote touches no booking.
LEMMA QuoteEffect ==
  ASSUME Ledger!TypeOK, RowsInv, NEW q \in Quotes, Ledger!CreateQuote(q) \/ Ledger!HoldQuote(q)
  PROVE  Forward /\ \A t \in Tokens : SameBought(t)
<1>1. UNCHANGED <<bookings, log>>
  BY DEF Ledger!CreateQuote, Ledger!HoldQuote
<1>2. Ledger!TypeOK'
  BY <1>1 DEF Ledger!CreateQuote, Ledger!HoldQuote, Ledger!TypeOK, Ledger!QuoteStatus
<1>3. QED
  BY <1>1, <1>2 DEF Forward, RowsInv, SameBought, BookedUnder

-------------------------------------------------------------------------------

\* r is working through the execution of token t.
Executes(r, t) == redeem[r].token = t /\ redeem[r].pc \in Executing

\* r is about to send the create of t.
Creates(r, t) == redeem[r].token = t /\ redeem[r].pc = "create"

LateCreate(t) == [op |-> "create", token |-> t]

\* Nothing was bought under t, and no call without a caller can buy it ...
Unbought(t) == BookedUnder(t) = {} /\ LateCreate(t) \notin late

\* ... nor can a handler.
Unbuyable(t) == Unbought(t) /\ \A r \in Redeems : ~ Creates(r, t)

\* Before the claim there is nothing but the row.  After it one handler at
\* most executes, the create is in one place, and the row tells the truth.
TokenInv(t) ==
  /\ conf[t].status # None => conf[t].quote \in Quotes
  /\ conf[t].status # "consumed" =>
       conf[t].final = None /\ Unbought(t) /\ \A r \in Redeems : ~ Executes(r, t)
  /\ \A r, s \in Redeems : Executes(r, t) /\ Executes(s, t) => r = s
  /\ \A r \in Redeems : Creates(r, t) => Unbought(t)
  /\ LateCreate(t) \in late => BookedUnder(t) = {}
  /\ \A b \in BookedUnder(t) : bookings[b].quote = conf[t].quote
  /\ Truthful(t, conf[t].booking, conf[t].final)
  /\ conf[t].final = "QUOTE_UNAVAILABLE" => Unbuyable(t)

\* What a handler carries from step to step: the booking it made, the outcome
\* it is about to record or has answered.
HandlerInv(r) ==
  /\ redeem[r].pc \in Executing \cup {"expire"} => redeem[r].token \in Tokens
  /\ redeem[r].pc \in {"confirm", "read", "lastRead", "record"} =>
       redeem[r].booking \in BookedUnder(redeem[r].token)
  /\ redeem[r].pc = "record" => redeem[r].said \in {"CONFIRMED", "HELD", "CANCELLED", "UNKNOWN"}
  /\ redeem[r].pc = "recordFailure" =>
       redeem[r].said \in {"QUOTE_UNAVAILABLE", "EXECUTION_FAILED", "INTERNAL_ERROR"}
  /\ redeem[r].pc \in {"record", "answered"} =>
       Truthful(redeem[r].token, redeem[r].booking, redeem[r].said)
  /\ redeem[r].said \in FinalStatus => redeem[r].token \in Tokens
  /\ redeem[r].said = "QUOTE_UNAVAILABLE" =>
       /\ conf[redeem[r].token].status = "consumed" /\ Unbuyable(redeem[r].token)

\* The inductive invariant.
GateInv ==
  /\ TypeOK /\ RowsInv
  /\ \A t \in Tokens : TokenInv(t)
  /\ \A r \in Redeems : HandlerInv(r)

\* What is true of a booking stays true.
LEMMA TruthStays ==
  ASSUME Ledger!TypeOK, Forward, NEW t \in Tokens
  PROVE  /\ BookedUnder(t) \subseteq BookedUnder(t)'
         /\ \A b, said : Truthful(t, b, said) =>
              /\ said \in {"CONFIRMED", "HELD", "CANCELLED", "UNKNOWN"} => b \in BookedUnder(t)'
              /\ said = "CONFIRMED" => bookings'[b].confirmedAt
              /\ said = "CANCELLED" => bookings'[b].status = "CANCELLED"
<1>1. (\A b \in BookedUnder(t) : b \in Bookings /\ bookings[b].key = t) /\ t # NoKey
  BY GateConstants DEF BookedUnder
<1>2. BookedUnder(t) \subseteq BookedUnder(t)'
  BY <1>1 DEF Forward, BookedUnder
<1>3. QED
  BY <1>1, <1>2 DEF Forward, Truthful, Ledger!TypeOK, Ledger!Row

\* A step that leaves t alone: its row, its bookings and what may buy it.
Kept(t) ==
  /\ conf'[t] = conf[t]
  /\ SameBought(t)
  /\ LateCreate(t) \in late' => LateCreate(t) \in late
  /\ \A r \in Redeems : /\ Executes(r, t)' => Executes(r, t)
                        /\ Creates(r, t)' => Creates(r, t)

\* No step takes a claim back or makes an unbuyable token buyable.
Onward(t) ==
  /\ conf[t].status = "consumed" => conf'[t].status = "consumed"
  /\ conf[t].status = "consumed" /\ Unbuyable(t) => Unbuyable(t)'

LEMMA KeptIsOnward ==
  ASSUME NEW t \in Tokens, Kept(t)
  PROVE  Onward(t)
  BY DEF Kept, Onward, Unbuyable, Unbought, SameBought, LateCreate

LEMMA KeptKeepsToken ==
  ASSUME GateInv, Forward, NEW t \in Tokens, Kept(t)
  PROVE  TokenInv(t)'
<1>1. TokenInv(t) /\ Ledger!TypeOK
  BY DEF GateInv, TypeOK
<1>2. Unbought(t) => Unbought(t)'
  BY DEF Kept, Unbought, SameBought, LateCreate
<1>3. Unbuyable(t) => Unbuyable(t)'
  BY <1>2 DEF Kept, Unbuyable
<1>4. \A b \in BookedUnder(t)' : bookings'[b].quote = conf'[t].quote
  BY <1>1, GateConstants DEF Kept, SameBought, Forward, BookedUnder, TokenInv
<1>5. Truthful(t, conf[t].booking, conf[t].final)'
  BY <1>1, TruthStays DEF Kept, TokenInv, Truthful
<1>6. /\ conf'[t].status # None => conf'[t].quote \in Quotes
      /\ conf'[t].status # "consumed" =>
           conf'[t].final = None /\ Unbought(t)' /\ \A r \in Redeems : ~ Executes(r, t)'
  BY <1>1, <1>2 DEF Kept, TokenInv
<1>7. /\ \A r, s \in Redeems : Executes(r, t)' /\ Executes(s, t)' => r = s
      /\ \A r \in Redeems : Creates(r, t)' => Unbought(t)'
  BY <1>1, <1>2 DEF Kept, TokenInv
<1>8. LateCreate(t)' \in late' => BookedUnder(t)' = {}
  BY <1>1 DEF Kept, SameBought, TokenInv, LateCreate
<1>9. conf'[t].final = "QUOTE_UNAVAILABLE" => Unbuyable(t)'
  BY <1>1, <1>3 DEF Kept, TokenInv
<1>10. QED
  BY <1>4, <1>5, <1>6, <1>7, <1>8, <1>9 DEF TokenInv

\* A handler that stands still keeps its part while its token goes onward.
LEMMA StillHandler ==
  ASSUME GateInv, Forward, NEW r \in Redeems, redeem'[r] = redeem[r],
         \A t \in Tokens : Onward(t)
  PROVE  HandlerInv(r)'
<1>1. HandlerInv(r) /\ Ledger!TypeOK
  BY DEF GateInv, TypeOK
<1>2. Truthful(redeem[r].token, redeem[r].booking, redeem[r].said)
        => Truthful(redeem[r].token, redeem[r].booking, redeem[r].said)'
  <2>1. CASE redeem[r].said \in FinalStatus
    BY <1>1, <2>1, TruthStays DEF Truthful, HandlerInv
  <2>2. CASE redeem[r].said \notin FinalStatus
    BY <2>2 DEF Truthful, FinalStatus
  <2>3. QED
    BY <2>1, <2>2
<1>3. redeem[r].token \in Tokens /\ redeem[r].booking \in BookedUnder(redeem[r].token)
        => redeem'[r].booking \in BookedUnder(redeem[r].token)'
  BY <1>1, TruthStays
<1>4. redeem[r].token \in Tokens => Onward(redeem[r].token)
  OBVIOUS
<1>5. QED
  BY <1>1, <1>2, <1>3, <1>4 DEF HandlerInv, Onward, Executing, FinalStatus

\* A step is safe when the rest stands still and the tokens T and handlers R
\* that it touches keep their parts.
LEMMA Assemble ==
  ASSUME GateInv, TypeOK', Forward,
         NEW T \in SUBSET Tokens, NEW R \in SUBSET Redeems,
         \A t \in Tokens \ T : Kept(t),
         \A t \in T : TokenInv(t)' /\ Onward(t),
         \A r \in Redeems \ R : redeem'[r] = redeem[r],
         \A r \in R : HandlerInv(r)'
  PROVE  GateInv'
<1>1. \A t \in Tokens : TokenInv(t)' /\ Onward(t)
  BY KeptKeepsToken, KeptIsOnward
<1>2. \A r \in Redeems : HandlerInv(r)'
  BY <1>1, StillHandler
<1>3. QED
  BY <1>1, <1>2 DEF GateInv, Forward

\* What a handler that goes on looks like.
LEMMA GotoEffect ==
  ASSUME GateInv, NEW r \in Redeems,
         NEW pc \in Active \cup {"idle", "answered", "lost"},
         NEW b \in Bookings \cup {NoBooking}, NEW n \in 0 .. MaxConfirmAttempts,
         NEW said \in Answers \cup {None}, Goto(r, pc, b, n, said)
  PROVE  /\ redeem' \in [Redeems -> Handler]
         /\ redeem'[r].pc = pc /\ redeem'[r].token = redeem[r].token
         /\ redeem'[r].booking = b /\ redeem'[r].said = said
         /\ \A s \in Redeems \ {r} : redeem'[s] = redeem[s]
<1> DEFINE h == [pc |-> pc, token |-> redeem[r].token, at |-> redeem[r].at, booking |-> b,
                 attempt |-> n, said |-> said]
<1>1. /\ redeem' = [redeem EXCEPT ![r] = h]
      /\ redeem \in [Redeems -> Handler] /\ redeem[r] \in Handler
  BY DEF Goto, GateInv, TypeOK
<1>2. h \in Handler
  BY <1>1 DEF Handler
<1>3. QED
  BY <1>1, <1>2

\* A handler that moves without touching its row or buying anything.
LEMMA QuietStep ==
  ASSUME GateInv, Forward, \A t \in Tokens : SameBought(t), UNCHANGED <<conf, clock>>,
         late' \in SUBSET Call, \A t \in Tokens : LateCreate(t) \in late' => LateCreate(t) \in late,
         NEW r \in Redeems, redeem' \in [Redeems -> Handler],
         \A s \in Redeems \ {r} : redeem'[s] = redeem[s],
         redeem'[r].pc # "create",
         redeem'[r].pc \in Executing =>
           redeem[r].pc \in Executing /\ redeem'[r].token = redeem[r].token,
         HandlerInv(r)'
  PROVE  GateInv'
<1>1. TypeOK'
  BY DEF GateInv, TypeOK, Forward
<1>2. \A t \in Tokens : Kept(t)
  BY DEF Kept, Executes, Creates
<1>3. QED
  BY <1>1, <1>2, Assemble, {} \in SUBSET Tokens, {r} \in SUBSET Redeems

\* What an executing handler knows: it is alone, its token is consumed and its
\* row names the quote.
LEMMA ExecutorFacts ==
  ASSUME GateInv, NEW r \in Redeems, redeem[r].pc \in Executing
  PROVE  /\ redeem[r].token \in Tokens
         /\ conf[redeem[r].token].status = "consumed"
         /\ conf[redeem[r].token].quote \in Quotes
         /\ \A s \in Redeems : Executes(s, redeem[r].token) => s = r
         /\ redeem[r].pc = "create" => Unbought(redeem[r].token)
  BY DEF GateInv, HandlerInv, TokenInv, Executes, Creates, None

LEMMA HandlerTypes ==
  ASSUME GateInv
  PROVE  /\ redeem \in [Redeems -> Handler] /\ Ledger!TypeOK /\ RowsInv
         /\ conf \in [Tokens -> Confirmation] /\ late \in SUBSET Call
         /\ \A r \in Redeems : /\ redeem[r].token \in Tokens \cup {NoToken}
                               /\ redeem[r].booking \in Bookings \cup {NoBooking}
                               /\ redeem[r].attempt \in 0 .. MaxConfirmAttempts
                               /\ redeem[r].said \in Answers \cup {None}
         /\ \A t \in Tokens : /\ conf[t].booking \in Bookings \cup {NoBooking}
                              /\ conf[t].final \in FinalStatus \cup {None}
                              /\ conf[t].status \in {None, "pending", "consumed", "expired"}
  BY DEF GateInv, TypeOK, Handler, Confirmation

\* The steps that only move a handler.
LEMMA RedeemKeepsInv ==
  ASSUME GateInv, NEW r \in Redeems, NEW t \in Tokens \cup {NoToken}, Redeem(r, t)
  PROVE  GateInv'
<1> DEFINE h == [pc |-> "claim", token |-> t, at |-> clock, booking |-> NoBooking,
                 attempt |-> 0, said |-> None]
<1>1. /\ redeem' = [redeem EXCEPT ![r] = h] /\ UNCHANGED <<ledger, conf, clock, late>>
  BY DEF Redeem
<1>2. h \in Handler
  BY GateConstants DEF Handler, Active, GateInv, TypeOK, MaxConfirmAttempts
<1>3. /\ redeem' \in [Redeems -> Handler] /\ redeem'[r] = h
      /\ \A s \in Redeems \ {r} : redeem'[s] = redeem[s]
  BY <1>1, <1>2, HandlerTypes
<1>4. HandlerInv(r)'
  BY <1>3 DEF HandlerInv, Executing, None, FinalStatus
<1>5. QED
  BY <1>1, <1>3, <1>4, HandlerTypes, UnchangedLedger, QuietStep DEF Executing

LEMMA LoseClaimKeepsInv ==
  ASSUME GateInv, NEW r \in Redeems, LoseClaim(r)
  PROVE  GateInv'
<1>1. Goto(r, "find", NoBooking, 0, None) /\ UNCHANGED <<ledger, conf, clock, late>>
  BY DEF LoseClaim
<1>2. /\ redeem' \in [Redeems -> Handler] /\ redeem'[r].pc = "find" /\ redeem'[r].said = None
      /\ \A s \in Redeems \ {r} : redeem'[s] = redeem[s]
  BY <1>1, GotoEffect DEF Active, MaxConfirmAttempts
<1>3. HandlerInv(r)'
  BY <1>2 DEF HandlerInv, Executing, None, FinalStatus
<1>4. QED
  BY <1>1, <1>2, <1>3, HandlerTypes, UnchangedLedger, QuietStep DEF Executing

LEMMA FindKeepsInv ==
  ASSUME GateInv, NEW r \in Redeems, Find(r)
  PROVE  GateInv'
<1>0. PICK t \in Tokens \cup {NoToken} : t = redeem[r].token
  BY HandlerTypes
<1>1. redeem[r].pc = "find" /\ UNCHANGED <<ledger, conf, clock, late>>
  BY DEF Find
<1>2. Forward /\ \A u \in Tokens : SameBought(u)
  BY <1>1, HandlerTypes, UnchangedLedger
<1>3. ASSUME NEW b \in Bookings \cup {NoBooking}, NEW n \in 0 .. MaxConfirmAttempts,
             NEW said \in Answers \ FinalStatus, Goto(r, "answered", b, n, said)
      PROVE  GateInv'
  <2>1. /\ redeem' \in [Redeems -> Handler] /\ redeem'[r].pc = "answered"
        /\ redeem'[r].said = said
        /\ \A s \in Redeems \ {r} : redeem'[s] = redeem[s]
    BY <1>3, GotoEffect
  <2>2. HandlerInv(r)'
    BY <2>1 DEF HandlerInv, Executing, FinalStatus, Truthful
  <2>3. QED
    BY <1>1, <1>2, <2>1, <2>2, HandlerTypes, QuietStep DEF Executing
<1>4. CASE t = NoToken /\ Answer(r, "CONFIRMATION_NOT_FOUND")
  BY <1>3, <1>4, HandlerTypes DEF Answer, Answers, FinalStatus
<1>5. CASE t \in Tokens /\ conf[t].expiresAt > redeem[r].at /\ Answer(r, "CONFIRMATION_NOT_FOUND")
  BY <1>3, <1>5, HandlerTypes DEF Answer, Answers, FinalStatus
<1>6. CASE t \in Tokens /\ Goto(r, "expire", NoBooking, 0, None)
  <2>1. /\ redeem' \in [Redeems -> Handler] /\ redeem'[r].pc = "expire" /\ redeem'[r].said = None
        /\ redeem'[r].token = t
        /\ \A s \in Redeems \ {r} : redeem'[s] = redeem[s]
    BY <1>0, <1>6, GotoEffect DEF Active, MaxConfirmAttempts
  <2>2. HandlerInv(r)'
    BY <1>6, <2>1 DEF HandlerInv, Executing, None, FinalStatus
  <2>3. QED
    BY <1>1, <1>2, <2>1, <2>2, HandlerTypes, QuietStep DEF Executing
<1>7. CASE /\ t \in Tokens /\ conf[t].status = "consumed"
           /\ Goto(r, "answered", conf[t].booking, 0, Stored(conf[t]))
  <2>1. CASE conf[t].final = None
    <3>1. PICK b \in Bookings \cup {NoBooking} : b = conf[t].booking
      BY <1>7, HandlerTypes
    <3>2. Goto(r, "answered", b, 0, "in_progress")
      BY <1>7, <2>1, <3>1 DEF Goto, Stored
    <3>3. QED
      BY <1>3, <3>2 DEF Answers, FinalStatus, MaxConfirmAttempts
  <2>2. CASE conf[t].final # None
    <3>1. Stored(conf[t]) = conf[t].final /\ conf[t].final \in FinalStatus
      BY <1>7, <2>2, HandlerTypes DEF Stored
    <3>2. /\ redeem' \in [Redeems -> Handler] /\ redeem'[r].pc = "answered"
          /\ redeem'[r].said = conf[t].final /\ redeem'[r].token = t
          /\ redeem'[r].booking = conf[t].booking
          /\ \A s \in Redeems \ {r} : redeem'[s] = redeem[s]
      <4>1. /\ conf[t].booking \in Bookings \cup {NoBooking} /\ 0 \in 0 .. MaxConfirmAttempts
            /\ conf[t].final \in Answers
        BY <1>7, <3>1, HandlerTypes DEF Answers, MaxConfirmAttempts
      <4>2. Goto(r, "answered", conf[t].booking, 0, conf[t].final)
        BY <1>7, <3>1
      <4>3. QED
        BY <1>0, <4>1, <4>2, GotoEffect DEF Goto
    <3>3. TokenInv(t) /\ TokenInv(t)'
      <4>1. Kept(t)
        BY <1>0, <1>1, <1>2, <1>7, <3>2 DEF Kept, Executes, Creates, Executing
      <4>2. QED
        BY <1>2, <1>7, <4>1, KeptKeepsToken DEF GateInv
    <3>4. HandlerInv(r)'
      BY <1>0, <1>1, <1>7, <3>2, <3>3 DEF HandlerInv, TokenInv, Executing
    <3>5. QED
      BY <1>1, <1>2, <3>2, <3>4, HandlerTypes, QuietStep DEF Executing
  <2>3. QED
    BY <2>1, <2>2
<1>8. QED
  BY <1>0, <1>4, <1>5, <1>6, <1>7 DEF Find

\* An executing handler that goes on with a booking of its token, and says of
\* it only what is true.
LEMMA QuietExecution ==
  ASSUME GateInv, Forward, \A t \in Tokens : SameBought(t), UNCHANGED <<conf, clock>>,
         late' \in SUBSET Call, \A t \in Tokens : LateCreate(t) \in late' => LateCreate(t) \in late,
         NEW r \in Redeems, redeem[r].pc \in Executing,
         NEW t \in Tokens, t = redeem[r].token,
         NEW pc \in Executing \ {"create"}, NEW b \in Bookings \cup {NoBooking},
         NEW n \in 0 .. MaxConfirmAttempts, NEW said \in Answers \cup {None},
         Goto(r, pc, b, n, said),
         pc # "recordFailure" => b \in BookedUnder(t) /\ said # "QUOTE_UNAVAILABLE",
         pc = "record" => /\ said \in {"CONFIRMED", "HELD", "CANCELLED", "UNKNOWN"}
                          /\ said = "CONFIRMED" => bookings'[b].confirmedAt = TRUE
                          /\ said = "CANCELLED" => bookings'[b].status = "CANCELLED",
         pc = "recordFailure" =>
           said \in {"QUOTE_UNAVAILABLE", "EXECUTION_FAILED", "INTERNAL_ERROR"},
         said = "QUOTE_UNAVAILABLE" => Unbought(t)
  PROVE  GateInv'
<1>1. /\ redeem' \in [Redeems -> Handler] /\ redeem'[r].pc = pc /\ redeem'[r].token = t
      /\ redeem'[r].booking = b /\ redeem'[r].said = said
      /\ \A s \in Redeems \ {r} : redeem'[s] = redeem[s]
  BY GotoEffect DEF Active
<1>2. /\ conf[t].status = "consumed" /\ \A s \in Redeems : Executes(s, t) => s = r
  BY ExecutorFacts
<1>3. said = "QUOTE_UNAVAILABLE" => Unbuyable(t)'
  BY <1>1, <1>2 DEF Unbuyable, Unbought, SameBought, LateCreate, Creates, Executes, Executing
<1>4. pc # "recordFailure" => b \in BookedUnder(t)'
  BY DEF SameBought
<1>5. HandlerInv(r)'
  <2>1. pc = "record" => Truthful(redeem[r].token, redeem[r].booking, redeem[r].said)'
    BY <1>1, <1>4 DEF Truthful, BookedUnder
  <2>2. redeem[r].said' = "QUOTE_UNAVAILABLE" => Unbuyable(redeem[r].token)'
    BY <1>1, <1>3 DEF Unbuyable, Unbought, LateCreate, Creates
  <2>3. pc # "recordFailure" => redeem'[r].booking \in BookedUnder(redeem[r].token)'
    BY <1>1, <1>4 DEF BookedUnder
  <2>4. QED
    BY <1>1, <1>2, <2>1, <2>2, <2>3 DEF HandlerInv, Executing
<1>6. QED
  BY <1>1, <1>5, QuietStep

\* The place of an executing handler, by rigid names.
LEMMA Place ==
  ASSUME GateInv, NEW r \in Redeems, redeem[r].pc \in Executing
  PROVE  \E t \in Tokens, b \in Bookings \cup {NoBooking}, n \in 0 .. MaxConfirmAttempts :
           /\ t = redeem[r].token /\ b = redeem[r].booking /\ n = redeem[r].attempt
           /\ redeem[r].pc \in {"confirm", "read", "lastRead", "record"} => b \in BookedUnder(t)
<1>1. HandlerInv(r)
  BY DEF GateInv
<1>2. QED
  BY <1>1, HandlerTypes DEF HandlerInv

\* The steps that only read: refusals, reads and their failures.
LEMMA ReadingKeepsInv ==
  ASSUME GateInv, NEW r \in Redeems,
         CreateRefused(r) \/ ConfirmRefused(r) \/ Read(r) \/ LastRead(r) \/ ReadFails(r)
  PROVE  GateInv'
<1>1. /\ redeem[r].pc \in {"create", "confirm", "read", "lastRead"}
      /\ redeem[r].pc \in Executing /\ UNCHANGED <<ledger, conf, clock, late>>
  BY DEF CreateRefused, ConfirmRefused, Read, LastRead, ReadFails, Executing
<1>2. Forward /\ \A u \in Tokens : SameBought(u)
  BY <1>1, HandlerTypes, UnchangedLedger
<1>3. late' \in SUBSET Call /\ \A u \in Tokens : LateCreate(u) \in late' => LateCreate(u) \in late
  BY <1>1, HandlerTypes
<1>4. PICK t \in Tokens, b \in Bookings \cup {NoBooking}, n \in 0 .. MaxConfirmAttempts :
        /\ t = redeem[r].token /\ b = redeem[r].booking /\ n = redeem[r].attempt
        /\ redeem[r].pc \in {"confirm", "read", "lastRead", "record"} => b \in BookedUnder(t)
  BY <1>1, Place
<1>5. CASE CreateRefused(r)
  <2>1. PICK said \in {"EXECUTION_FAILED", "QUOTE_UNAVAILABLE"} :
          Goto(r, "recordFailure", NoBooking, 0, said)
    <3>1. CASE quotes[conf[redeem[r].token].quote] = None
      BY <1>5, <3>1 DEF CreateRefused, Goto
    <3>2. CASE quotes[conf[redeem[r].token].quote] # None
      BY <1>5, <3>2 DEF CreateRefused, Goto
    <3>3. QED
      BY <3>1, <3>2
  <2>2. Unbought(t)
    <3>1. Creates(r, t) /\ TokenInv(t)
      BY <1>4, <1>5 DEF CreateRefused, Creates, GateInv
    <3>2. QED
      BY <3>1 DEF TokenInv
  <2>3. /\ "recordFailure" \in Executing \ {"create"} /\ 0 \in 0 .. MaxConfirmAttempts
        /\ said \in Answers \cup {None} /\ NoBooking \in Bookings \cup {NoBooking}
    BY <2>1 DEF Executing, Answers, FinalStatus, MaxConfirmAttempts
  <2>4. QED
    BY <1>1, <1>2, <1>3, <1>4, <2>1, <2>2, <2>3, QuietExecution
<1>6. ASSUME b \in BookedUnder(t), NEW pc \in {"confirm", "read", "lastRead"},
             NEW m \in 0 .. MaxConfirmAttempts, Goto(r, pc, b, m, None)
      PROVE  GateInv'
  <2>1. pc \in Executing \ {"create"} /\ None \in Answers \cup {None} /\ None # "QUOTE_UNAVAILABLE"
    BY DEF Executing, None
  <2>2. QED
    BY <1>1, <1>2, <1>3, <1>4, <1>6, <2>1, QuietExecution
<1>7. ASSUME b \in BookedUnder(t), NEW said \in {"CONFIRMED", "HELD", "CANCELLED", "UNKNOWN"},
             said \in {"CONFIRMED", "CANCELLED"} => bookings[b].status = said,
             Goto(r, "record", b, n, said)
      PROVE  GateInv'
  <2>1. "record" \in Executing \ {"create"} /\ said \in Answers \cup {None}
    BY <1>7 DEF Executing, Answers, FinalStatus
  <2>2. UNCHANGED bookings
    BY <1>1 DEF ledger
  <2>3. said = "CONFIRMED" => bookings'[b].confirmedAt = TRUE
    BY <1>7, <2>2, HandlerTypes DEF RowsInv, BookedUnder
  <2>4. said = "CANCELLED" => bookings'[b].status = "CANCELLED"
    BY <1>7, <2>2
  <2>5. QED
    BY <1>1, <1>2, <1>3, <1>4, <1>7, <2>1, <2>3, <2>4, QuietExecution, ZenonT(30)
<1>8. CASE ConfirmRefused(r)
  <2>1. b \in BookedUnder(t) /\ Goto(r, "read", b, n, None)
    BY <1>4, <1>8 DEF ConfirmRefused, Goto
  <2>2. QED
    BY <1>6, <2>1
<1>9. b \in BookedUnder(t) => bookings[b].status \in {"HELD", "CONFIRMED", "CANCELLED"}
  BY HandlerTypes, GateConstants, ZenonT(30) DEF RowsInv, BookedUnder
<1>10. CASE Read(r)
  <2>1. b \in BookedUnder(t) /\ redeem[r].booking = b /\ redeem[r].attempt = n
    BY <1>4, <1>10 DEF Read
  <2>2. CASE bookings[b].status # "HELD"
    <3>1. PICK said \in {"CONFIRMED", "CANCELLED"} : bookings[b].status = said
      BY <1>9, <2>1, <2>2
    <3>2. Goto(r, "record", b, n, said)
      BY <1>10, <2>1, <2>2, <3>1 DEF Read, Goto
    <3>3. QED
      BY <1>7, <2>1, <3>1, <3>2
  <2>3. CASE bookings[b].status = "HELD" /\ n < MaxConfirmAttempts
    <3>1. Goto(r, "confirm", b, n + 1, None) /\ n + 1 \in 0 .. MaxConfirmAttempts
      BY <1>10, <2>1, <2>3 DEF Read, Goto, MaxConfirmAttempts
    <3>2. QED
      BY <1>6, <2>1, <3>1
  <2>4. CASE bookings[b].status = "HELD" /\ n = MaxConfirmAttempts
    <3>1. Goto(r, "lastRead", b, n, None)
      BY <1>10, <2>1, <2>4 DEF Read, Goto, MaxConfirmAttempts
    <3>2. QED
      BY <1>6, <2>1, <3>1
  <2>5. QED
    BY <1>10, <2>1, <2>2, <2>3, <2>4 DEF Read
<1>11. CASE LastRead(r)
  <2>1. b \in BookedUnder(t)
    BY <1>4, <1>11 DEF LastRead
  <2>2. PICK said \in {"HELD", "CONFIRMED", "CANCELLED"} : bookings[b].status = said
    BY <1>9, <2>1
  <2>3. Goto(r, "record", b, n, said)
    BY <1>4, <1>11, <2>2 DEF LastRead, Goto
  <2>4. QED
    BY <1>7, <2>1, <2>2, <2>3
<1>12. CASE ReadFails(r)
  <2>1. b \in BookedUnder(t)
    BY <1>4, <1>12 DEF ReadFails
  <2>2. PICK said \in {"UNKNOWN", "HELD"} : Goto(r, "record", b, n, said)
    <3>1. CASE redeem[r].pc = "read"
      BY <1>4, <1>12, <3>1 DEF ReadFails, Goto
    <3>2. CASE redeem[r].pc # "read"
      BY <1>4, <1>12, <3>2 DEF ReadFails, Goto
    <3>3. QED
      BY <3>1, <3>2
  <2>3. QED
    BY <1>7, <2>1, <2>2
<1>13. QED
  BY <1>5, <1>8, <1>10, <1>11, <1>12

\* The confirm call, answered or failing with or without effect, or later.
LEMMA ConfirmKeepsInv ==
  ASSUME GateInv, NEW r \in Redeems, Confirm(r) \/ ConfirmFails(r)
  PROVE  GateInv'
<1>1. redeem[r].pc = "confirm" /\ redeem[r].pc \in Executing /\ UNCHANGED <<conf, clock>>
  BY DEF Confirm, ConfirmFails, Executing
<1>2. PICK t \in Tokens, b \in Bookings \cup {NoBooking}, n \in 0 .. MaxConfirmAttempts :
        /\ t = redeem[r].token /\ b = redeem[r].booking /\ n = redeem[r].attempt
        /\ redeem[r].pc \in {"confirm", "read", "lastRead", "record"} => b \in BookedUnder(t)
  BY <1>1, Place
<1>3. b \in BookedUnder(t) /\ b \in Bookings
  BY <1>1, <1>2 DEF BookedUnder
<1>4. ASSUME Ledger!Transition(b, "CONFIRMED")
      PROVE  /\ Forward /\ \A u \in Tokens : SameBought(u)
             /\ bookings'[b].confirmedAt = TRUE
  BY <1>3, <1>4, HandlerTypes, TransitionEffect
<1>5. CASE Confirm(r)
  <2>1. /\ Ledger!Transition(b, "CONFIRMED") /\ Goto(r, "record", b, n, "CONFIRMED")
        /\ UNCHANGED late
    BY <1>2, <1>5 DEF Confirm, Ledger!Transition, Ledger!Exists, Goto
  <2>2. /\ "record" \in Executing \ {"create"} /\ "CONFIRMED" \in Answers \cup {None}
        /\ late' \in SUBSET Call
    BY <2>1, HandlerTypes DEF Executing, Answers, FinalStatus
  <2>3. QED
    BY <1>1, <1>2, <1>3, <1>4, <2>1, <2>2, QuietExecution
<1>6. CASE ConfirmFails(r)
  <2>1. Goto(r, "read", b, n, None)
    BY <1>2, <1>6 DEF ConfirmFails, Goto
  <2>2. "read" \in Executing \ {"create"} /\ None \in Answers \cup {None} /\ None # "QUOTE_UNAVAILABLE"
    BY DEF Executing, None
  <2>3. /\ Forward /\ \A u \in Tokens : SameBought(u)
        /\ late' \in SUBSET Call
        /\ \A u \in Tokens : LateCreate(u) \in late' => LateCreate(u) \in late
    <3>1. CASE Ledger!Transition(redeem[r].booking, "CONFIRMED") /\ UNCHANGED late
      <4>1. Ledger!Transition(b, "CONFIRMED")
        BY <1>2, <3>1 DEF Ledger!Transition, Ledger!Exists
      <4>2. QED
        BY <1>4, <3>1, <4>1, HandlerTypes
    <3>2. CASE /\ late' = late \cup {[op |-> "confirm", booking |-> redeem[r].booking]}
               /\ UNCHANGED ledger
      <4>1. [op |-> "confirm", booking |-> b] \in Call
        BY <1>3 DEF Call
      <4>2. \A u \in Tokens : LateCreate(u) # [op |-> "confirm", booking |-> b]
        <5> SUFFICES ASSUME NEW u \in Tokens, LateCreate(u) = [op |-> "confirm", booking |-> b]
                     PROVE  FALSE
          OBVIOUS
        <5>1. LateCreate(u).op = "create" /\ [op |-> "confirm", booking |-> b].op = "confirm"
          BY DEF LateCreate
        <5>2. QED
          BY <5>1
      <4>3. QED
        BY <1>2, <3>2, <4>1, <4>2, HandlerTypes, UnchangedLedger
    <3>3. QED
      BY <1>6, <3>1, <3>2 DEF ConfirmFails
  <2>4. QED
    BY <1>1, <1>2, <1>3, <2>1, <2>2, <2>3, QuietExecution
<1>7. QED
  BY <1>5, <1>6

-------------------------------------------------------------------------------
(* The steps that touch a row of the table, or buy.                         *)

\* One handler moves at its token, whose row may change; the ledger stands.
LEMMA RowStep ==
  ASSUME GateInv, UNCHANGED <<ledger, clock, late>>,
         NEW t \in Tokens, NEW row \in Confirmation, conf' = [conf EXCEPT ![t] = row],
         NEW r \in Redeems, redeem[r].token = t, redeem' \in [Redeems -> Handler],
         redeem'[r].token = t, \A s \in Redeems \ {r} : redeem'[s] = redeem[s],
         redeem'[r].pc = "create" => conf[t].status = "pending",
         conf[t].status = "consumed" => row.status = "consumed",
         TokenInv(t)', HandlerInv(r)'
  PROVE  GateInv'
<1>1. TypeOK'
  BY HandlerTypes DEF GateInv, TypeOK, ledger, Ledger!TypeOK
<1>2. Forward /\ \A u \in Tokens : SameBought(u)
  BY HandlerTypes, UnchangedLedger
<1>3. conf'[t] = row /\ \A u \in Tokens \ {t} : conf'[u] = conf[u]
  BY HandlerTypes
<1>4. \A u \in Tokens \ {t} : Kept(u)
  BY <1>2, <1>3 DEF Kept, Executes, Creates
<1>5. Onward(t)
  <2>1. ASSUME conf[t].status = "consumed", Unbuyable(t) PROVE Unbuyable(t)'
    <3>1. Unbought(t)'
      BY <1>2, <2>1 DEF Unbuyable, Unbought, SameBought, LateCreate
    <3>2. \A s \in Redeems : Creates(s, t)' => Creates(s, t)
      BY <2>1 DEF Creates
    <3>3. QED
      BY <2>1, <3>1, <3>2 DEF Unbuyable
  <2>2. QED
    BY <1>3, <2>1 DEF Onward
<1>6. QED
  BY <1>1, <1>2, <1>4, <1>5, Assemble, {t} \in SUBSET Tokens, {r} \in SUBSET Redeems

LEMMA ProposeKeepsInv ==
  ASSUME GateInv, NEW t \in Tokens, NEW q \in Quotes, Propose(t, q)
  PROVE  GateInv'
<1> DEFINE row == [status |-> "pending", quote |-> q, expiresAt |-> clock + TTL,
                   booking |-> NoBooking, final |-> None]
<1>1. /\ conf[t].status = None /\ conf' = [conf EXCEPT ![t] = row]
      /\ UNCHANGED <<ledger, clock, redeem, late>>
  BY DEF Propose
<1>2. row \in Confirmation
  BY GateConstants DEF Confirmation, GateInv, TypeOK
<1>3. conf'[t] = row /\ \A u \in Tokens \ {t} : conf'[u] = conf[u]
  BY <1>1, HandlerTypes
<1>4. TypeOK'
  BY <1>1, <1>2, HandlerTypes DEF GateInv, TypeOK, ledger, Ledger!TypeOK
<1>5. Forward /\ \A u \in Tokens : SameBought(u)
  BY <1>1, HandlerTypes, UnchangedLedger
<1>6. TokenInv(t)'
  <2>1. TokenInv(t) /\ Unbought(t) /\ \A r \in Redeems : ~ Executes(r, t)
    BY <1>1 DEF GateInv, TokenInv, None
  <2>2. /\ Unbought(t)' /\ BookedUnder(t)' = {}
        /\ \A r \in Redeems : ~ Executes(r, t)' /\ ~ Creates(r, t)'
    BY <1>1, <1>5, <2>1 DEF Unbought, SameBought, LateCreate, Executes, Creates, Executing
  <2>3. QED
    BY <1>3, <2>2 DEF TokenInv, Truthful, None
<1>7. \A u \in Tokens \ {t} : Kept(u)
  BY <1>1, <1>3, <1>5 DEF Kept, Executes, Creates
<1>8. Onward(t)
  BY <1>1 DEF Onward, None
<1>9. QED
  BY <1>1, <1>4, <1>5, <1>6, <1>7, <1>8, Assemble, {t} \in SUBSET Tokens, {} \in SUBSET Redeems

\* A pending row is claimed or expires.
LEMMA LeavePending ==
  ASSUME GateInv, UNCHANGED <<ledger, clock, late>>,
         NEW t \in Tokens, conf[t].status = "pending", NEW status \in {"consumed", "expired"},
         conf' = [conf EXCEPT ![t] = [conf[t] EXCEPT !.status = status]],
         NEW r \in Redeems, redeem[r].token = t, redeem' \in [Redeems -> Handler],
         redeem'[r].token = t, \A s \in Redeems \ {r} : redeem'[s] = redeem[s],
         status = "expired" => redeem'[r].pc \notin Executing,
         HandlerInv(r)'
  PROVE  GateInv'
<1> DEFINE row == [conf[t] EXCEPT !.status = status]
<1>1. /\ row \in Confirmation /\ row.status = status /\ row.quote = conf[t].quote
      /\ row.booking = conf[t].booking /\ row.final = conf[t].final
  BY HandlerTypes DEF Confirmation
<1>2. conf'[t] = row
  BY HandlerTypes
<1>3. TokenInv(t)'
  <2>1. /\ TokenInv(t) /\ Unbought(t) /\ conf[t].final = None /\ conf[t].quote \in Quotes
        /\ \A s \in Redeems : ~ Executes(s, t)
    BY DEF GateInv, TokenInv, None
  <2>2. Unbought(t)' /\ BookedUnder(t)' = {}
    BY <2>1, HandlerTypes, UnchangedLedger DEF Unbought, SameBought, LateCreate
  <2>3. \A s \in Redeems : Executes(s, t)' => s = r
    BY <2>1 DEF Executes
  <2>4. status = "expired" => \A s \in Redeems : ~ Executes(s, t)'
    BY <2>3 DEF Executes
  <2>5. QED
    BY <1>1, <1>2, <2>1, <2>2, <2>3, <2>4 DEF TokenInv, Truthful, None
<1>4. QED
  BY <1>1, <1>3, RowStep

LEMMA ClaimKeepsInv ==
  ASSUME GateInv, NEW r \in Redeems, Claim(r)
  PROVE  GateInv'
<1>1. PICK t \in Tokens : t = redeem[r].token
  BY DEF Claim, Claimable
<1>2. /\ conf[t].status = "pending" /\ UNCHANGED <<ledger, clock, late>>
      /\ conf' = [conf EXCEPT ![t] = [conf[t] EXCEPT !.status = "consumed"]]
      /\ Goto(r, "create", NoBooking, 0, None)
  BY <1>1 DEF Claim, Claimable, Consumed
<1>3. /\ redeem' \in [Redeems -> Handler] /\ redeem'[r].pc = "create" /\ redeem'[r].token = t
      /\ redeem'[r].said = None /\ \A s \in Redeems \ {r} : redeem'[s] = redeem[s]
  BY <1>1, <1>2, GotoEffect DEF Active, Executing, MaxConfirmAttempts
<1>4. HandlerInv(r)'
  BY <1>3 DEF HandlerInv, Executing, FinalStatus, None
<1>5. QED
  BY <1>1, <1>2, <1>3, <1>4, LeavePending

\* A handler that is not executing answers an error.
LEMMA ErrorAnswer ==
  ASSUME GateInv, NEW r \in Redeems, NEW said \in Answers \ FinalStatus, Answer(r, said)
  PROVE  /\ redeem' \in [Redeems -> Handler] /\ redeem'[r].pc = "answered"
         /\ redeem'[r].token = redeem[r].token /\ redeem'[r].said = said
         /\ \A s \in Redeems \ {r} : redeem'[s] = redeem[s]
         /\ HandlerInv(r)'
<1>1. PICK b \in Bookings \cup {NoBooking}, n \in 0 .. MaxConfirmAttempts :
        b = redeem[r].booking /\ n = redeem[r].attempt
  BY HandlerTypes
<1>2. Goto(r, "answered", b, n, said)
  BY <1>1 DEF Answer, Goto
<1>3. /\ redeem' \in [Redeems -> Handler] /\ redeem'[r].pc = "answered"
      /\ redeem'[r].token = redeem[r].token /\ redeem'[r].said = said
      /\ \A s \in Redeems \ {r} : redeem'[s] = redeem[s]
  BY <1>2, GotoEffect
<1>4. HandlerInv(r)'
  BY <1>3 DEF HandlerInv, Executing, FinalStatus, Truthful
<1>5. QED
  BY <1>3, <1>4

\* A statement besides the execution: it changes a pending row or none.
LEMMA SideStatement ==
  ASSUME GateInv, NEW r \in Redeems, NEW t \in Tokens, t = redeem[r].token,
         NEW said \in Answers \ FinalStatus, Answer(r, said), UNCHANGED <<ledger, clock, late>>,
         \/ UNCHANGED conf
         \/ /\ conf[t].status = "pending"
            /\ \E status \in {"consumed", "expired"} :
                 conf' = [conf EXCEPT ![t] = [conf[t] EXCEPT !.status = status]]
  PROVE  GateInv'
<1>1. CASE UNCHANGED conf
  BY <1>1, ErrorAnswer, HandlerTypes, UnchangedLedger, QuietStep DEF Executing
<1>2. CASE /\ conf[t].status = "pending"
           /\ \E status \in {"consumed", "expired"} :
                conf' = [conf EXCEPT ![t] = [conf[t] EXCEPT !.status = status]]
  BY <1>2, ErrorAnswer, LeavePending DEF Executing
<1>3. QED
  BY <1>1, <1>2

LEMMA ExpiryKeepsInv ==
  ASSUME GateInv, NEW r \in Redeems, MarkExpired(r) \/ StoreFails(r)
  PROVE  GateInv'
<1>1. /\ {"CONFIRMATION_EXPIRED", "INTERNAL_ERROR"} \subseteq Answers \ FinalStatus
      /\ UNCHANGED <<ledger, clock, late>>
  BY DEF Answers, FinalStatus, MarkExpired, StoreFails
<1>2. ASSUME NEW t \in Tokens
      PROVE  \/ Expired(conf[t]) = conf[t]
             \/ conf[t].status = "pending" /\ Expired(conf[t]) = [conf[t] EXCEPT !.status = "expired"]
  BY DEF Expired
<1>3. \A t \in Tokens : conf = [conf EXCEPT ![t] = conf[t]]
  BY HandlerTypes
<1>4. CASE MarkExpired(r)
  <2>1. PICK t \in Tokens : t = redeem[r].token
    BY <1>4 DEF MarkExpired, GateInv, HandlerInv
  <2>2. conf' = [conf EXCEPT ![t] = Expired(conf[t])] /\ Answer(r, "CONFIRMATION_EXPIRED")
    BY <1>4, <2>1 DEF MarkExpired
  <2>3. QED
    BY <1>1, <1>2, <1>3, <2>1, <2>2, SideStatement
<1>5. CASE StoreFails(r)
  <2>1. Answer(r, "INTERNAL_ERROR")
    BY <1>5 DEF StoreFails
  <2>2. CASE UNCHANGED conf /\ redeem[r].token \in Tokens
    BY <1>1, <2>1, <2>2, SideStatement
  <2>3. CASE UNCHANGED conf /\ redeem[r].token \notin Tokens
    BY <1>1, <2>1, <2>3, ErrorAnswer, HandlerTypes, UnchangedLedger, QuietStep DEF Executing
  <2>4. CASE redeem[r].pc = "claim" /\ ~ UNCHANGED conf
    <3>1. PICK t \in Tokens : t = redeem[r].token
      BY <1>5, <2>4 DEF StoreFails, Claimable
    <3>2. /\ conf[t].status = "pending"
          /\ conf' = [conf EXCEPT ![t] = [conf[t] EXCEPT !.status = "consumed"]]
      BY <1>5, <2>4, <3>1 DEF StoreFails, Claimable, StoredOrNot, Consumed
    <3>3. QED
      BY <1>1, <2>1, <3>1, <3>2, SideStatement
  <2>5. CASE redeem[r].pc = "expire" /\ ~ UNCHANGED conf
    <3>1. PICK t \in Tokens : t = redeem[r].token
      BY <2>5 DEF GateInv, HandlerInv
    <3>2. conf' = [conf EXCEPT ![t] = Expired(conf[t])]
      BY <1>5, <2>5, <3>1 DEF StoreFails, StoredOrNot
    <3>3. QED
      BY <1>1, <1>2, <1>3, <2>1, <3>1, <3>2, SideStatement
  <2>6. QED
    BY <1>5, <2>2, <2>3, <2>4, <2>5 DEF StoreFails
<1>6. QED
  BY <1>4, <1>5

\* The executor writes an outcome that is true, or nothing, and stops executing
\* or turns to the catch.
LEMMA RecordStep ==
  ASSUME GateInv, UNCHANGED <<ledger, clock, late>>,
         NEW r \in Redeems, NEW t \in Tokens, t = redeem[r].token,
         redeem[r].pc \in {"record", "recordFailure"},
         NEW b \in Bookings \cup {NoBooking}, NEW final \in FinalStatus,
         Truthful(t, b, final), final = "QUOTE_UNAVAILABLE" => Unbuyable(t),
         UNCHANGED conf \/ conf' = [conf EXCEPT ![t] = Recorded(t, b, final)],
         redeem' \in [Redeems -> Handler], redeem'[r].token = t,
         redeem'[r].pc \in {"answered", "recordFailure"},
         \A s \in Redeems \ {r} : redeem'[s] = redeem[s],
         HandlerInv(r)'
  PROVE  GateInv'
<1>1. /\ conf[t].status = "consumed" /\ conf[t].quote \in Quotes
      /\ \A s \in Redeems : Executes(s, t) => s = r
  BY ExecutorFacts DEF Executing
<1>2. TokenInv(t) /\ Executes(r, t)
  BY DEF GateInv, Executes, Executing
<1>3. /\ Recorded(t, b, final) \in Confirmation
      /\ Recorded(t, b, final).status = conf[t].status
      /\ Recorded(t, b, final).quote = conf[t].quote
      /\ Recorded(t, b, final).booking = b /\ Recorded(t, b, final).final = final
  BY HandlerTypes, ZenonT(30) DEF Recorded, Confirmation
<1>4. PICK row \in Confirmation :
        /\ conf' = [conf EXCEPT ![t] = row]
        /\ row.status = "consumed" /\ row.quote = conf[t].quote
        /\ Truthful(t, row.booking, row.final)
        /\ row.final = "QUOTE_UNAVAILABLE" => Unbuyable(t)
  <2>1. CASE UNCHANGED conf
    <3>1. conf' = [conf EXCEPT ![t] = conf[t]] /\ conf[t] \in Confirmation
      BY <2>1, HandlerTypes
    <3>2. Truthful(t, conf[t].booking, conf[t].final)
          /\ (conf[t].final = "QUOTE_UNAVAILABLE" => Unbuyable(t))
      BY <1>2 DEF TokenInv
    <3>3. QED
      BY <1>1, <3>1, <3>2 DEF Truthful
  <2>2. CASE conf' = [conf EXCEPT ![t] = Recorded(t, b, final)]
    BY <1>1, <1>3, <2>2 DEF Truthful
  <2>3. QED
    BY <2>1, <2>2
<1>5. conf'[t] = row
  BY <1>4, HandlerTypes
<1>6. /\ \A s \in Redeems : Executes(s, t)' => Executes(s, t)
      /\ \A s \in Redeems : Creates(s, t)' => Creates(s, t)
  BY <1>2 DEF Executes, Creates
<1>7. SameBought(t) /\ (Unbought(t) => Unbought(t)') /\ (Unbuyable(t) => Unbuyable(t)')
  <2>1. SameBought(t)
    BY HandlerTypes, UnchangedLedger
  <2>2. Unbought(t) => Unbought(t)'
    BY <2>1 DEF SameBought, Unbought, LateCreate
  <2>3. QED
    BY <1>6, <2>1, <2>2 DEF Unbuyable
<1>8. TokenInv(t)'
  <2>1. UNCHANGED bookings
    BY DEF ledger
  <2>2. Truthful(t, conf[t].booking, conf[t].final)'
    BY <1>4, <1>5, <2>1 DEF Truthful, BookedUnder
  <2>3. \A c \in BookedUnder(t)' : bookings'[c].quote = conf'[t].quote
    BY <1>2, <1>4, <1>5, <1>7, <2>1 DEF TokenInv, SameBought
  <2>4. LateCreate(t)' \in late' => BookedUnder(t)' = {}
    BY <1>2, <1>7 DEF TokenInv, SameBought, LateCreate
  <2>5. conf'[t].status = "consumed" /\ conf'[t].quote \in Quotes
    BY <1>1, <1>4, <1>5
  <2>6. /\ \A s, u \in Redeems : Executes(s, t)' /\ Executes(u, t)' => s = u
        /\ \A s \in Redeems : Creates(s, t)' => Unbought(t)'
    BY <1>2, <1>6, <1>7 DEF TokenInv
  <2>7. conf'[t].final = "QUOTE_UNAVAILABLE" => Unbuyable(t)'
    BY <1>4, <1>5, <1>7
  <2>8. QED
    BY <2>2, <2>3, <2>4, <2>5, <2>6, <2>7 DEF TokenInv
<1>9. QED
  BY <1>4, <1>8, RowStep

\* An executor that records has an outcome to record.
LEMMA RecorderFacts ==
  ASSUME GateInv, NEW r \in Redeems, redeem[r].pc \in {"record", "recordFailure"}
  PROVE  \E t \in Tokens, b \in Bookings \cup {NoBooking}, n \in 0 .. MaxConfirmAttempts,
            said \in {"CONFIRMED", "HELD", "CANCELLED", "UNKNOWN", "QUOTE_UNAVAILABLE",
                      "EXECUTION_FAILED", "INTERNAL_ERROR"} :
           /\ t = redeem[r].token /\ b = redeem[r].booking /\ n = redeem[r].attempt
           /\ said = redeem[r].said
           /\ redeem[r].pc = "record" =>
                Truthful(t, b, said) /\ said \in {"CONFIRMED", "HELD", "CANCELLED", "UNKNOWN"}
           /\ redeem[r].pc = "recordFailure" =>
                said \in {"QUOTE_UNAVAILABLE", "EXECUTION_FAILED", "INTERNAL_ERROR"}
           /\ said = "QUOTE_UNAVAILABLE" => Unbuyable(t)
<1>1. PICK t \in Tokens, b \in Bookings \cup {NoBooking}, n \in 0 .. MaxConfirmAttempts :
        t = redeem[r].token /\ b = redeem[r].booking /\ n = redeem[r].attempt
  BY Place DEF Executing
<1>2. HandlerInv(r)
  BY DEF GateInv
<1>3. PICK said \in {"CONFIRMED", "HELD", "CANCELLED", "UNKNOWN", "QUOTE_UNAVAILABLE",
                     "EXECUTION_FAILED", "INTERNAL_ERROR"} : said = redeem[r].said
  BY <1>2 DEF HandlerInv
<1>4. said = "QUOTE_UNAVAILABLE" => Unbuyable(t)
  BY <1>1, <1>2, <1>3 DEF HandlerInv, Unbuyable, Unbought, LateCreate, Creates, BookedUnder
<1>5. redeem[r].pc = "record" => Truthful(t, b, said)
  BY <1>1, <1>2, <1>3 DEF HandlerInv, Truthful, BookedUnder
<1>6. QED
  BY <1>1, <1>2, <1>3, <1>4, <1>5 DEF HandlerInv

LEMMA RecordKeepsInv ==
  ASSUME GateInv, NEW r \in Redeems, Record(r) \/ RecordFails(r)
  PROVE  GateInv'
<1>1. redeem[r].pc = "record" /\ UNCHANGED <<ledger, clock, late>>
  BY DEF Record, RecordFails
<1>2. PICK t \in Tokens, b \in Bookings \cup {NoBooking}, n \in 0 .. MaxConfirmAttempts,
           said \in {"CONFIRMED", "HELD", "CANCELLED", "UNKNOWN"} :
        /\ t = redeem[r].token /\ b = redeem[r].booking /\ n = redeem[r].attempt
        /\ said = redeem[r].said /\ Truthful(t, b, said)
  BY <1>1, RecorderFacts
<1>3. said \in FinalStatus /\ said \in Answers /\ said # "QUOTE_UNAVAILABLE"
  BY DEF FinalStatus, Answers
<1>4. UNCHANGED conf \/ conf' = [conf EXCEPT ![t] = Recorded(t, b, said)]
  BY <1>2 DEF Record, RecordFails, StoredOrNot, Recorded
<1>5. CASE Record(r)
  <2>1. Goto(r, "answered", b, n, said)
    BY <1>2, <1>5 DEF Record, Answer, Goto
  <2>2. /\ redeem' \in [Redeems -> Handler] /\ redeem'[r].pc = "answered"
        /\ redeem'[r].token = t /\ redeem'[r].booking = b /\ redeem'[r].said = said
        /\ \A s \in Redeems \ {r} : redeem'[s] = redeem[s]
    <3>1. /\ redeem' \in [Redeems -> Handler] /\ redeem'[r].pc = "answered"
          /\ redeem'[r].token = redeem[r].token /\ redeem'[r].booking = b
          /\ redeem'[r].said = said /\ \A s \in Redeems \ {r} : redeem'[s] = redeem[s]
      BY <1>3, <2>1, GotoEffect, ZenonT(30)
    <3>2. QED
      BY <1>2, <3>1
  <2>3. HandlerInv(r)'
    <3>1. UNCHANGED bookings
      BY <1>1 DEF ledger
    <3>2. Truthful(redeem[r].token, redeem[r].booking, redeem[r].said)'
      BY <1>2, <2>2, <3>1 DEF Truthful, BookedUnder
    <3>3. QED
      BY <1>3, <2>2, <3>2 DEF HandlerInv, Executing
  <2>4. QED
    BY <1>1, <1>2, <1>3, <1>4, <2>2, <2>3, RecordStep
<1>6. CASE RecordFails(r)
  <2>1. Goto(r, "recordFailure", b, n, "INTERNAL_ERROR")
    BY <1>2, <1>6 DEF RecordFails, Goto
  <2>2. "recordFailure" \in Active /\ "INTERNAL_ERROR" \in Answers \ FinalStatus
    BY DEF Active, Executing, Answers, FinalStatus
  <2>3. /\ redeem' \in [Redeems -> Handler] /\ redeem'[r].pc = "recordFailure"
        /\ redeem'[r].token = t /\ redeem'[r].said = "INTERNAL_ERROR"
        /\ \A s \in Redeems \ {r} : redeem'[s] = redeem[s]
    BY <1>2, <2>1, <2>2, GotoEffect
  <2>4. HandlerInv(r)'
    BY <2>2, <2>3 DEF HandlerInv, Executing
  <2>5. QED
    BY <1>1, <1>2, <1>3, <1>4, <2>3, <2>4, RecordStep
<1>7. QED
  BY <1>5, <1>6

LEMMA RecordFailureKeepsInv ==
  ASSUME GateInv, NEW r \in Redeems, RecordFailure(r) \/ RecordFailureFails(r)
  PROVE  GateInv'
<1>1. redeem[r].pc = "recordFailure" /\ UNCHANGED <<ledger, clock, late>>
  BY DEF RecordFailure, RecordFailureFails
<1>2. PICK t \in Tokens, b \in Bookings \cup {NoBooking}, n \in 0 .. MaxConfirmAttempts,
           said \in {"QUOTE_UNAVAILABLE", "EXECUTION_FAILED", "INTERNAL_ERROR"} :
        /\ t = redeem[r].token /\ b = redeem[r].booking /\ n = redeem[r].attempt
        /\ said = redeem[r].said
        /\ said = "QUOTE_UNAVAILABLE" => Unbuyable(t)
  BY <1>1, RecorderFacts
<1>3. PICK final \in {"QUOTE_UNAVAILABLE", "EXECUTION_FAILED"} : final = FailureStatus(said)
  BY DEF FailureStatus
<1>4. /\ final \in FinalStatus /\ said \in Answers /\ Truthful(t, NoBooking, final)
      /\ final = "QUOTE_UNAVAILABLE" => Unbuyable(t)
  BY <1>2, <1>3 DEF FinalStatus, Answers, Truthful, FailureStatus
<1>5. UNCHANGED conf \/ conf' = [conf EXCEPT ![t] = Recorded(t, NoBooking, final)]
  BY <1>2, <1>3 DEF RecordFailure, RecordFailureFails, StoredOrNot, Recorded
<1>6. PICK answer \in {said, "INTERNAL_ERROR"} : Goto(r, "answered", b, n, answer)
  <2>1. CASE RecordFailure(r)
    <3>1. Goto(r, "answered", b, n, said)
      BY <1>2, <2>1 DEF RecordFailure, Answer, Goto
    <3>2. QED
      BY <3>1
  <2>2. CASE RecordFailureFails(r)
    <3>1. Goto(r, "answered", b, n, "INTERNAL_ERROR")
      BY <1>2, <2>2 DEF RecordFailureFails, Answer, Goto
    <3>2. QED
      BY <3>1
  <2>3. QED
    BY <2>1, <2>2
<1>7. answer \in Answers /\ answer \in {"QUOTE_UNAVAILABLE", "EXECUTION_FAILED", "INTERNAL_ERROR"}
  BY <1>6 DEF Answers, FinalStatus
<1>8. /\ redeem' \in [Redeems -> Handler] /\ redeem'[r].pc = "answered"
      /\ redeem'[r].token = t /\ redeem'[r].booking = b /\ redeem'[r].said = answer
      /\ \A s \in Redeems \ {r} : redeem'[s] = redeem[s]
  <2>1. /\ "answered" \in Active \cup {"idle", "answered", "lost"}
        /\ answer \in Answers \cup {None}
    BY <1>7
  <2>2. /\ redeem' \in [Redeems -> Handler] /\ redeem'[r].pc = "answered"
        /\ redeem'[r].token = redeem[r].token
        /\ redeem'[r].booking = b /\ redeem'[r].said = answer
        /\ \A s \in Redeems \ {r} : redeem'[s] = redeem[s]
    BY <1>6, <2>1, GotoEffect
  <2>3. QED
    BY <1>2, <2>2
<1>9. HandlerInv(r)'
  <2>1. answer = "QUOTE_UNAVAILABLE" => Unbuyable(t)
    BY <1>2, <1>6
  <2>2. answer = "QUOTE_UNAVAILABLE" => Unbuyable(redeem[r].token)'
    <3>1. \A s \in Redeems : Creates(s, t)' => Creates(s, t)
      BY <1>8 DEF Creates
    <3>2. SameBought(t)
      BY <1>1, HandlerTypes, UnchangedLedger
    <3>3. QED
      BY <1>1, <1>8, <2>1, <3>1, <3>2
         DEF Unbuyable, Unbought, SameBought, LateCreate, Creates, BookedUnder
  <2>3. conf'[t].status = "consumed"
    <3>1. conf[t].status = "consumed"
      BY <1>1, <1>2, ExecutorFacts DEF Executing
    <3>2. Recorded(t, NoBooking, final).status = conf[t].status
      BY HandlerTypes DEF Recorded, Confirmation
    <3>3. QED
      BY <1>5, <3>1, <3>2, HandlerTypes
  <2>4. QED
    BY <1>7, <1>8, <2>2, <2>3 DEF HandlerInv, Truthful, Executing
<1>10. QED
  BY <1>1, <1>2, <1>4, <1>5, <1>8, <1>9, RecordStep

-------------------------------------------------------------------------------
(* The create, its late landing and the crash.                              *)

\* The create of t is served while it is in one place, and leaves that place.
LEMMA Purchase ==
  ASSUME GateInv, UNCHANGED conf,
         NEW t \in Tokens, conf[t].status = "consumed", Unbought(t) \/ LateCreate(t) \in late,
         NEW b \in Bookings, NEW q \in Quotes, q = conf[t].quote, Ledger!Book(b, q, t),
         \/ \E r \in Redeems : Creates(r, t)
         \/ LateCreate(t) \in late,
         LateCreate(t) \notin late',
         \A r \in Redeems : ~ Creates(r, t)' /\ (Executes(r, t)' => Executes(r, t))
  PROVE  /\ Forward /\ \A u \in Tokens \ {t} : SameBought(u)
         /\ b \in BookedUnder(t)' /\ TokenInv(t)' /\ Onward(t)
<1>1. /\ Forward /\ \A u \in Tokens \ {t} : SameBought(u)
      /\ BookedUnder(t)' = {b} /\ bookings'[b].quote = q
  BY HandlerTypes, BookEffect
<1>2. TokenInv(t) /\ ~ Unbuyable(t)
  BY DEF GateInv, Unbuyable, Unbought
<1>3. Truthful(t, conf[t].booking, conf[t].final)'
  BY <1>1, <1>2, HandlerTypes, TruthStays, ZenonT(30) DEF TokenInv, Truthful
<1>4. LateCreate(t)' \notin late'
  BY DEF LateCreate
<1>5. TokenInv(t)'
  <2>1. /\ \A r, s \in Redeems : Executes(r, t)' /\ Executes(s, t)' => r = s
        /\ conf'[t].final # "QUOTE_UNAVAILABLE"
        /\ conf'[t].status = "consumed" /\ conf'[t].quote = q
    BY <1>2 DEF TokenInv
  <2>2. QED
    BY <1>1, <1>3, <1>4, <2>1 DEF TokenInv
<1>6. QED
  BY <1>1, <1>2, <1>5 DEF Onward

\* The create of an executor, served or left without a caller.
LEMMA CreateKeepsInv ==
  ASSUME GateInv, NEW r \in Redeems, CreateBooks(r) \/ CreateFails(r)
  PROVE  GateInv'
<1>1. redeem[r].pc = "create" /\ redeem[r].pc \in Executing /\ UNCHANGED <<conf, clock>>
  BY DEF CreateBooks, CreateFails, Executing
<1>2. PICK t \in Tokens : t = redeem[r].token
  BY <1>1, ExecutorFacts
<1>3. PICK q \in Quotes : q = conf[t].quote
  BY <1>1, <1>2, ExecutorFacts
<1>4. /\ conf[t].status = "consumed" /\ Creates(r, t) /\ Executes(r, t)
      /\ \A s \in Redeems : Executes(s, t) => s = r
  BY <1>1, <1>2, ExecutorFacts DEF Creates, Executes
<1>5. Unbought(t) /\ TokenInv(t)
  BY <1>4 DEF GateInv, TokenInv
<1>6. ASSUME NEW pc \in {"confirm", "recordFailure"}, NEW b \in Bookings \cup {NoBooking},
             NEW n \in {0, 1}, NEW said \in {"EXECUTION_FAILED", "INTERNAL_ERROR", None},
             Goto(r, pc, b, n, said)
      PROVE  /\ redeem' \in [Redeems -> Handler] /\ redeem'[r].pc = pc /\ redeem'[r].token = t
             /\ redeem'[r].booking = b /\ redeem'[r].said = said
             /\ \A s \in Redeems \ {r} : redeem'[s] = redeem[s]
             /\ \A s \in Redeems : ~ Creates(s, t)' /\ (Executes(s, t)' => Executes(s, t))
             /\ \A u \in Tokens \ {t} : \A s \in Redeems :
                  (Creates(s, u)' => Creates(s, u)) /\ (Executes(s, u)' => Executes(s, u))
  <2>1. /\ redeem' \in [Redeems -> Handler] /\ redeem'[r].pc = pc
        /\ redeem'[r].token = redeem[r].token
        /\ redeem'[r].booking = b /\ redeem'[r].said = said
        /\ \A s \in Redeems \ {r} : redeem'[s] = redeem[s]
    <3>1. /\ pc \in Active \cup {"idle", "answered", "lost"} /\ n \in 0 .. MaxConfirmAttempts
          /\ said \in Answers \cup {None}
      BY DEF Active, Executing, MaxConfirmAttempts, Answers, FinalStatus
    <3>2. QED
      BY <1>6, <3>1, GotoEffect, ZenonT(30)
  <2>2. \A s \in Redeems : ~ Creates(s, t)' /\ (Executes(s, t)' => Executes(s, t))
    BY <1>2, <1>4, <2>1 DEF Creates, Executes, Executing
  <2>3. \A u \in Tokens \ {t} : \A s \in Redeems :
          (Creates(s, u)' => Creates(s, u)) /\ (Executes(s, u)' => Executes(s, u))
    BY <1>2, <2>1 DEF Creates, Executes
  <2>4. QED
    BY <1>2, <2>1, <2>2, <2>3
<1>7. ASSUME NEW b \in Bookings, Ledger!Book(b, q, t), UNCHANGED late,
             \/ Goto(r, "confirm", b, 1, None)
             \/ \E error \in {"EXECUTION_FAILED", "INTERNAL_ERROR"} :
                  Goto(r, "recordFailure", NoBooking, 0, error)
      PROVE  GateInv'
  <2>1. PICK pc \in {"confirm", "recordFailure"}, c \in Bookings \cup {NoBooking}, n \in {0, 1},
             said \in {"EXECUTION_FAILED", "INTERNAL_ERROR", None} :
          /\ Goto(r, pc, c, n, said)
          /\ pc = "confirm" => c = b /\ said = None
          /\ pc = "recordFailure" => said # None
    <3>1. CASE Goto(r, "confirm", b, 1, None)
      BY <3>1
    <3>2. CASE \E error \in {"EXECUTION_FAILED", "INTERNAL_ERROR"} :
                 Goto(r, "recordFailure", NoBooking, 0, error)
      BY <3>2 DEF None
    <3>3. QED
      BY <1>7, <3>1, <3>2
  <2>2. /\ redeem' \in [Redeems -> Handler] /\ redeem'[r].pc = pc /\ redeem'[r].token = t
        /\ redeem'[r].booking = c /\ redeem'[r].said = said
        /\ \A s \in Redeems \ {r} : redeem'[s] = redeem[s]
        /\ \A s \in Redeems : ~ Creates(s, t)' /\ (Executes(s, t)' => Executes(s, t))
        /\ \A u \in Tokens \ {t} : \A s \in Redeems :
             (Creates(s, u)' => Creates(s, u)) /\ (Executes(s, u)' => Executes(s, u))
    BY <1>6, <2>1
  <2>3. /\ Forward /\ \A u \in Tokens \ {t} : SameBought(u)
        /\ b \in BookedUnder(t)' /\ TokenInv(t)' /\ Onward(t)
    BY <1>1, <1>3, <1>4, <1>5, <1>7, <2>2, Purchase DEF Unbought
  <2>4. HandlerInv(r)'
    BY <2>1, <2>2, <2>3 DEF HandlerInv, BookedUnder, Executing, None, FinalStatus
  <2>5. \A u \in Tokens \ {t} : Kept(u)
    BY <1>1, <1>7, <2>2, <2>3 DEF Kept
  <2>6. TypeOK'
    BY <1>1, <1>7, <2>2, <2>3, HandlerTypes DEF TypeOK, Forward, GateInv
  <2>7. QED
    BY <2>2, <2>3, <2>4, <2>5, <2>6, Assemble, {t} \in SUBSET Tokens, {r} \in SUBSET Redeems
<1>8. CASE CreateBooks(r)
  <2>1. PICK b \in Bookings : /\ Ledger!Book(b, conf[t].quote, t)
                              /\ Goto(r, "confirm", b, 1, None)
    BY <1>2, <1>8 DEF CreateBooks, Ledger!Book, Ledger!BookedRow, Ledger!Exists
  <2>2. Ledger!Book(b, q, t) /\ UNCHANGED late
    BY <1>3, <1>8, <2>1 DEF CreateBooks, Ledger!Book, Ledger!BookedRow, Ledger!Exists
  <2>3. QED
    BY <1>7, <2>1, <2>2
<1>9. CASE CreateFails(r)
  <2>1. PICK error \in {"EXECUTION_FAILED", "INTERNAL_ERROR"} :
          Goto(r, "recordFailure", NoBooking, 0, error)
    BY <1>9 DEF CreateFails
  <2>2. CASE UNCHANGED late /\ \E b \in Bookings : Ledger!Book(b, conf[redeem[r].token].quote, redeem[r].token)
    <3>1. PICK b \in Bookings : Ledger!Book(b, q, t)
      BY <1>2, <1>3, <2>2 DEF Ledger!Book, Ledger!BookedRow, Ledger!Exists
    <3>2. QED
      BY <1>7, <2>1, <2>2, <3>1
  <2>3. CASE late' = late \cup {LateCreate(t)} /\ UNCHANGED ledger
    <3>1. LateCreate(t) \in Call /\ \A u \in Tokens \ {t} : LateCreate(u) # LateCreate(t)
      BY DEF LateCreate, Call
    <3>2. Forward /\ \A u \in Tokens : SameBought(u)
      BY <2>3, HandlerTypes, UnchangedLedger
    <3>3. /\ redeem' \in [Redeems -> Handler] /\ redeem'[r].pc = "recordFailure"
          /\ redeem'[r].token = t /\ redeem'[r].said = error
          /\ \A s \in Redeems \ {r} : redeem'[s] = redeem[s]
          /\ \A s \in Redeems : ~ Creates(s, t)' /\ (Executes(s, t)' => Executes(s, t))
          /\ \A u \in Tokens \ {t} : \A s \in Redeems :
               (Creates(s, u)' => Creates(s, u)) /\ (Executes(s, u)' => Executes(s, u))
      BY <1>6, <2>1, NoBooking \in Bookings \cup {NoBooking}
    <3>4. TypeOK'
      BY <1>1, <2>3, <3>1, <3>2, <3>3, HandlerTypes DEF TypeOK, Forward, GateInv
    <3>5. HandlerInv(r)'
      BY <2>1, <3>3 DEF HandlerInv, Executing
    <3>6. \A u \in Tokens \ {t} : Kept(u)
      BY <1>1, <2>3, <3>1, <3>2, <3>3 DEF Kept
    <3>7. Onward(t)
      BY <1>1, <1>4 DEF Onward, Unbuyable
    <3>8. TokenInv(t)'
      <4>1. BookedUnder(t)' = {}
        BY <1>5, <3>2 DEF Unbought, SameBought
      <4>2. Truthful(t, conf[t].booking, conf[t].final)'
        BY <1>1, <1>5, <3>2, HandlerTypes, TruthStays, ZenonT(30) DEF TokenInv, Truthful
      <4>3. /\ conf'[t].final # "QUOTE_UNAVAILABLE" /\ conf'[t].status = "consumed"
            /\ conf'[t].quote \in Quotes
        BY <1>1, <1>3, <1>4, <1>5 DEF TokenInv, Unbuyable
      <4>4. \A s, u \in Redeems : Executes(s, t)' /\ Executes(u, t)' => s = u
        BY <1>4, <3>3
      <4>5. QED
        BY <3>3, <4>1, <4>2, <4>3, <4>4 DEF TokenInv
    <3>9. QED
      BY <3>2, <3>3, <3>4, <3>5, <3>6, <3>7, <3>8, Assemble, {t} \in SUBSET Tokens,
         {r} \in SUBSET Redeems
  <2>4. QED
    BY <1>2, <1>9, <2>2, <2>3 DEF CreateFails, LateCreate
<1>10. QED
  BY <1>8, <1>9

\* A call that nobody waits for is served.
LEMMA LandKeepsInv ==
  ASSUME GateInv, NEW call \in late, Land(call)
  PROVE  GateInv'
<1>1. /\ late' = late \ {call} /\ UNCHANGED <<conf, clock, redeem>>
      /\ call \in Call
  BY HandlerTypes DEF Land
<1>2. \A u \in Tokens, r \in Redeems :
        (Executes(r, u)' => Executes(r, u)) /\ (Creates(r, u)' => Creates(r, u))
  BY <1>1 DEF Executes, Creates
<1>3. CASE call.op = "create" /\ \E b \in Bookings : Ledger!Book(b, conf[call.token].quote, call.token)
  <2>1. PICK t \in Tokens : call = LateCreate(t) /\ call.token = t
    BY <1>1, <1>3 DEF Call, LateCreate
  <2>2. TokenInv(t) /\ LateCreate(t) \in late /\ LateCreate(t) \notin late'
    BY <1>1, <2>1 DEF GateInv
  <2>3. /\ conf[t].status = "consumed" /\ conf[t].quote \in Quotes
        /\ \A r \in Redeems : ~ Creates(r, t)
    BY <2>2 DEF TokenInv, Unbought, None
  <2>4. PICK q \in Quotes : q = conf[t].quote
    BY <2>3
  <2>5. PICK b \in Bookings : Ledger!Book(b, q, t)
    BY <1>3, <2>1, <2>4, ZenonT(30) DEF Ledger!Book, Ledger!BookedRow, Ledger!Exists
  <2>6. /\ Forward /\ \A u \in Tokens \ {t} : SameBought(u)
        /\ TokenInv(t)' /\ Onward(t)
    BY <1>1, <1>2, <2>2, <2>3, <2>4, <2>5, Purchase
  <2>7. TypeOK'
    BY <1>1, <2>6, HandlerTypes DEF TypeOK, Forward, GateInv
  <2>8. \A u \in Tokens \ {t} : Kept(u)
    BY <1>1, <1>2, <2>6 DEF Kept
  <2>9. QED
    BY <1>1, <2>6, <2>7, <2>8, Assemble, {t} \in SUBSET Tokens, {} \in SUBSET Redeems
<1>4. CASE call.op = "confirm" /\ Ledger!Transition(call.booking, "CONFIRMED")
  <2>1. PICK b \in Bookings : b = call.booking
    BY <1>1, <1>4 DEF Call
  <2>2. Ledger!Transition(b, "CONFIRMED")
    BY <1>4, <2>1
  <2>3. Forward /\ \A u \in Tokens : SameBought(u)
    BY <2>2, HandlerTypes, TransitionEffect
  <2>4. TypeOK'
    BY <1>1, <2>3, HandlerTypes DEF TypeOK, Forward, GateInv
  <2>5. \A u \in Tokens : Kept(u)
    BY <1>1, <1>2, <2>3 DEF Kept
  <2>6. QED
    BY <1>1, <2>3, <2>4, <2>5, Assemble, {} \in SUBSET Tokens, {} \in SUBSET Redeems
<1>5. QED
  BY <1>3, <1>4 DEF Land

\* The steps of users and of the clock leave the gate alone.
LEMMA OutsideKeepsInv ==
  ASSUME GateInv, Users \/ Tick \/ UNCHANGED vars
  PROVE  GateInv'
<1>1. UNCHANGED <<conf, redeem, late>>
  BY DEF Users, Tick, vars
<1>2. Forward /\ \A u \in Tokens : SameBought(u)
  <2>1. CASE UNCHANGED ledger
    BY <2>1, HandlerTypes, UnchangedLedger
  <2>2. ASSUME NEW q \in Quotes, Ledger!CreateQuote(q) \/ Ledger!HoldQuote(q)
        PROVE  Forward /\ \A u \in Tokens : SameBought(u)
    BY <2>2, HandlerTypes, QuoteEffect
  <2>3. ASSUME NEW b \in Bookings, NEW q \in Quotes, NEW k \in UserKeys, Ledger!Book(b, q, k)
        PROVE  Forward /\ \A u \in Tokens : SameBought(u)
    <3>1. k \notin Tokens
      BY GateConstants
    <3>2. QED
      BY <2>3, <3>1, HandlerTypes, BookEffect
  <2>4. ASSUME NEW b \in Bookings, NEW to \in {"CONFIRMED", "CANCELLED"}, Ledger!Transition(b, to)
        PROVE  Forward /\ \A u \in Tokens : SameBought(u)
    BY <2>4, HandlerTypes, TransitionEffect
  <2>5. CASE Tick \/ UNCHANGED vars
    BY <2>1, <2>5 DEF Tick, vars, ledger
  <2>6. QED
    BY <2>2, <2>3, <2>4, <2>5 DEF Users
<1>3. clock' \in 0 .. MaxTime
  BY GateConstants DEF Users, Tick, vars, GateInv, TypeOK
<1>4. TypeOK'
  BY <1>1, <1>2, <1>3, HandlerTypes DEF TypeOK, Forward
<1>5. \A u \in Tokens : Kept(u)
  BY <1>1, <1>2 DEF Kept, Executes, Creates
<1>6. QED
  BY <1>1, <1>2, <1>4, <1>5, Assemble, {} \in SUBSET Tokens, {} \in SUBSET Redeems

\* What is in flight when the process dies.
LEMMA InFlightFacts ==
  ASSUME GateInv
  PROVE  /\ InFlight \in SUBSET Call
         /\ \A t \in Tokens : LateCreate(t) \in InFlight => \E r \in Redeems : Creates(r, t)
<1> DEFINE A == {[op |-> "create", token |-> redeem[r].token] :
                   r \in {s \in Redeems : redeem[s].pc = "create"}}
           B == {[op |-> "confirm", booking |-> redeem[r].booking] :
                   r \in {s \in Redeems : redeem[s].pc = "confirm"}}
<1>1. InFlight = A \cup B
  BY DEF InFlight
<1>2. A \subseteq Call
  <2> SUFFICES ASSUME NEW r \in Redeems, redeem[r].pc = "create"
               PROVE  [op |-> "create", token |-> redeem[r].token] \in Call
    OBVIOUS
  <2>1. redeem[r].token \in Tokens
    BY ExecutorFacts DEF Executing
  <2>2. QED
    BY <2>1 DEF Call
<1>3. B \subseteq Call
  <2> SUFFICES ASSUME NEW r \in Redeems, redeem[r].pc = "confirm"
               PROVE  [op |-> "confirm", booking |-> redeem[r].booking] \in Call
    OBVIOUS
  <2>1. redeem[r].booking \in Bookings
    BY Place DEF Executing, BookedUnder
  <2>2. QED
    BY <2>1 DEF Call
<1>4. ASSUME NEW t \in Tokens, LateCreate(t) \in A PROVE \E r \in Redeems : Creates(r, t)
  <2>1. PICK r \in Redeems : /\ redeem[r].pc = "create"
                             /\ LateCreate(t) = [op |-> "create", token |-> redeem[r].token]
    BY <1>4
  <2>2. LateCreate(t).token = t
    BY DEF LateCreate
  <2>3. redeem[r].token = t
    BY <2>1, <2>2
  <2>4. QED
    BY <2>1, <2>3 DEF Creates
<1>5. ASSUME NEW t \in Tokens, LateCreate(t) \in B PROVE FALSE
  <2>1. PICK r \in Redeems : LateCreate(t) = [op |-> "confirm", booking |-> redeem[r].booking]
    BY <1>5
  <2>2. LateCreate(t).op = "create"
    BY DEF LateCreate
  <2>3. QED
    BY <2>1, <2>2
<1>6. QED
  BY <1>1, <1>2, <1>3, <1>4, <1>5

\* The crash turns every handler under way into a lost one, and its call into
\* a call without a caller.
LEMMA CrashKeepsInv ==
  ASSUME GateInv, Crash
  PROVE  GateInv'
<1>1. late' = late \cup InFlight /\ UNCHANGED <<ledger, conf, clock>>
  BY DEF Crash
<1>2. \A r \in Redeems :
        /\ redeem'[r].pc = IF redeem[r].pc \in Active THEN "lost" ELSE redeem[r].pc
        /\ redeem'[r].token = redeem[r].token /\ redeem'[r].booking = redeem[r].booking
        /\ redeem'[r].said = redeem[r].said
        /\ redeem'[r] \in Handler
  <2> TAKE r \in Redeems
  <2>1. redeem[r] \in Handler
    BY HandlerTypes
  <2>2. redeem'[r] = IF redeem[r].pc \in Active THEN [redeem[r] EXCEPT !.pc = "lost"] ELSE redeem[r]
    BY DEF Crash
  <2>3. QED
    BY <2>1, <2>2 DEF Handler
<1>3. redeem' \in [Redeems -> Handler]
  BY <1>2 DEF Crash
<1>4. Forward /\ \A u \in Tokens : SameBought(u)
  BY <1>1, HandlerTypes, UnchangedLedger
<1>5. TypeOK'
  BY <1>1, <1>3, <1>4, HandlerTypes, InFlightFacts DEF TypeOK, Forward, GateInv
<1>6. \A r \in Redeems : redeem'[r].pc \in {"idle", "answered", "lost"}
  BY <1>2, HandlerTypes DEF Handler
<1>7. \A u \in Tokens, r \in Redeems : ~ Executes(r, u)' /\ ~ Creates(r, u)'
  BY <1>6 DEF Executes, Creates, Executing
<1>8. ASSUME NEW u \in Tokens PROVE Unbuyable(u) => Unbuyable(u)'
  BY <1>1, <1>4, <1>7, InFlightFacts DEF Unbuyable, Unbought, SameBought, LateCreate
<1>9. ASSUME NEW u \in Tokens PROVE TokenInv(u)' /\ Onward(u)
  <2>1. TokenInv(u)
    BY DEF GateInv
  <2>2. LateCreate(u)' \in late' => BookedUnder(u)' = {}
    <3>1. LateCreate(u) \in InFlight => BookedUnder(u) = {}
      BY <2>1, InFlightFacts DEF TokenInv, Unbought
    <3>2. LateCreate(u)' = LateCreate(u)
      BY DEF LateCreate
    <3>3. QED
      BY <1>1, <1>4, <2>1, <3>1, <3>2 DEF TokenInv, SameBought
  <2>3. conf'[u].status # "consumed" => conf'[u].final = None /\ Unbought(u)'
    <3>1. ASSUME conf[u].status # "consumed" PROVE Unbuyable(u)
      BY <2>1, <3>1 DEF TokenInv, Unbuyable, Executes, Creates, Executing
    <3>2. QED
      BY <1>1, <1>8, <2>1, <3>1 DEF TokenInv, Unbuyable
  <2>4. UNCHANGED bookings
    BY <1>1 DEF ledger
  <2>5. \A b \in BookedUnder(u)' : bookings'[b].quote = conf'[u].quote
    BY <1>1, <1>4, <2>1, <2>4 DEF TokenInv, SameBought
  <2>6. Truthful(u, conf[u].booking, conf[u].final)'
    BY <1>1, <2>1, <2>4 DEF TokenInv, Truthful, BookedUnder
  <2>7. conf'[u].final = "QUOTE_UNAVAILABLE" => Unbuyable(u)'
    BY <1>1, <1>8, <2>1 DEF TokenInv
  <2>8. conf'[u].status # None => conf'[u].quote \in Quotes
    BY <1>1, <2>1 DEF TokenInv
  <2>9. TokenInv(u)'
    BY <1>7, <2>2, <2>3, <2>5, <2>6, <2>7, <2>8 DEF TokenInv
  <2>10. QED
    BY <1>1, <1>8, <2>9 DEF Onward
<1>10. ASSUME NEW r \in Redeems PROVE HandlerInv(r)'
  <2>1. HandlerInv(r)
    BY DEF GateInv
  <2>2. UNCHANGED bookings
    BY <1>1 DEF ledger
  <2>3. redeem'[r].pc = "answered" => Truthful(redeem[r].token, redeem[r].booking, redeem[r].said)'
    <3>1. redeem'[r].pc = "answered" => redeem[r].pc = "answered"
      BY <1>2 DEF Active, Executing
    <3>2. QED
      BY <1>2, <2>1, <2>2, <3>1 DEF HandlerInv, Truthful, BookedUnder
  <2>4. redeem'[r].said = "QUOTE_UNAVAILABLE" =>
          conf'[redeem[r].token].status = "consumed" /\ Unbuyable(redeem[r].token)'
    <3>1. SUFFICES ASSUME redeem[r].said = "QUOTE_UNAVAILABLE"
                   PROVE  conf[redeem[r].token].status = "consumed" /\ Unbuyable(redeem[r].token)'
      BY <1>1, <1>2
    <3>2. PICK t \in Tokens : t = redeem[r].token
      BY <2>1, <3>1 DEF HandlerInv, FinalStatus
    <3>3. Unbuyable(t)
      BY <2>1, <3>1, <3>2 DEF HandlerInv, Unbuyable, Unbought, LateCreate, Creates, BookedUnder
    <3>4. Unbuyable(t)'
      BY <1>8, <3>3
    <3>5. redeem'[r].token = t
      BY <1>2, <3>2
    <3>6. QED
      BY <2>1, <3>1, <3>4, <3>5 DEF HandlerInv, Unbuyable, Unbought, LateCreate, Creates, BookedUnder
  <2>5. QED
    BY <1>2, <1>6, <2>1, <2>3, <2>4 DEF HandlerInv, Executing
<1>11. QED
  BY <1>4, <1>5, <1>9, <1>10, Assemble, Tokens \in SUBSET Tokens, Redeems \in SUBSET Redeems

-------------------------------------------------------------------------------
(* The invariant and what it implies.                                       *)

LEMMA GateInvInit == Init => GateInv
<1> SUFFICES ASSUME Init PROVE GateInv
  OBVIOUS
<1>1. /\ \A b \in Bookings : bookings[b] = Ledger!NoRow
      /\ \A t \in Tokens : conf[t] = Unminted
      /\ \A r \in Redeems : redeem[r] = Idle
      /\ late = {} /\ clock = 0
  BY DEF Init, Ledger!Init
<1>2. \A b \in Bookings : /\ bookings[b].status = None /\ bookings[b].key = NoKey
  BY <1>1, SameTables DEF Ledger!NoRow
<1>3. RowsInv
  BY <1>2 DEF RowsInv, None
<1>4. TypeOK
  <2>1. Ledger!TypeOK
    <3>1. Ledger!NoRow \in Ledger!Row
      BY DEF Ledger!NoRow, Ledger!Row
    <3>2. QED
      BY <3>1 DEF Init, Ledger!Init, Ledger!TypeOK
  <2>2. Unminted \in Confirmation /\ Idle \in Handler
    BY DEF Unminted, Confirmation, Idle, Handler, MaxConfirmAttempts
  <2>3. 0 \in 0 .. MaxTime
    BY GateConstants
  <2>4. QED
    BY <2>1, <2>2, <2>3 DEF Init, TypeOK
<1>5. \A t \in Tokens : Unbought(t)
  BY <1>1, <1>2, GateConstants DEF Unbought, BookedUnder
<1>6. \A r \in Redeems : redeem[r].pc = "idle" /\ redeem[r].said = None
  BY <1>1 DEF Idle
<1>7. ASSUME NEW t \in Tokens PROVE TokenInv(t)
  BY <1>1, <1>5, <1>6 DEF TokenInv, Unminted, Unbought, Executes, Creates, Executing, Truthful, None
<1>8. ASSUME NEW r \in Redeems PROVE HandlerInv(r)
  BY <1>6 DEF HandlerInv, Executing, FinalStatus, None
<1>9. QED
  BY <1>3, <1>4, <1>7, <1>8 DEF GateInv

LEMMA GateInvStep == GateInv /\ [Next]_vars => GateInv'
<1> SUFFICES ASSUME GateInv, [Next]_vars PROVE GateInv'
  OBVIOUS
<1>1. ASSUME NEW r \in Redeems, Step(r) PROVE GateInv'
  BY <1>1, ClaimKeepsInv, LoseClaimKeepsInv, FindKeepsInv, ExpiryKeepsInv, CreateKeepsInv,
     ReadingKeepsInv, ConfirmKeepsInv, RecordKeepsInv, RecordFailureKeepsInv DEF Step
<1>2. QED
  BY <1>1, ProposeKeepsInv, RedeemKeepsInv, LandKeepsInv, CrashKeepsInv, OutsideKeepsInv DEF Next

LEMMA GateInvariant == Spec => []GateInv
  BY GateInvInit, GateInvStep, PTL DEF Spec

\* The confirmations table, the handlers, the calls and the ledger keep their
\* shapes.
THEOREM GateTypeCorrect == Spec => []TypeOK
<1>1. GateInv => TypeOK
  BY DEF GateInv
<1>2. QED
  BY <1>1, GateInvariant, PTL

\* Nothing is booked without a click on it: a booking under a token is of the
\* quote the token was minted for, and the token is consumed.
THEOREM ApprovedOnly == Spec => []OnlyApprovedBookings
<1>1. GateInv => OnlyApprovedBookings
  <2> SUFFICES ASSUME GateInv, NEW t \in Tokens, NEW b \in BookedUnder(t)
               PROVE  conf[t].status = "consumed" /\ bookings[b].quote = conf[t].quote
    BY DEF OnlyApprovedBookings
  <2>1. QED
    BY DEF GateInv, TokenInv, Unbought
<1>2. QED
  BY <1>1, GateInvariant, PTL

\* Stored outcomes and answers are true of the ledger, whatever calls,
\* statements or processes failed.
THEOREM OutcomesTrue == Spec => []OutcomesAreTrue
<1>1. GateInv => OutcomesAreTrue
  BY DEF GateInv, TokenInv, HandlerInv, OutcomesAreTrue
<1>2. QED
  BY <1>1, GateInvariant, PTL

\* "Please re-quote" is safe advice: nothing was or will be bought.
THEOREM UnavailableUnbooked == Spec => []UnavailableMeansUnbooked
<1>1. GateInv => UnavailableMeansUnbooked
  <2> SUFFICES ASSUME GateInv, NEW t \in Tokens,
                      \/ conf[t].final = "QUOTE_UNAVAILABLE"
                      \/ \E r \in Redeems : redeem[r].token = t /\ redeem[r].said = "QUOTE_UNAVAILABLE"
               PROVE  BookedUnder(t) = {} /\ [op |-> "create", token |-> t] \notin late
    BY DEF UnavailableMeansUnbooked
  <2>1. CASE conf[t].final = "QUOTE_UNAVAILABLE"
    BY <2>1 DEF GateInv, TokenInv, Unbuyable, Unbought, LateCreate
  <2>2. CASE \E r \in Redeems : redeem[r].token = t /\ redeem[r].said = "QUOTE_UNAVAILABLE"
    BY <2>2 DEF GateInv, HandlerInv, Unbuyable, Unbought, LateCreate, BookedUnder
  <2>3. QED
    BY <2>1, <2>2
<1>2. QED
  BY <1>1, GateInvariant, PTL

\* A set without two members has at most one.
LEMMA AtMostOne ==
  ASSUME NEW S, \A x, y \in S : x = y
  PROVE  (S = {} /\ Cardinality(S) = 0) \/ (S # {} /\ Cardinality(S) = 1)
<1>1. CASE S = {}
  BY <1>1, FS_EmptySet
<1>2. CASE S # {}
  <2>1. PICK x : x \in S
    BY <1>2
  <2>2. S = {x}
    BY <2>1
  <2>3. QED
    BY <1>2, <2>2, FS_Singleton
<1>3. QED
  BY <1>1, <1>2

\* Handlers, late calls and bookings hold at most one create of each token:
\* the claim sends it once.
THEOREM SentOnce == Spec => []CreateSentOnce
<1>1. GateInv => CreateSentOnce
  <2> SUFFICES ASSUME GateInv, NEW t \in Tokens
               PROVE  Cardinality({r \in Redeems : redeem[r].token = t /\ redeem[r].pc = "create"})
                        + Cardinality({call \in late : call.op = "create" /\ call.token = t})
                        + Cardinality(BookedUnder(t)) <= 1
    BY DEF CreateSentOnce
  <2> DEFINE C == {r \in Redeems : redeem[r].token = t /\ redeem[r].pc = "create"}
             L == {call \in late : call.op = "create" /\ call.token = t}
             B == BookedUnder(t)
  <2>1. TokenInv(t) /\ RowsInv /\ t # NoKey
    BY GateConstants DEF GateInv
  <2>2. \A r, s \in C : r = s
    BY <2>1 DEF TokenInv, Executes, Executing
  <2>3. \A call \in L : call = LateCreate(t)
    BY HandlerTypes DEF Call, LateCreate
  <2>4. \A b, c \in B : b = c
    BY <2>1 DEF RowsInv, BookedUnder
  <2>5. /\ C # {} => L = {} /\ B = {}
        /\ L # {} => B = {}
    BY <2>1, <2>3 DEF TokenInv, Creates, Unbought
  <2>6. /\ (C = {} /\ Cardinality(C) = 0) \/ (C # {} /\ Cardinality(C) = 1)
        /\ (L = {} /\ Cardinality(L) = 0) \/ (L # {} /\ Cardinality(L) = 1)
        /\ (B = {} /\ Cardinality(B) = 0) \/ (B # {} /\ Cardinality(B) = 1)
    <3>1. \A x, y \in L : x = y
      BY <2>3
    <3>2. QED
      BY <2>2, <2>4, <3>1, AtMostOne
  <2> HIDE DEF C, L, B
  <2>7. Cardinality(C) + Cardinality(L) + Cardinality(B) <= 1
    BY <2>5, <2>6
  <2>8. QED
    BY <2>7 DEF C, L, B
<1>2. QED
  BY <1>1, GateInvariant, PTL

-------------------------------------------------------------------------------
(* With a store that does not fail: one outcome for all, and SingleUse.     *)

\* Until it records, the executor of a token leaves its row without outcome;
\* the failure it turns to left it no booking.
Unsettled(r) ==
  redeem[r].pc \in Executing =>
    /\ conf[redeem[r].token].final = None
    /\ redeem[r].pc = "recordFailure" => redeem[r].booking = NoBooking

\* Who answers an outcome answers what the row holds.
AnswersAsRecorded(r) ==
  redeem[r].pc = "answered" /\ redeem[r].said \in FinalStatus =>
    /\ redeem[r].token \in Tokens
    /\ conf[redeem[r].token].status = "consumed"
    /\ conf[redeem[r].token].final = redeem[r].said
    /\ conf[redeem[r].token].booking = redeem[r].booking

\* What GateInv lacks when statements of the store can fail.
CleanInv ==
  /\ \A r \in Redeems : Unsettled(r) /\ AnswersAsRecorded(r)
  /\ StuckOnlyByCrash

\* A step that records nothing: consumed rows stay, others have no outcome.
SameOutcome(t) ==
  /\ conf[t].status = "consumed" => conf'[t] = conf[t]
  /\ conf[t].status # "consumed" => conf'[t].final = None

\* Who executes or was lost goes on doing so.
GoesOn(r) ==
  redeem[r].pc \in Executing \cup {"lost"} =>
    redeem'[r].pc \in Executing \cup {"lost"} /\ redeem'[r].token = redeem[r].token

LEMMA UnrecordedStep ==
  ASSUME GateInv, GateInv', CleanInv, \A t \in Tokens : SameOutcome(t),
         \A r \in Redeems : \/ redeem'[r] = redeem[r]
                            \/ Unsettled(r)' /\ AnswersAsRecorded(r)' /\ GoesOn(r),
         \A t \in Tokens : conf[t].status # "consumed" /\ conf'[t].status = "consumed" =>
           \E r \in Redeems : Executes(r, t)'
  PROVE  CleanInv'
<1>1. ASSUME NEW r \in Redeems, redeem'[r] = redeem[r]
      PROVE  Unsettled(r)' /\ AnswersAsRecorded(r)' /\ GoesOn(r)
  <2>1. Unsettled(r)'
    <3>1. CASE redeem[r].pc \in Executing
      <4>1. redeem[r].token \in Tokens /\ conf[redeem[r].token].status = "consumed"
        BY <3>1, ExecutorFacts
      <4>2. conf'[redeem[r].token] = conf[redeem[r].token]
        BY <4>1 DEF SameOutcome
      <4>3. QED
        BY <1>1, <3>1, <4>2 DEF Unsettled, CleanInv
    <3>2. CASE redeem[r].pc \notin Executing
      BY <1>1, <3>2 DEF Unsettled
    <3>3. QED
      BY <3>1, <3>2
  <2>2. AnswersAsRecorded(r)'
    BY <1>1 DEF AnswersAsRecorded, CleanInv, SameOutcome
  <2>3. QED
    BY <1>1, <2>1, <2>2 DEF GoesOn
<1>2. StuckOnlyByCrash'
  <2> SUFFICES ASSUME NEW t \in Tokens, conf'[t].status = "consumed", conf'[t].final = None
               PROVE  \E r \in Redeems :
                        redeem'[r].token = t /\ redeem'[r].pc \in Executing \cup {"lost"}
    BY DEF StuckOnlyByCrash
  <2>1. CASE conf[t].status = "consumed"
    <3>1. PICK r \in Redeems : redeem[r].token = t /\ redeem[r].pc \in Executing \cup {"lost"}
      BY <2>1 DEF SameOutcome, CleanInv, StuckOnlyByCrash
    <3>2. QED
      BY <1>1, <3>1 DEF GoesOn
  <2>2. CASE conf[t].status # "consumed"
    BY <2>2 DEF Executes
  <2>3. QED
    BY <2>1, <2>2
<1>3. QED
  BY <1>1, <1>2 DEF CleanInv

\* The outcome is written once, by the only executor, and answered; a caller
\* whose create failed in transport is told of that instead.
LEMMA RecordedStep ==
  ASSUME GateInv, CleanInv, NEW r \in Redeems, redeem[r].pc \in Executing,
         NEW t \in Tokens, t = redeem[r].token,
         NEW b, NEW final \in FinalStatus, conf' = [conf EXCEPT ![t] = Recorded(t, b, final)],
         redeem'[r].pc = "answered", redeem'[r].token = t,
         redeem'[r].said \in FinalStatus => redeem'[r].said = final,
         redeem'[r].booking = b, \A s \in Redeems \ {r} : redeem'[s] = redeem[s]
  PROVE  CleanInv'
<1>1. /\ conf'[t].status = conf[t].status /\ conf'[t].final = final /\ conf'[t].booking = b
      /\ \A u \in Tokens \ {t} : conf'[u] = conf[u]
  BY HandlerTypes DEF Recorded, Confirmation
<1>2. conf[t].status = "consumed" /\ conf[t].final = None /\ None \notin FinalStatus
  BY ExecutorFacts DEF CleanInv, Unsettled, FinalStatus, None
<1>3. Unsettled(r)' /\ AnswersAsRecorded(r)'
  BY <1>1, <1>2 DEF Unsettled, AnswersAsRecorded, Executing
<1>4. ASSUME NEW s \in Redeems \ {r} PROVE Unsettled(s)' /\ AnswersAsRecorded(s)'
  <2>1. Unsettled(s)'
    <3>1. redeem[s].pc \in Executing => redeem[s].token \in Tokens \ {t}
      BY ExecutorFacts DEF Executes
    <3>2. QED
      BY <1>1, <3>1 DEF CleanInv, Unsettled
  <2>2. AnswersAsRecorded(s)'
    BY <1>1, <1>2 DEF CleanInv, AnswersAsRecorded
  <2>3. QED
    BY <2>1, <2>2
<1>5. StuckOnlyByCrash'
  <2> SUFFICES ASSUME NEW u \in Tokens, conf'[u].status = "consumed", conf'[u].final = None
               PROVE  \E s \in Redeems :
                        redeem'[s].token = u /\ redeem'[s].pc \in Executing \cup {"lost"}
    BY DEF StuckOnlyByCrash
  <2>1. u # t /\ conf'[u] = conf[u]
    BY <1>1, <1>2
  <2>2. PICK s \in Redeems : redeem[s].token = u /\ redeem[s].pc \in Executing \cup {"lost"}
    BY <2>1 DEF CleanInv, StuckOnlyByCrash
  <2>3. QED
    BY <2>1, <2>2
<1>6. QED
  BY <1>3, <1>4, <1>5 DEF CleanInv

\* A handler that moves before or besides an execution.
LEMMA CleanBesides ==
  ASSUME GateInv, GateInv', CleanInv, NEW r \in Redeems, \A t \in Tokens : SameOutcome(t),
         \A t \in Tokens : conf[t].status # "consumed" => conf'[t].status # "consumed",
         redeem[r].pc \notin Executing \cup {"lost"}, redeem'[r].pc \notin Executing,
         \A s \in Redeems \ {r} : redeem'[s] = redeem[s],
         redeem'[r].pc = "answered" => AnswersAsRecorded(r)'
  PROVE  CleanInv'
<1>1. Unsettled(r)' /\ AnswersAsRecorded(r)' /\ GoesOn(r)
  BY DEF Unsettled, AnswersAsRecorded, GoesOn
<1>2. QED
  BY <1>1, UnrecordedStep

\* An executor that goes on executing.
LEMMA CleanGoesOn ==
  ASSUME GateInv, GateInv', CleanInv, UNCHANGED conf, NEW r \in Redeems,
         redeem[r].pc \in Executing, redeem'[r].pc \in Executing,
         redeem'[r].token = redeem[r].token,
         redeem'[r].pc = "recordFailure" => redeem'[r].booking = NoBooking,
         \A s \in Redeems \ {r} : redeem'[s] = redeem[s]
  PROVE  CleanInv'
<1>1. Unsettled(r)' /\ AnswersAsRecorded(r)' /\ GoesOn(r)
  BY DEF CleanInv, Unsettled, AnswersAsRecorded, GoesOn, Executing
<1>2. \A t \in Tokens : SameOutcome(t)
  BY DEF SameOutcome, GateInv, TokenInv
<1>3. QED
  BY <1>1, <1>2, UnrecordedStep

\* The fields a handler has after Goto.
LEMMA GotoFields ==
  ASSUME GateInv, NEW r \in Redeems, NEW pc, NEW b, NEW n, NEW said, Goto(r, pc, b, n, said)
  PROVE  /\ redeem'[r].pc = pc /\ redeem'[r].token = redeem[r].token
         /\ redeem'[r].booking = b /\ redeem'[r].said = said
         /\ \A s \in Redeems \ {r} : redeem'[s] = redeem[s]
  BY HandlerTypes DEF Goto

LEMMA CleanExecution ==
  ASSUME GateInv, GateInv', CleanInv, NEW r \in Redeems,
         \/ CreateBooks(r) \/ CreateRefused(r) \/ CreateFails(r)
         \/ Confirm(r) \/ ConfirmRefused(r) \/ ConfirmFails(r)
         \/ Read(r) \/ LastRead(r) \/ ReadFails(r)
  PROVE  CleanInv'
<1>1. redeem[r].pc \in Executing /\ UNCHANGED conf
  BY DEF CreateBooks, CreateRefused, CreateFails, Confirm, ConfirmRefused, ConfirmFails, Read,
     LastRead, ReadFails, Executing
<1>2. CASE CreateRefused(r) \/ CreateFails(r)
  <2>1. PICK said : Goto(r, "recordFailure", NoBooking, 0, said)
    <3>1. CASE CreateFails(r)
      BY <3>1 DEF CreateFails
    <3>2. CASE CreateRefused(r) /\ quotes[conf[redeem[r].token].quote] = None
      BY <3>2 DEF CreateRefused, Goto
    <3>3. CASE CreateRefused(r) /\ quotes[conf[redeem[r].token].quote] # None
      BY <3>3 DEF CreateRefused, Goto
    <3>4. QED
      BY <1>2, <3>1, <3>2, <3>3
  <2>2. /\ redeem'[r].pc = "recordFailure" /\ redeem'[r].token = redeem[r].token
        /\ redeem'[r].booking = NoBooking
        /\ \A s \in Redeems \ {r} : redeem'[s] = redeem[s]
    BY <2>1, GotoFields
  <2>3. redeem'[r].pc \in Executing
    BY <2>2 DEF Executing
  <2>4. QED
    BY <1>1, <2>2, <2>3, CleanGoesOn
<1>3. CASE \/ CreateBooks(r) \/ Confirm(r) \/ ConfirmRefused(r) \/ ConfirmFails(r)
           \/ Read(r) \/ LastRead(r) \/ ReadFails(r)
  <2> DEFINE Moves(pc) == /\ redeem'[r].pc = pc /\ redeem'[r].token = redeem[r].token
                          /\ \A s \in Redeems \ {r} : redeem'[s] = redeem[s]
  <2>0. redeem \in [Redeems -> Handler]
    BY HandlerTypes
  <2>1. PICK pc \in Executing \ {"recordFailure"} : Moves(pc)
    <3>1. CreateBooks(r) => Moves("confirm")
      BY <2>0 DEF CreateBooks, Goto
    <3>2. Confirm(r) => Moves("record")
      BY <2>0 DEF Confirm, Goto
    <3>3. ConfirmRefused(r) \/ ConfirmFails(r) => Moves("read")
      BY <2>0 DEF ConfirmRefused, ConfirmFails, Goto
    <3>4. Read(r) => Moves("record") \/ Moves("confirm") \/ Moves("lastRead")
      BY <2>0 DEF Read, Goto
    <3>5. LastRead(r) \/ ReadFails(r) => Moves("record")
      BY <2>0 DEF LastRead, ReadFails, Goto
    <3>6. {"confirm", "record", "read", "lastRead"} \subseteq Executing \ {"recordFailure"}
      BY DEF Executing
    <3> HIDE DEF Moves
    <3>7. QED
      BY <1>3, <3>1, <3>2, <3>3, <3>4, <3>5, <3>6
  <2>2. /\ redeem'[r].pc = pc /\ redeem'[r].token = redeem[r].token
        /\ \A s \in Redeems \ {r} : redeem'[s] = redeem[s]
    BY <2>1
  <2>3. QED
    BY <1>1, <2>1, <2>2, CleanGoesOn
<1>4. QED
  BY <1>2, <1>3

LEMMA CleanRecord ==
  ASSUME GateInv, CleanInv, NEW r \in Redeems, Record(r) \/ RecordFailure(r)
  PROVE  CleanInv'
<1>1. redeem[r].pc \in {"record", "recordFailure"} /\ redeem[r].pc \in Executing
  BY DEF Record, RecordFailure, Executing
<1>2. PICK t \in Tokens, b \in Bookings \cup {NoBooking}, n \in 0 .. MaxConfirmAttempts,
           said \in {"CONFIRMED", "HELD", "CANCELLED", "UNKNOWN", "QUOTE_UNAVAILABLE",
                     "EXECUTION_FAILED", "INTERNAL_ERROR"} :
        /\ t = redeem[r].token /\ b = redeem[r].booking /\ n = redeem[r].attempt
        /\ said = redeem[r].said
        /\ redeem[r].pc = "record" => said \in {"CONFIRMED", "HELD", "CANCELLED", "UNKNOWN"}
  BY <1>1, RecorderFacts
<1>3. Goto(r, "answered", b, n, said)
  BY <1>2 DEF Record, RecordFailure, Answer, Goto
<1>4. /\ redeem'[r].pc = "answered" /\ redeem'[r].token = t /\ redeem'[r].booking = b
      /\ redeem'[r].said = said /\ \A s \in Redeems \ {r} : redeem'[s] = redeem[s]
  BY <1>2, <1>3, GotoFields
<1>5. CASE Record(r)
  <2>1. conf' = [conf EXCEPT ![t] = Recorded(t, b, said)] /\ said \in FinalStatus
    BY <1>2, <1>5 DEF Record, Recorded, FinalStatus
  <2>2. QED
    BY <1>1, <1>2, <1>4, <2>1, RecordedStep
<1>6. CASE RecordFailure(r)
  <2>1. b = NoBooking
    BY <1>1, <1>2, <1>6 DEF RecordFailure, CleanInv, Unsettled
  <2>2. said \in {"QUOTE_UNAVAILABLE", "EXECUTION_FAILED", "INTERNAL_ERROR"}
    BY <1>2, <1>6 DEF RecordFailure, GateInv, HandlerInv
  <2>3. PICK final \in {"QUOTE_UNAVAILABLE", "EXECUTION_FAILED"} : final = FailureStatus(said)
    BY DEF FailureStatus
  <2>4. final \in FinalStatus /\ (said \in FinalStatus => said = final)
    BY <2>2, <2>3 DEF FailureStatus, FinalStatus
  <2>5. conf' = [conf EXCEPT ![t] = Recorded(t, b, final)]
    BY <1>2, <1>6, <2>1, <2>3 DEF RecordFailure, Recorded
  <2>6. QED
    BY <1>1, <1>2, <1>4, <2>4, <2>5, RecordedStep
<1>7. QED
  BY <1>5, <1>6

LEMMA CleanOther ==
  ASSUME GateInv, GateInv', CleanInv, NEW r \in Redeems,
         \/ \E t \in Tokens \cup {NoToken} : Redeem(r, t)
         \/ Claim(r) \/ LoseClaim(r) \/ Find(r) \/ MarkExpired(r)
  PROVE  CleanInv'
<1>1. redeem[r].pc \in {"idle", "claim", "find", "expire"}
  BY DEF Redeem, Claim, LoseClaim, Find, MarkExpired
<1>2. UNCHANGED conf => \A t \in Tokens : SameOutcome(t)
  BY DEF SameOutcome, GateInv, TokenInv
<1>3. CASE \E t \in Tokens \cup {NoToken} : Redeem(r, t)
  <2>1. redeem'[r].pc = "claim" /\ UNCHANGED conf /\ \A s \in Redeems \ {r} : redeem'[s] = redeem[s]
    BY <1>3, HandlerTypes DEF Redeem
  <2>2. QED
    BY <1>1, <1>2, <2>1, CleanBesides DEF Executing
<1>4. CASE LoseClaim(r)
  <2>1. Goto(r, "find", NoBooking, 0, None) /\ UNCHANGED conf
    BY <1>4 DEF LoseClaim
  <2>2. redeem'[r].pc = "find" /\ \A s \in Redeems \ {r} : redeem'[s] = redeem[s]
    BY <2>1, GotoFields
  <2>3. QED
    BY <1>1, <1>2, <2>1, <2>2, CleanBesides DEF Executing
<1>5. CASE Claim(r)
  <2>1. PICK t \in Tokens : t = redeem[r].token
    BY <1>5 DEF Claim, Claimable
  <2>2. /\ conf[t].status = "pending" /\ conf' = [conf EXCEPT ![t] = [conf[t] EXCEPT !.status = "consumed"]]
        /\ Goto(r, "create", NoBooking, 0, None)
    BY <1>5, <2>1 DEF Claim, Claimable, Consumed
  <2>3. /\ redeem'[r].pc = "create" /\ redeem'[r].token = t
        /\ \A s \in Redeems \ {r} : redeem'[s] = redeem[s]
    BY <2>1, <2>2, GotoFields
  <2>4. conf'[t].final = conf[t].final /\ \A u \in Tokens \ {t} : conf'[u] = conf[u]
    BY <2>2, HandlerTypes DEF Confirmation
  <2>5. \A u \in Tokens : conf[u].status # "consumed" => conf[u].final = None
    BY DEF GateInv, TokenInv
  <2>6. \A u \in Tokens : SameOutcome(u)
    BY <2>2, <2>4, <2>5 DEF SameOutcome
  <2>7. Unsettled(r)' /\ AnswersAsRecorded(r)' /\ GoesOn(r)
    BY <1>1, <2>2, <2>3, <2>4, <2>5 DEF Unsettled, AnswersAsRecorded, GoesOn, Executing
  <2>8. \A u \in Tokens : conf[u].status # "consumed" /\ conf'[u].status = "consumed" =>
          Executes(r, u)'
    BY <2>3, <2>4 DEF Executes, Executing
  <2>9. QED
    BY <2>3, <2>6, <2>7, <2>8, UnrecordedStep
<1>6. CASE MarkExpired(r)
  <2>1. PICK t \in Tokens : t = redeem[r].token
    BY <1>6 DEF MarkExpired, GateInv, HandlerInv
  <2>2. conf' = [conf EXCEPT ![t] = Expired(conf[t])] /\ Answer(r, "CONFIRMATION_EXPIRED")
    BY <1>6, <2>1 DEF MarkExpired
  <2>3. /\ redeem'[r].pc = "answered" /\ redeem'[r].said = "CONFIRMATION_EXPIRED"
        /\ \A s \in Redeems \ {r} : redeem'[s] = redeem[s]
    BY <2>2, HandlerTypes DEF Answer, Goto
  <2>4. /\ conf'[t] = Expired(conf[t]) /\ \A u \in Tokens \ {t} : conf'[u] = conf[u]
        /\ Expired(conf[t]).final = conf[t].final
        /\ conf[t].status = "consumed" => Expired(conf[t]) = conf[t]
        /\ conf[t].status # "consumed" => Expired(conf[t]).status # "consumed"
    BY <2>2, HandlerTypes DEF Expired, Confirmation
  <2>5. \A u \in Tokens : conf[u].status # "consumed" => conf[u].final = None
    BY DEF GateInv, TokenInv
  <2>6. \A u \in Tokens : SameOutcome(u)
    BY <2>4, <2>5 DEF SameOutcome
  <2>7. \A u \in Tokens : conf[u].status # "consumed" => conf'[u].status # "consumed"
    BY <2>4
  <2>8. QED
    BY <1>1, <2>3, <2>6, <2>7, CleanBesides DEF Executing, AnswersAsRecorded, FinalStatus
<1>7. CASE Find(r)
  <2>1. UNCHANGED conf
    BY <1>7 DEF Find
  <2>2. /\ redeem'[r].pc \in {"answered", "expire"} /\ redeem'[r].token = redeem[r].token
        /\ \A s \in Redeems \ {r} : redeem'[s] = redeem[s]
        /\ redeem'[r].pc = "answered" /\ redeem'[r].said # "CONFIRMATION_NOT_FOUND" =>
             /\ redeem[r].token \in Tokens /\ conf[redeem[r].token].status = "consumed"
             /\ redeem'[r].said = Stored(conf[redeem[r].token])
             /\ redeem'[r].booking = conf[redeem[r].token].booking
    BY <1>7, HandlerTypes DEF Find, Answer, Goto
  <2>3. redeem'[r].said \in FinalStatus => redeem'[r].said # "CONFIRMATION_NOT_FOUND"
    BY DEF FinalStatus
  <2>4. Stored(conf[redeem[r].token]) \in FinalStatus =>
          Stored(conf[redeem[r].token]) = conf[redeem[r].token].final
    BY DEF Stored, FinalStatus
  <2>5. AnswersAsRecorded(r)'
    BY <2>1, <2>2, <2>3, <2>4 DEF AnswersAsRecorded
  <2>6. QED
    BY <1>1, <1>2, <2>1, <2>2, <2>5, CleanBesides DEF Executing
<1>8. QED
  BY <1>3, <1>4, <1>5, <1>6, <1>7

LEMMA CleanCrash ==
  ASSUME GateInv, GateInv', CleanInv, Crash
  PROVE  CleanInv'
<1>1. UNCHANGED conf
  BY DEF Crash
<1>2. \A t \in Tokens : SameOutcome(t)
  BY <1>1 DEF SameOutcome, GateInv, TokenInv
<1>3. ASSUME NEW r \in Redeems
      PROVE  redeem'[r] = redeem[r] \/ (Unsettled(r)' /\ AnswersAsRecorded(r)' /\ GoesOn(r))
  <2>1. CASE redeem[r].pc \in Active
    <3>1. redeem'[r].pc = "lost" /\ redeem'[r].token = redeem[r].token
      BY <2>1, HandlerTypes DEF Crash, Handler
    <3>2. QED
      BY <3>1 DEF Unsettled, AnswersAsRecorded, GoesOn, Executing
  <2>2. CASE redeem[r].pc \notin Active
    BY <2>2 DEF Crash
  <2>3. QED
    BY <2>1, <2>2
<1>4. QED
  BY <1>1, <1>2, <1>3, UnrecordedStep

LEMMA CleanOutside ==
  ASSUME GateInv, GateInv', CleanInv,
         \/ \E t \in Tokens, q \in Quotes : Propose(t, q)
         \/ \E call \in late : Land(call)
         \/ Users \/ Tick \/ UNCHANGED vars
  PROVE  CleanInv'
<1>1. UNCHANGED redeem
  BY DEF Propose, Land, Users, Tick, vars
<1>2. /\ \A t \in Tokens : SameOutcome(t)
      /\ \A t \in Tokens : conf[t].status # "consumed" => conf'[t].status # "consumed"
  <2>1. \A t \in Tokens : conf[t].status # "consumed" => conf[t].final = None
    BY DEF GateInv, TokenInv
  <2>2. CASE UNCHANGED conf
    BY <2>1, <2>2 DEF SameOutcome
  <2>3. CASE \E t \in Tokens, q \in Quotes : Propose(t, q)
    <3>1. PICK t \in Tokens, q \in Quotes : Propose(t, q)
      BY <2>3
    <3>2. /\ conf[t].status = None /\ conf'[t].status = "pending" /\ conf'[t].final = None
          /\ \A u \in Tokens \ {t} : conf'[u] = conf[u]
      BY <3>1, HandlerTypes DEF Propose
    <3>3. QED
      BY <2>1, <3>2 DEF SameOutcome, None
  <2>4. QED
    BY <2>2, <2>3 DEF Land, Users, Tick, vars
<1>3. QED
  BY <1>1, <1>2, UnrecordedStep

LEMMA CleanInvInit == Init => CleanInv
<1> SUFFICES ASSUME Init PROVE CleanInv
  OBVIOUS
<1>1. /\ \A r \in Redeems : redeem[r].pc = "idle"
      /\ \A t \in Tokens : conf[t].status = None
  BY DEF Init, Idle, Unminted
<1>2. QED
  BY <1>1 DEF CleanInv, Unsettled, AnswersAsRecorded, StuckOnlyByCrash, Executing, None

LEMMA CleanInvStep ==
  ASSUME "store" \notin Faults
  PROVE  GateInv /\ GateInv' /\ CleanInv /\ [Next]_vars => CleanInv'
<1> SUFFICES ASSUME GateInv, GateInv', CleanInv, [Next]_vars PROVE CleanInv'
  OBVIOUS
<1>1. ASSUME NEW r \in Redeems, Step(r) PROVE CleanInv'
  <2>1. ~ StoreFails(r) /\ ~ RecordFails(r) /\ ~ RecordFailureFails(r)
    BY DEF StoreFails, RecordFails, RecordFailureFails
  <2>2. QED
    BY <1>1, <2>1, CleanExecution, CleanRecord, CleanOther DEF Step
<1>2. QED
  BY <1>1, CleanOther, CleanCrash, CleanOutside DEF Next

LEMMA CleanInvariant ==
  ASSUME "store" \notin Faults
  PROVE  Spec => [](GateInv /\ CleanInv)
  BY GateInvInit, GateInvStep, CleanInvInit, CleanInvStep, PTL DEF Spec

\* Whoever learns an outcome of a token learns the same one, when statements
\* of the store do not fail.
THEOREM OneOutcome ==
  ASSUME "store" \notin Faults
  PROVE  Spec => []OneOutcomePerToken
<1>1. CleanInv => OneOutcomePerToken
  BY DEF CleanInv, AnswersAsRecorded, OneOutcomePerToken
<1>2. QED
  BY <1>1, CleanInvariant, PTL

\* Only a crash leaves a claimed token without outcome and without executor.
THEOREM OnlyCrashesStrand ==
  ASSUME "store" \notin Faults
  PROVE  Spec => []StuckOnlyByCrash
<1>1. CleanInv => StuckOnlyByCrash
  BY DEF CleanInv
<1>2. QED
  BY <1>1, CleanInvariant, PTL

-------------------------------------------------------------------------------
(* The gate implements SingleUse.                                           *)

BoughtIsBooked ==
  \A t \in Tokens :
    /\ BookedUnder(t) = {} => Bought(t) = NoBooking
    /\ \A b \in BookedUnder(t) : Bought(t) = b

\* The one booking under a token is what the token bought.
LEMMA BoughtFacts == GateInv => BoughtIsBooked
<1> SUFFICES ASSUME GateInv, NEW t \in Tokens, NEW b \in BookedUnder(t) PROVE Bought(t) = b
  BY DEF BoughtIsBooked, Bought
<1> DEFINE c == CHOOSE x \in Bookings : bookings[x].key = t
<1>1. Bought(t) = c
  BY DEF Bought
<1>2. c \in Bookings /\ bookings[c].key = t
  BY DEF BookedUnder
<1>3. b \in Bookings /\ bookings[b].key = t
  BY DEF BookedUnder
<1>4. t # NoKey
  BY GateConstants
<1> HIDE DEF c
<1>5. b = c
  BY <1>2, <1>3, <1>4 DEF GateInv, RowsInv
<1>6. QED
  BY <1>1, <1>5

LEMMA BoughtFactsNext == GateInv' => BoughtIsBooked'
  BY BoughtFacts, PTL

\* What the promise sees of token t does not change.
SameView(t) ==
  /\ Phase(t)' = Phase(t) /\ Bought(t)' = Bought(t) /\ Verdict(t)' = Verdict(t)

LEMMA SameBoughtSame ==
  ASSUME GateInv, GateInv', NEW t \in Tokens, SameBought(t)
  PROVE  Bought(t)' = Bought(t)
  BY BoughtFacts, BoughtFactsNext DEF BoughtIsBooked, SameBought

LEMMA KeptView ==
  ASSUME GateInv, GateInv', NEW t \in Tokens, conf'[t] = conf[t], SameBought(t)
  PROVE  SameView(t)
  BY SameBoughtSame DEF SameView, Phase, Verdict

\* A step that changes the view of no token stutters.
LEMMA StutterStep ==
  ASSUME \A u \in Tokens : SameView(u)
  PROVE  UNCHANGED Promise!vars
  BY DEF SameView, Promise!vars

LEMMA MintStep ==
  ASSUME NEW t \in Tokens, \A u \in Tokens \ {t} : SameView(u),
         Phase(t) = "unminted", Phase(t)' = "pending",
         Bought(t)' = Bought(t), Verdict(t)' = Verdict(t)
  PROVE  Promise!Next
<1>1. Promise!Mint(t)
  BY DEF Promise!Mint, SameView
<1>2. QED
  BY <1>1 DEF Promise!Next

LEMMA LeaveStep ==
  ASSUME NEW t \in Tokens, \A u \in Tokens \ {t} : SameView(u),
         NEW phase \in {"consumed", "expired"}, Phase(t) = "pending", Phase(t)' = phase,
         Bought(t)' = Bought(t), Verdict(t)' = Verdict(t)
  PROVE  Promise!Next
<1>1. [u \in Tokens |-> Phase(u)]' = [[u \in Tokens |-> Phase(u)] EXCEPT ![t] = phase]
  BY DEF SameView
<1>2. Promise!Leave(t)
  BY <1>1 DEF Promise!Leave, SameView
<1>3. QED
  BY <1>2 DEF Promise!Next

LEMMA BuyStep ==
  ASSUME NEW t \in Tokens, \A u \in Tokens \ {t} : SameView(u), NEW b \in Bookings,
         Phase(t) = "consumed", Phase(t)' = "consumed", Bought(t) = NoBooking, Bought(t)' = b,
         Verdict(t) \in {"none", "EXECUTION_FAILED"}, Verdict(t)' = Verdict(t),
         \A u \in Tokens : Bought(u) # b
  PROVE  Promise!Next
<1>1. Promise!Buy(t, b)
  BY DEF Promise!Buy, SameView
<1>2. QED
  BY <1>1 DEF Promise!Next

LEMMA SettleStep ==
  ASSUME NEW t \in Tokens, \A u \in Tokens \ {t} : SameView(u), NEW v \in FinalStatus,
         Phase(t) = "consumed", Phase(t)' = "consumed", Bought(t)' = Bought(t),
         Verdict(t) = "none", Verdict(t)' = v,
         v = "QUOTE_UNAVAILABLE" => Bought(t) = NoBooking,
         v \in {"CONFIRMED", "HELD", "CANCELLED", "UNKNOWN"} => Bought(t) # NoBooking
  PROVE  Promise!Next
<1>1. Promise!Settle(t, v) /\ v \in Promise!Verdicts
  BY DEF Promise!Settle, SameView, Promise!Verdicts, FinalStatus
<1>2. QED
  BY <1>1 DEF Promise!Next

LEMMA PurchaseImplements ==
  ASSUME GateInv, GateInv', UNCHANGED conf,
         NEW t \in Tokens, conf[t].status = "consumed", ~ Unbuyable(t),
         NEW b \in Bookings, NEW q \in Quotes, Ledger!Book(b, q, t)
  PROVE  Promise!Next
<1>1. /\ \A u \in Tokens \ {t} : SameBought(u)
      /\ BookedUnder(t) = {} /\ BookedUnder(t)' = {b} /\ bookings[b].key = NoKey
  BY HandlerTypes, BookEffect
<1>2. \A u \in Tokens \ {t} : SameView(u)
  BY <1>1, KeptView
<1>3. Bought(t) = NoBooking /\ Bought(t)' = b
  BY <1>1, BoughtFacts, BoughtFactsNext DEF BoughtIsBooked
<1>4. \A u \in Tokens : Bought(u) # b
  <2> SUFFICES ASSUME NEW u \in Tokens PROVE Bought(u) # b
    OBVIOUS
  <2>1. b \notin BookedUnder(u) /\ b # NoBooking
    BY <1>1, GateConstants DEF BookedUnder
  <2>2. CASE BookedUnder(u) = {}
    BY <2>1, <2>2, BoughtFacts DEF BoughtIsBooked
  <2>3. CASE BookedUnder(u) # {}
    <3>1. PICK c \in BookedUnder(u) : TRUE
      BY <2>3
    <3>2. Bought(u) = c
      BY BoughtFacts DEF BoughtIsBooked
    <3>3. QED
      BY <2>1, <3>1, <3>2
  <2>4. QED
    BY <2>2, <2>3
<1>5. Verdict(t) \in {"none", "EXECUTION_FAILED"} /\ Verdict(t)' = Verdict(t)
  <2>1. TokenInv(t) /\ conf[t].final \in FinalStatus \cup {None}
    BY HandlerTypes DEF GateInv
  <2>2. conf[t].final \notin {"CONFIRMED", "HELD", "CANCELLED", "UNKNOWN", "QUOTE_UNAVAILABLE"}
    BY <1>1, <2>1 DEF TokenInv, Truthful
  <2>3. QED
    BY <2>1, <2>2 DEF FinalStatus, Verdict
<1>6. Phase(t) = "consumed" /\ Phase(t)' = "consumed"
  BY DEF Phase, None
<1>7. QED
  BY <1>2, <1>3, <1>4, <1>5, <1>6, BuyStep

\* Steps that change neither a row nor what is booked under a token.
LEMMA UnseenImplements ==
  ASSUME GateInv, GateInv', UNCHANGED conf, \A u \in Tokens : SameBought(u)
  PROVE  UNCHANGED Promise!vars
  BY KeptView, StutterStep

LEMMA CreateImplements ==
  ASSUME GateInv, GateInv', NEW r \in Redeems, CreateBooks(r) \/ CreateFails(r)
  PROVE  [Promise!Next]_(Promise!vars)
<1>1. redeem[r].pc = "create" /\ redeem[r].pc \in Executing /\ UNCHANGED conf
  BY DEF CreateBooks, CreateFails, Executing
<1>2. PICK t \in Tokens, q \in Quotes : t = redeem[r].token /\ q = conf[t].quote
  BY <1>1, ExecutorFacts
<1>3. conf[t].status = "consumed" /\ ~ Unbuyable(t)
  BY <1>1, <1>2, ExecutorFacts DEF Unbuyable, Creates
<1>4. CASE UNCHANGED ledger
  BY <1>1, <1>4, HandlerTypes, UnchangedLedger, UnseenImplements
<1>5. CASE \E b \in Bookings : Ledger!Book(b, conf[redeem[r].token].quote, redeem[r].token)
  <2>1. PICK b \in Bookings : Ledger!Book(b, q, t)
    BY <1>2, <1>5 DEF Ledger!Book, Ledger!BookedRow, Ledger!Exists
  <2>2. QED
    BY <1>1, <1>3, <2>1, PurchaseImplements
<1>6. QED
  BY <1>4, <1>5 DEF CreateBooks, CreateFails

LEMMA LandImplements ==
  ASSUME GateInv, GateInv', NEW call \in late, Land(call)
  PROVE  [Promise!Next]_(Promise!vars)
<1>1. UNCHANGED conf /\ call \in Call
  BY HandlerTypes DEF Land
<1>2. CASE call.op = "create" /\ \E b \in Bookings : Ledger!Book(b, conf[call.token].quote, call.token)
  <2>1. PICK t \in Tokens : call = LateCreate(t) /\ call.token = t
    BY <1>1, <1>2 DEF Call, LateCreate
  <2>2. /\ conf[t].status = "consumed" /\ conf[t].quote \in Quotes /\ ~ Unbuyable(t)
    BY <2>1 DEF GateInv, TokenInv, Unbuyable, Unbought, None
  <2>3. PICK q \in Quotes : q = conf[t].quote
    BY <2>2
  <2>4. PICK b \in Bookings : Ledger!Book(b, q, t)
    BY <1>2, <2>1, <2>3 DEF Ledger!Book, Ledger!BookedRow, Ledger!Exists
  <2>5. QED
    BY <1>1, <2>2, <2>4, PurchaseImplements
<1>3. CASE call.op = "confirm" /\ Ledger!Transition(call.booking, "CONFIRMED")
  <2>1. PICK b \in Bookings : b = call.booking
    BY <1>1, <1>3 DEF Call
  <2>2. Ledger!Transition(b, "CONFIRMED")
    BY <1>3, <2>1
  <2>3. \A u \in Tokens : SameBought(u)
    BY <2>2, HandlerTypes, TransitionEffect
  <2>4. QED
    BY <1>1, <2>3, UnseenImplements
<1>4. QED
  BY <1>2, <1>3 DEF Land

\* A booking is confirmed, or users work: no token buys.
LEMMA ConfirmImplements ==
  ASSUME GateInv, GateInv', NEW r \in Redeems, Confirm(r) \/ ConfirmFails(r)
  PROVE  UNCHANGED Promise!vars
<1>1. redeem[r].pc = "confirm" /\ redeem[r].pc \in Executing /\ UNCHANGED conf
  BY DEF Confirm, ConfirmFails, Executing
<1>2. PICK b \in Bookings : b = redeem[r].booking
  BY <1>1, Place DEF BookedUnder
<1>3. UNCHANGED ledger \/ Ledger!Transition(b, "CONFIRMED")
  BY <1>2 DEF Confirm, ConfirmFails, Ledger!Transition, Ledger!Exists
<1>4. \A u \in Tokens : SameBought(u)
  BY <1>3, HandlerTypes, UnchangedLedger, TransitionEffect
<1>5. QED
  BY <1>1, <1>4, UnseenImplements

LEMMA OutsideImplements ==
  ASSUME GateInv, GateInv', Users \/ Tick \/ Crash \/ UNCHANGED vars
  PROVE  UNCHANGED Promise!vars
<1>1. UNCHANGED conf
  BY DEF Users, Tick, Crash, vars
<1>2. \A u \in Tokens : SameBought(u)
  <2>1. CASE UNCHANGED ledger
    BY <2>1, HandlerTypes, UnchangedLedger
  <2>2. CASE Users
    <3>1. ASSUME NEW b \in Bookings, NEW q \in Quotes, NEW k \in UserKeys, Ledger!Book(b, q, k)
          PROVE  \A u \in Tokens : SameBought(u)
      BY <3>1, HandlerTypes, BookEffect, GateConstants
    <3>2. QED
      BY <2>2, <3>1, HandlerTypes, QuoteEffect, TransitionEffect DEF Users
  <2>3. QED
    BY <2>1, <2>2 DEF Tick, Crash, vars, ledger
<1>3. QED
  BY <1>1, <1>2, UnseenImplements

LEMMA RowImplements ==
  ASSUME GateInv, GateInv', UNCHANGED ledger, NEW t \in Tokens,
         NEW row, conf' = [conf EXCEPT ![t] = row]
  PROVE  /\ \A u \in Tokens \ {t} : SameView(u)
         /\ conf'[t] = row /\ Bought(t)' = Bought(t)
<1>1. \A u \in Tokens : SameBought(u)
  BY HandlerTypes, UnchangedLedger
<1>2. conf'[t] = row /\ \A u \in Tokens \ {t} : conf'[u] = conf[u]
  BY HandlerTypes
<1>3. QED
  BY <1>1, <1>2, KeptView, SameBoughtSame

\* A row is minted, claimed, or expires.
LEMMA LifeImplements ==
  ASSUME GateInv, GateInv',
         \/ \E t \in Tokens, q \in Quotes : Propose(t, q)
         \/ \E r \in Redeems : Claim(r) \/ MarkExpired(r)
  PROVE  [Promise!Next]_(Promise!vars)
<1>0. UNCHANGED ledger
  BY DEF Propose, Claim, MarkExpired
<1>1. ASSUME NEW t \in Tokens, NEW q \in Quotes, Propose(t, q) PROVE Promise!Next
  <2>0. PICK row : row = [status |-> "pending", quote |-> q, expiresAt |-> clock + TTL,
                          booking |-> NoBooking, final |-> None]
    OBVIOUS
  <2>1. /\ conf' = [conf EXCEPT ![t] = row]
        /\ row.status = "pending" /\ row.final = None
    BY <1>1, <2>0 DEF Propose
  <2>2. conf[t].status = None /\ conf[t].final = None
    BY <1>1 DEF Propose, GateInv, TokenInv, None
  <2>3. /\ \A u \in Tokens \ {t} : SameView(u)
        /\ conf'[t] = row /\ Bought(t)' = Bought(t)
    BY <1>0, <2>1, RowImplements
  <2>4. /\ Phase(t) = "unminted" /\ Phase(t)' = "pending" /\ Verdict(t)' = Verdict(t)
    BY <2>1, <2>2, <2>3 DEF Phase, Verdict, None
  <2>5. QED
    BY <2>3, <2>4, MintStep
<1>2. ASSUME NEW t \in Tokens, conf[t].status = "pending", NEW status \in {"consumed", "expired"},
             conf' = [conf EXCEPT ![t] = [conf[t] EXCEPT !.status = status]]
      PROVE  Promise!Next
  <2>1. /\ \A u \in Tokens \ {t} : SameView(u)
        /\ conf'[t] = [conf[t] EXCEPT !.status = status] /\ Bought(t)' = Bought(t)
    BY <1>0, <1>2, RowImplements
  <2>2. conf'[t].status = status /\ conf'[t].final = conf[t].final
    BY <2>1, HandlerTypes DEF Confirmation
  <2>3. Phase(t) = "pending" /\ Phase(t)' = status /\ Verdict(t)' = Verdict(t)
    BY <1>2, <2>2 DEF Phase, Verdict, None
  <2>4. QED
    BY <2>1, <2>3, LeaveStep
<1>3. ASSUME NEW r \in Redeems, Claim(r) PROVE Promise!Next
  <2>1. PICK t \in Tokens : t = redeem[r].token
    BY <1>3 DEF Claim, Claimable
  <2>2. /\ conf[t].status = "pending"
        /\ conf' = [conf EXCEPT ![t] = [conf[t] EXCEPT !.status = "consumed"]]
    BY <1>3, <2>1 DEF Claim, Claimable, Consumed
  <2>3. QED
    BY <1>2, <2>2
<1>4. ASSUME NEW r \in Redeems, MarkExpired(r) PROVE Promise!Next \/ UNCHANGED Promise!vars
  <2>1. PICK t \in Tokens : t = redeem[r].token
    BY <1>4 DEF MarkExpired, GateInv, HandlerInv
  <2>2. conf' = [conf EXCEPT ![t] = Expired(conf[t])]
    BY <1>4, <2>1 DEF MarkExpired
  <2>3. CASE conf[t].status = "pending"
    BY <1>2, <2>2, <2>3 DEF Expired
  <2>4. CASE conf[t].status # "pending"
    <3>1. UNCHANGED conf
      BY <2>2, <2>4, HandlerTypes DEF Expired
    <3>2. QED
      BY <1>0, <3>1, HandlerTypes, UnchangedLedger, UnseenImplements
  <2>5. QED
    BY <2>3, <2>4
<1>5. QED
  BY <1>1, <1>3, <1>4

\* The outcome is recorded: the one verdict.
LEMMA RecordImplements ==
  ASSUME GateInv, GateInv', CleanInv, NEW r \in Redeems, Record(r) \/ RecordFailure(r)
  PROVE  Promise!Next
<1>1. redeem[r].pc \in {"record", "recordFailure"} /\ redeem[r].pc \in Executing /\ UNCHANGED ledger
  BY DEF Record, RecordFailure, Executing
<1>2. PICK t \in Tokens, b \in Bookings \cup {NoBooking}, n \in 0 .. MaxConfirmAttempts,
           said \in {"CONFIRMED", "HELD", "CANCELLED", "UNKNOWN", "QUOTE_UNAVAILABLE",
                     "EXECUTION_FAILED", "INTERNAL_ERROR"} :
        /\ t = redeem[r].token /\ b = redeem[r].booking /\ n = redeem[r].attempt
        /\ said = redeem[r].said
        /\ redeem[r].pc = "record" =>
             Truthful(t, b, said) /\ said \in {"CONFIRMED", "HELD", "CANCELLED", "UNKNOWN"}
        /\ redeem[r].pc = "recordFailure" =>
             said \in {"QUOTE_UNAVAILABLE", "EXECUTION_FAILED", "INTERNAL_ERROR"}
        /\ said = "QUOTE_UNAVAILABLE" => Unbuyable(t)
  BY <1>1, RecorderFacts
<1>3. conf[t].status = "consumed" /\ conf[t].final = None
  BY <1>1, <1>2, ExecutorFacts DEF CleanInv, Unsettled
<1>4. PICK v \in FinalStatus, c \in Bookings \cup {NoBooking} :
        /\ conf' = [conf EXCEPT ![t] = Recorded(t, c, v)]
        /\ v = "QUOTE_UNAVAILABLE" => Unbuyable(t)
        /\ v \in {"CONFIRMED", "HELD", "CANCELLED", "UNKNOWN"} => b \in BookedUnder(t)
  <2>1. CASE Record(r)
    <3>1. /\ conf' = [conf EXCEPT ![t] = Recorded(t, b, said)] /\ said \in FinalStatus
          /\ said # "QUOTE_UNAVAILABLE" /\ b \in BookedUnder(t)
      BY <1>2, <2>1 DEF Record, Recorded, FinalStatus, Truthful
    <3>2. QED
      BY <3>1
  <2>2. CASE RecordFailure(r)
    <3>1. /\ conf' = [conf EXCEPT ![t] = Recorded(t, NoBooking, FailureStatus(said))]
          /\ FailureStatus(said) \in {"QUOTE_UNAVAILABLE", "EXECUTION_FAILED"}
          /\ FailureStatus(said) = "QUOTE_UNAVAILABLE" => said = "QUOTE_UNAVAILABLE"
      BY <1>2, <2>2 DEF RecordFailure, Recorded, FailureStatus
    <3>2. PICK v \in {"QUOTE_UNAVAILABLE", "EXECUTION_FAILED"} : v = FailureStatus(said)
      BY <3>1
    <3>3. v \in FinalStatus
      BY DEF FinalStatus
    <3>4. QED
      BY <1>2, <3>1, <3>2, <3>3
  <2>3. QED
    BY <2>1, <2>2
<1>5. /\ \A u \in Tokens \ {t} : SameView(u)
      /\ conf'[t] = Recorded(t, c, v) /\ Bought(t)' = Bought(t)
  BY <1>1, <1>4, RowImplements
<1>6. conf'[t].status = "consumed" /\ conf'[t].final = v
  BY <1>3, <1>5, HandlerTypes DEF Recorded, Confirmation
<1>7. /\ Phase(t) = "consumed" /\ Phase(t)' = "consumed" /\ Verdict(t) = "none" /\ Verdict(t)' = v
  BY <1>3, <1>6 DEF Phase, Verdict, None, FinalStatus
<1>8. /\ v = "QUOTE_UNAVAILABLE" => Bought(t) = NoBooking
      /\ v \in {"CONFIRMED", "HELD", "CANCELLED", "UNKNOWN"} => Bought(t) # NoBooking
  <2>1. Unbuyable(t) => BookedUnder(t) = {}
    BY DEF Unbuyable, Unbought
  <2>2. b \in BookedUnder(t) => b # NoBooking
    BY GateConstants DEF BookedUnder
  <2>3. QED
    BY <1>4, <2>1, <2>2, BoughtFacts DEF BoughtIsBooked
<1>9. QED
  BY <1>5, <1>7, <1>8, SettleStep

LEMMA StepImplements ==
  ASSUME "store" \notin Faults
  PROVE  GateInv /\ GateInv' /\ CleanInv /\ [Next]_vars => [Promise!Next]_(Promise!vars)
<1> SUFFICES ASSUME GateInv, GateInv', CleanInv, [Next]_vars
             PROVE  [Promise!Next]_(Promise!vars)
  OBVIOUS
<1>1. ASSUME UNCHANGED <<ledger, conf>> PROVE UNCHANGED Promise!vars
  BY <1>1, HandlerTypes, UnchangedLedger, UnseenImplements
<1>2. ASSUME NEW r \in Redeems, Step(r) PROVE [Promise!Next]_(Promise!vars)
  <2>1. ~ StoreFails(r) /\ ~ RecordFails(r) /\ ~ RecordFailureFails(r)
    BY DEF StoreFails, RecordFails, RecordFailureFails
  <2>2. CASE LoseClaim(r) \/ Find(r) \/ CreateRefused(r) \/ ConfirmRefused(r) \/ Read(r)
               \/ LastRead(r) \/ ReadFails(r)
    BY <1>1, <2>2 DEF LoseClaim, Find, CreateRefused, ConfirmRefused, Read, LastRead, ReadFails
  <2>3. QED
    BY <1>2, <2>1, <2>2, LifeImplements, CreateImplements, ConfirmImplements, RecordImplements
       DEF Step
<1>3. ASSUME NEW r \in Redeems, NEW t \in Tokens \cup {NoToken}, Redeem(r, t)
      PROVE  UNCHANGED Promise!vars
  BY <1>1, <1>3 DEF Redeem
<1>4. QED
  BY <1>2, <1>3, LifeImplements, LandImplements, OutsideImplements DEF Next

\* One approval, at most one booking and one verdict per token: with a store
\* that does not fail, the gate implements the promise.
THEOREM GateImplementsPromise ==
  ASSUME "store" \notin Faults
  PROVE  Spec => ImplementsPromise
<1>1. Init => Promise!Init
  <2> SUFFICES ASSUME Init PROVE Promise!Init
    OBVIOUS
  <2>1. \A t \in Tokens : conf[t].status = None /\ conf[t].final = None /\ BookedUnder(t) = {}
    BY SameTables, GateConstants DEF Init, Unminted, Ledger!Init, Ledger!NoRow, BookedUnder
  <2>2. \A t \in Tokens : Phase(t) = "unminted" /\ Verdict(t) = "none" /\ Bought(t) = NoBooking
    BY <2>1 DEF Phase, Verdict, Bought, None
  <2>3. QED
    BY <2>2 DEF Promise!Init
<1>2. QED
  BY <1>1, CleanInvariant, StepImplements, PTL DEF Spec, ImplementsPromise, Promise!Spec


-------------------------------------------------------------------------------
(* What has been told stays true: the lemmas the card's proofs rest on.     *)

\* A step books for a user, or for a token whose create is still on its way.
MayBook(k) == k \in UserKeys \/ LateCreate(k) \in late \/ \E r \in Redeems : Creates(r, k)

LEMMA LedgerSteps ==
  ASSUME GateInv, [Next]_vars
  PROVE  \/ UNCHANGED ledger
         \/ \E q \in Quotes : Ledger!CreateQuote(q) \/ Ledger!HoldQuote(q)
         \/ \E b \in Bookings, q \in Quotes, k \in Tokens \cup UserKeys :
              MayBook(k) /\ Ledger!Book(b, q, k)
         \/ \E b \in Bookings, to \in {"CONFIRMED", "CANCELLED"} : Ledger!Transition(b, to)
<1> DEFINE Goal == \/ UNCHANGED ledger
                   \/ \E q \in Quotes : Ledger!CreateQuote(q) \/ Ledger!HoldQuote(q)
                   \/ \E b \in Bookings, q \in Quotes, k \in Tokens \cup UserKeys :
                        MayBook(k) /\ Ledger!Book(b, q, k)
                   \/ \E b \in Bookings, to \in {"CONFIRMED", "CANCELLED"} : Ledger!Transition(b, to)
<1>1. ASSUME NEW r \in Redeems, redeem[r].pc = "create",
             \E b \in Bookings : Ledger!Book(b, conf[redeem[r].token].quote, redeem[r].token)
      PROVE  Goal
  <2>1. redeem[r].pc \in Executing
    BY <1>1 DEF Executing
  <2>2. PICK t \in Tokens : t = redeem[r].token
    BY <2>1, ExecutorFacts
  <2>3. PICK q \in Quotes : q = conf[t].quote
    BY <2>1, <2>2, ExecutorFacts
  <2>4. PICK b \in Bookings : Ledger!Book(b, q, t)
    BY <1>1, <2>2, <2>3 DEF Ledger!Book, Ledger!BookedRow, Ledger!Exists
  <2>5. MayBook(t)
    BY <1>1, <2>2 DEF MayBook, Creates
  <2>6. QED
    BY <2>4, <2>5
<1>2. ASSUME NEW r \in Redeems, redeem[r].pc = "confirm",
             Ledger!Transition(redeem[r].booking, "CONFIRMED")
      PROVE  Goal
  <2>1. PICK b \in Bookings : b = redeem[r].booking
    BY <1>2 DEF GateInv, HandlerInv, BookedUnder
  <2>2. Ledger!Transition(b, "CONFIRMED")
    BY <1>2, <2>1
  <2>3. QED
    BY <2>2
<1>3. ASSUME NEW r \in Redeems, Step(r) PROVE Goal
  <2>1. CASE CreateBooks(r)
    BY <1>1, <2>1 DEF CreateBooks
  <2>2. CASE CreateFails(r)
    BY <1>1, <2>2 DEF CreateFails
  <2>3. CASE Confirm(r)
    BY <1>2, <2>3 DEF Confirm
  <2>4. CASE ConfirmFails(r)
    BY <1>2, <2>4 DEF ConfirmFails
  <2>5. CASE Claim(r) \/ LoseClaim(r) \/ Find(r) \/ MarkExpired(r) \/ StoreFails(r)
    BY <2>5 DEF Claim, LoseClaim, Find, MarkExpired, StoreFails
  <2>6. CASE CreateRefused(r) \/ ConfirmRefused(r) \/ Read(r) \/ LastRead(r) \/ ReadFails(r)
    BY <2>6 DEF CreateRefused, ConfirmRefused, Read, LastRead, ReadFails
  <2>7. CASE Record(r) \/ RecordFails(r) \/ RecordFailure(r) \/ RecordFailureFails(r)
    BY <2>7 DEF Record, RecordFails, RecordFailure, RecordFailureFails
  <2>8. QED
    BY <1>3, <2>1, <2>2, <2>3, <2>4, <2>5, <2>6, <2>7 DEF Step
<1>4. ASSUME NEW call \in late, Land(call) PROVE Goal
  <2>0. call \in Call
    BY HandlerTypes
  <2>1. CASE call.op = "create" /\ \E b \in Bookings : Ledger!Book(b, conf[call.token].quote, call.token)
    <3>1. PICK t \in Tokens : call = LateCreate(t) /\ call.token = t
      BY <2>0, <2>1 DEF Call, LateCreate
    <3>2. conf[t].quote \in Quotes
      BY <3>1 DEF GateInv, TokenInv, Unbought, None
    <3>3. PICK q \in Quotes : q = conf[t].quote
      BY <3>2
    <3>4. PICK b \in Bookings : Ledger!Book(b, q, t)
      BY <2>1, <3>1, <3>3, ZenonT(30) DEF Ledger!Book, Ledger!BookedRow, Ledger!Exists
    <3>5. MayBook(t)
      BY <3>1 DEF MayBook
    <3>6. QED
      BY <3>4, <3>5
  <2>2. CASE call.op = "confirm" /\ Ledger!Transition(call.booking, "CONFIRMED")
    <3>1. PICK b \in Bookings : b = call.booking
      BY <2>0, <2>2 DEF Call
    <3>2. Ledger!Transition(b, "CONFIRMED")
      BY <2>2, <3>1
    <3>3. QED
      BY <3>2
  <2>3. QED
    BY <1>4, <2>1, <2>2 DEF Land
<1>5. CASE Users
  BY <1>5 DEF Users, MayBook
<1>6. CASE Tick \/ Crash \/ UNCHANGED vars
  BY <1>6 DEF Tick, Crash, vars, ledger
<1>7. ASSUME NEW t \in Tokens, NEW q \in Quotes, Propose(t, q) PROVE Goal
  BY <1>7 DEF Propose
<1>8. ASSUME NEW r \in Redeems, NEW t \in Tokens \cup {NoToken}, Redeem(r, t) PROVE Goal
  BY <1>8 DEF Redeem
<1>9. QED
  BY <1>3, <1>4, <1>5, <1>6, <1>7, <1>8 DEF Next

\* The ledger goes forward, and buys nothing under a token that is unbuyable.
LEMMA NextGoesForward ==
  ASSUME GateInv, [Next]_vars
  PROVE  Forward /\ \A t \in Tokens : Unbuyable(t) => SameBought(t)
<1>1. CASE UNCHANGED ledger
  BY <1>1, HandlerTypes, UnchangedLedger
<1>2. ASSUME NEW q \in Quotes, Ledger!CreateQuote(q) \/ Ledger!HoldQuote(q)
      PROVE  Forward /\ \A t \in Tokens : SameBought(t)
  BY <1>2, HandlerTypes, QuoteEffect
<1>3. ASSUME NEW b \in Bookings, NEW q \in Quotes, NEW k \in Tokens \cup UserKeys,
             MayBook(k), Ledger!Book(b, q, k)
      PROVE  Forward /\ \A t \in Tokens : Unbuyable(t) => SameBought(t)
  <2>1. Forward /\ \A t \in Tokens \ {k} : SameBought(t)
    BY <1>3, HandlerTypes, BookEffect
  <2>2. k \in Tokens => ~ Unbuyable(k)
    BY <1>3, GateConstants DEF MayBook, Unbuyable, Unbought
  <2>3. QED
    BY <2>1, <2>2
<1>4. ASSUME NEW b \in Bookings, NEW to \in {"CONFIRMED", "CANCELLED"}, Ledger!Transition(b, to)
      PROVE  Forward /\ \A t \in Tokens : SameBought(t)
  BY <1>4, HandlerTypes, TransitionEffect
<1>5. QED
  BY <1>1, <1>2, <1>3, <1>4, LedgerSteps


\* Claims stay, and a create that was neither to be sent nor under way will
\* not be: only the claim of a pending token starts one.
LEMMA NextKeepsClaims ==
  ASSUME GateInv, [Next]_vars, NEW t \in Tokens, conf[t].status = "consumed"
  PROVE  /\ conf'[t].status = "consumed"
         /\ \A r \in Redeems : Creates(r, t)' => Creates(r, t)
         /\ LateCreate(t) \in late' => LateCreate(t) \in late \/ \E r \in Redeems : Creates(r, t)
<1> DEFINE Goal == /\ conf'[t].status = "consumed"
                   /\ \A r \in Redeems : Creates(r, t)' => Creates(r, t)
                   /\ LateCreate(t) \in late' =>
                        LateCreate(t) \in late \/ \E r \in Redeems : Creates(r, t)
<1>0. redeem \in [Redeems -> Handler] /\ conf \in [Tokens -> Confirmation]
  BY HandlerTypes
<1>1. ASSUME NEW r \in Redeems, NEW pc, NEW b, NEW n, NEW said, Goto(r, pc, b, n, said),
             pc # "create"
      PROVE  \A s \in Redeems : Creates(s, t)' => Creates(s, t)
  BY <1>0, <1>1 DEF Goto, Creates
<1>2. ASSUME NEW r \in Redeems, Step(r) PROVE Goal
  <2>1. CASE Claim(r)
    <3>1. redeem[r].token # t /\ UNCHANGED late
      BY <2>1 DEF Claim, Claimable
    <3>2. conf'[t] = conf[t]
      BY <1>0, <2>1, <3>1 DEF Claim
    <3>3. \A s \in Redeems : Creates(s, t)' => Creates(s, t)
      BY <1>0, <2>1, <3>1 DEF Claim, Goto, Creates
    <3>4. QED
      BY <3>1, <3>2, <3>3
  <2>2. CASE LoseClaim(r) \/ Find(r) \/ CreateRefused(r) \/ Confirm(r) \/ ConfirmRefused(r)
             \/ Read(r) \/ LastRead(r) \/ ReadFails(r)
    <3>1. UNCHANGED <<conf, late>>
      BY <2>2 DEF LoseClaim, Find, CreateRefused, Confirm, ConfirmRefused, Read, LastRead, ReadFails
    <3>2. \A s \in Redeems : Creates(s, t)' => Creates(s, t)
      BY <1>0, <2>2 DEF LoseClaim, Find, CreateRefused, Confirm, ConfirmRefused, Read, LastRead,
         ReadFails, Answer, Goto, Creates
    <3>3. QED
      BY <3>1, <3>2
  <2>3. CASE MarkExpired(r) \/ StoreFails(r)
    <3>1. UNCHANGED late /\ \A s \in Redeems : Creates(s, t)' => Creates(s, t)
      BY <1>0, <2>3 DEF MarkExpired, StoreFails, Answer, Goto, Creates
    <3>2. conf'[t].status = "consumed"
      BY <1>0, <2>3 DEF MarkExpired, StoreFails, StoredOrNot, Consumed, Expired, Claimable, Confirmation
    <3>3. QED
      BY <3>1, <3>2
  <2>4. CASE CreateBooks(r) \/ CreateFails(r)
    <3>1. UNCHANGED conf /\ \A s \in Redeems : Creates(s, t)' => Creates(s, t)
      BY <1>0, <2>4 DEF CreateBooks, CreateFails, Goto, Creates
    <3>2. LateCreate(t) \in late' => LateCreate(t) \in late \/ Creates(r, t)
      BY <2>4 DEF CreateBooks, CreateFails, LateCreate, Creates
    <3>3. QED
      BY <3>1, <3>2
  <2>5. CASE ConfirmFails(r)
    <3>1. UNCHANGED conf /\ \A s \in Redeems : Creates(s, t)' => Creates(s, t)
      BY <1>0, <2>5 DEF ConfirmFails, Goto, Creates
    <3>2. LateCreate(t) \in late' => LateCreate(t) \in late
      BY <2>5 DEF ConfirmFails, LateCreate
    <3>3. QED
      BY <3>1, <3>2
  <2>6. CASE Record(r) \/ RecordFails(r) \/ RecordFailure(r) \/ RecordFailureFails(r)
    <3>1. UNCHANGED late /\ \A s \in Redeems : Creates(s, t)' => Creates(s, t)
      BY <1>0, <2>6 DEF Record, RecordFails, RecordFailure, RecordFailureFails, Answer, Goto, Creates
    <3>2. PICK b, final : conf' \in {conf, [conf EXCEPT ![redeem[r].token] =
                                           Recorded(redeem[r].token, b, final)]}
      <4>1. CASE Record(r)
        BY <4>1 DEF Record
      <4>2. CASE RecordFails(r)
        BY <4>2 DEF RecordFails, StoredOrNot
      <4>3. CASE RecordFailure(r)
        BY <4>3 DEF RecordFailure
      <4>4. CASE RecordFailureFails(r)
        BY <4>4 DEF RecordFailureFails, StoredOrNot
      <4>5. QED
        BY <2>6, <4>1, <4>2, <4>3, <4>4
    <3>3. Recorded(t, b, final).status = "consumed"
      BY <1>0 DEF Recorded, Confirmation
    <3>4. conf'[t].status = "consumed"
      BY <1>0, <3>2, <3>3
    <3>5. QED
      BY <3>1, <3>4
  <2>7. QED
    BY <1>2, <2>1, <2>2, <2>3, <2>4, <2>5, <2>6 DEF Step
<1>3. ASSUME NEW u \in Tokens, NEW q \in Quotes, Propose(u, q) PROVE Goal
  BY <1>0, <1>3 DEF Propose, Creates, LateCreate, None
<1>4. ASSUME NEW r \in Redeems, NEW u \in Tokens \cup {NoToken}, Redeem(r, u) PROVE Goal
  BY <1>0, <1>4 DEF Redeem, Creates, LateCreate
<1>5. ASSUME NEW call \in late, Land(call) PROVE Goal
  BY <1>5 DEF Land, Creates, LateCreate
<1>6. CASE Crash
  <2>1. /\ UNCHANGED conf /\ late' = late \cup InFlight
        /\ \A s \in Redeems : redeem'[s] = redeem[s] \/ redeem'[s].pc = "lost"
    BY <1>0, <1>6 DEF Crash
  <2>2. \A s \in Redeems : Creates(s, t)' => Creates(s, t)
    BY <2>1 DEF Creates
  <2>3. LateCreate(t) \in InFlight => \E r \in Redeems : Creates(r, t)
    BY DEF LateCreate, InFlight, Creates
  <2>4. LateCreate(t)' = LateCreate(t)
    BY DEF LateCreate
  <2>5. QED
    BY <2>1, <2>2, <2>3, <2>4
<1>7. CASE Users \/ Tick \/ UNCHANGED vars
  BY <1>7 DEF Users, Tick, vars, Creates, LateCreate
<1>8. QED
  BY <1>2, <1>3, <1>4, <1>5, <1>6, <1>7 DEF Next

LEMMA NextIsOnward ==
  ASSUME GateInv, [Next]_vars
  PROVE  \A t \in Tokens : Onward(t)
<1> SUFFICES ASSUME NEW t \in Tokens, conf[t].status = "consumed"
             PROVE  conf'[t].status = "consumed" /\ (Unbuyable(t) => Unbuyable(t)')
  BY DEF Onward
<1>1. Unbuyable(t) => BookedUnder(t)' = {}
  BY NextGoesForward DEF SameBought, Unbuyable, Unbought
<1>2. Unbuyable(t) => LateCreate(t)' \notin late' /\ \A r \in Redeems : ~ Creates(r, t)'
  BY NextKeepsClaims DEF Unbuyable, Unbought, LateCreate
<1>3. QED
  BY <1>1, <1>2, NextKeepsClaims DEF Unbuyable, Unbought

\* An outcome once recorded is never overwritten.
LEMMA OutcomesStand ==
  ASSUME "store" \notin Faults, GateInv, CleanInv, [Next]_vars,
         NEW t \in Tokens, conf[t].final # None
  PROVE  conf'[t].final = conf[t].final
<1>0. /\ redeem \in [Redeems -> Handler] /\ conf \in [Tokens -> Confirmation]
      /\ conf[t].status = "consumed"
  BY HandlerTypes DEF GateInv, TokenInv
<1>1. ASSUME NEW r \in Redeems, Record(r) \/ RecordFailure(r) PROVE conf'[t] = conf[t]
  <2>1. redeem[r].pc \in Executing
    BY <1>1 DEF Record, RecordFailure, Executing
  <2>2. redeem[r].token # t
    BY <2>1 DEF CleanInv, Unsettled
  <2>3. QED
    BY <1>0, <1>1, <2>2 DEF Record, RecordFailure
<1>2. ASSUME NEW r \in Redeems, Claim(r) \/ MarkExpired(r) PROVE conf'[t].final = conf[t].final
  BY <1>0, <1>2 DEF Claim, MarkExpired, Claimable, Consumed, Expired
<1>3. ASSUME NEW r \in Redeems, Step(r) PROVE conf'[t].final = conf[t].final
  BY <1>1, <1>2, <1>3 DEF Step, LoseClaim, Find, StoreFails, CreateBooks, CreateRefused, CreateFails,
     Confirm, ConfirmRefused, ConfirmFails, Read, LastRead, ReadFails, RecordFails, RecordFailureFails
<1>4. ASSUME NEW u \in Tokens, NEW q \in Quotes, Propose(u, q) PROVE conf'[t] = conf[t]
  BY <1>0, <1>4 DEF Propose, None
<1>5. QED
  BY <1>3, <1>4 DEF Next, Redeem, Land, Crash, Users, Tick, vars

===============================================================================
