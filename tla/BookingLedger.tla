----------------------------- MODULE BookingLedger -----------------------------
(***************************************************************************)
(* What booking-service promises about its three tables, with every        *)
(* request reduced to one indivisible step: the quotes, the bookings with  *)
(* their unique idempotency key, and the append-only event log of each     *)
(* booking.  BookingService shows that the real handlers, interleaved      *)
(* statement by statement, implement this module.                          *)
(***************************************************************************)
EXTENDS Integers, Sequences, BookingLifecycle

CONSTANTS Quotes,     \* quote ids
          Keys,       \* values of the Idempotency-Key header
          Bookings,   \* booking ids
          NoQuote, NoKey

ASSUME LedgerConstants == NoQuote \notin Quotes /\ NoKey \notin Keys

VARIABLES quotes,     \* quotes[q]: status of the quote row, None when absent
          bookings,   \* bookings[b]: the booking row, NoRow when absent
          log         \* log[b]: the events of the booking, in id order

vars == <<quotes, bookings, log>>

Event == [from : BookingStatus \cup {None}, to : BookingStatus]

Row == [quote : Quotes \cup {NoQuote}, key : Keys \cup {NoKey},
        status : BookingStatus \cup {None}, confirmedAt : BOOLEAN]

NoRow == [quote |-> NoQuote, key |-> NoKey, status |-> None, confirmedAt |-> FALSE]

\* A new booking as its transaction leaves it: born QUOTED, moved to HELD,
\* with the event of each.
BookedRow(q, k) == [quote |-> q, key |-> k, status |-> "HELD", confirmedAt |-> FALSE]

BirthEvents ==
  <<[from |-> None, to |-> InitialStatus], [from |-> InitialStatus, to |-> "HELD"]>>

\* The row after applyTransition: confirmed_at is set on CONFIRMED and kept.
Moved(row, to) ==
  [quote |-> row.quote, key |-> row.key, status |-> to,
   confirmedAt |-> IF to = "CONFIRMED" THEN TRUE ELSE row.confirmedAt]

Exists(b) == bookings[b].status # None

Init ==
  /\ quotes = [q \in Quotes |-> None]
  /\ bookings = [b \in Bookings |-> NoRow]
  /\ log = [b \in Bookings |-> <<>>]

-------------------------------------------------------------------------------
(* Seeded defects: steps as a plausible mistake would leave them, used only *)
(* to show that the properties below notice.                               *)

\* The column default is not a value of the enum.
CreateOpenQuote(q) ==
  /\ quotes[q] = None
  /\ quotes' = [quotes EXCEPT ![q] = "OPEN"]
  /\ UNCHANGED <<bookings, log>>

\* The quote is not consumed.
BookWithoutConsuming(b, q, k) ==
  /\ ~ Exists(b) /\ quotes[q] = "HELD" /\ \A c \in Bookings : bookings[c].key # k
  /\ bookings' = [bookings EXCEPT ![b] = BookedRow(q, k)]
  /\ log' = [log EXCEPT ![b] = BirthEvents]
  /\ UNCHANGED quotes

\* idempotency_key is not UNIQUE.
BookWithoutUniqueKey(b, q, k) ==
  /\ ~ Exists(b) /\ quotes[q] = "HELD"
  /\ quotes' = [quotes EXCEPT ![q] = "CONSUMED"]
  /\ bookings' = [bookings EXCEPT ![b] = BookedRow(q, k)]
  /\ log' = [log EXCEPT ![b] = BirthEvents]

\* The status is written without asking the state machine.
UncheckedTransition(b, to) ==
  /\ Exists(b)
  /\ bookings' = [bookings EXCEPT ![b] = Moved(@, to)]
  /\ log' = [log EXCEPT ![b] = Append(@, [from |-> bookings[b].status, to |-> to])]
  /\ UNCHANGED quotes

\* confirmed_at is reset by every later transition.
ForgetfulTransition(b, to) ==
  /\ Exists(b) /\ CanTransition(bookings[b].status, to)
  /\ bookings' = [bookings EXCEPT ![b].status = to, ![b].confirmedAt = to = "CONFIRMED"]
  /\ log' = [log EXCEPT ![b] = Append(@, [from |-> bookings[b].status, to |-> to])]
  /\ UNCHANGED quotes

-------------------------------------------------------------------------------

CreateQuote(q) ==
  /\ quotes[q] = None
  /\ quotes' = [quotes EXCEPT ![q] = "ACTIVE"]
  /\ UNCHANGED <<bookings, log>>

HoldQuote(q) ==
  /\ quotes[q] \in QuoteStatus
  /\ CanMoveQuote(quotes[q], "HELD")
  /\ quotes' = [quotes EXCEPT ![q] = "HELD"]
  /\ UNCHANGED <<bookings, log>>

\* The row is born QUOTED and moved to HELD in the same transaction, so the
\* row appears HELD with both events, and its quote is spent.
Book(b, q, k) ==
  /\ ~ Exists(b)
  /\ quotes[q] = "HELD"
  /\ \A c \in Bookings : bookings[c].key # k
  /\ quotes' = [quotes EXCEPT ![q] = "CONSUMED"]
  /\ bookings' = [bookings EXCEPT ![b] = BookedRow(q, k)]
  /\ log' = [log EXCEPT ![b] = BirthEvents]

\* confirm and cancel are the only transitions of an existing booking that
\* the service has a route for.
Transition(b, to) ==
  /\ Exists(b)
  /\ CanTransition(bookings[b].status, to)
  /\ bookings' = [bookings EXCEPT ![b] = Moved(@, to)]
  /\ log' = [log EXCEPT ![b] = Append(@, [from |-> bookings[b].status, to |-> to])]
  /\ UNCHANGED quotes

Next ==
  \/ \E q \in Quotes : CreateQuote(q) \/ HoldQuote(q)
  \/ \E b \in Bookings, q \in Quotes, k \in Keys : Book(b, q, k)
  \/ \E b \in Bookings, to \in {"CONFIRMED", "CANCELLED"} : Transition(b, to)

Spec == Init /\ [][Next]_vars

-------------------------------------------------------------------------------

\* Every row and every event has the shape of its table (db/schema.ts).
TypeOK ==
  /\ quotes \in [Quotes -> QuoteStatus \cup {None}]
  /\ bookings \in [Bookings -> Row]
  /\ log \in [Bookings -> Seq(Event)]

\* No two bookings sell the same quote.  There is no UNIQUE on
\* bookings.quote_id: the quote's status is what prevents it.
QuoteSoldOnce ==
  \A b, c \in Bookings :
    Exists(b) /\ bookings[b].quote = bookings[c].quote => b = c

\* An idempotency key names at most one booking, so a replayed create has one
\* original to return.
KeyNamesOneBooking ==
  \A b, c \in Bookings :
    Exists(b) /\ bookings[b].key = bookings[c].key => b = c

\* A quote is CONSUMED exactly when some booking was made from it: consuming
\* the quote and inserting the booking never come apart.
ConsumedIffBooked ==
  \A q \in Quotes :
    quotes[q] = "CONSUMED" <=> \E b \in Bookings : bookings[b].quote = q

\* The three tables agree: no quote is sold twice, no key names two bookings,
\* and a quote is spent exactly when it was sold.
LedgerConsistent == QuoteSoldOnce /\ KeyNamesOneBooking /\ ConsumedIffBooked

\* The events lead from birth to the status of the row along the table, and
\* confirmed_at is set exactly when they went through CONFIRMED.
Explains(events, row) ==
  /\ row.status = None <=> Len(events) = 0
  /\ Len(events) > 0 => events[1].from = None /\ events[Len(events)].to = row.status
  /\ \A i \in 1 .. Len(events) : CanTransition(events[i].from, events[i].to)
  /\ \A i \in 1 .. Len(events) - 1 : events[i + 1].from = events[i].to
  /\ row.confirmedAt = TRUE <=> \E i \in 1 .. Len(events) : events[i].to = "CONFIRMED"

\* The event log is a legal path of the state machine from birth to the
\* status stored in the row: replaying it gives the row.
LogExplainsStatus == \A b \in Bookings : Explains(log[b], bookings[b])

\* No step rewrites the past: events are only appended, a booking keeps its
\* quote and key, its status never leaves a terminal state and never changes
\* without an event, and a spent quote stays spent.
HistoryOnlyGrows ==
  [][/\ \A b \in Bookings :
          /\ Len(log[b]) <= Len(log'[b])
          /\ \A i \in 1 .. Len(log[b]) : log'[b][i] = log[b][i]
          /\ bookings'[b] # bookings[b] =>
               /\ Len(log[b]) < Len(log'[b])
               /\ Exists(b) => /\ bookings'[b].quote = bookings[b].quote
                               /\ bookings'[b].key = bookings[b].key
                               /\ ~ IsTerminal(bookings[b].status)
     /\ \A q \in Quotes : quotes[q] = "CONSUMED" => quotes'[q] = "CONSUMED"]_vars

===============================================================================
