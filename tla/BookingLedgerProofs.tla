--------------------------- MODULE BookingLedgerProofs ---------------------------
(***************************************************************************)
(* Proofs about BookingLedger, for any sets of quotes, keys and bookings.  *)
(***************************************************************************)
EXTENDS BookingLedger, TLAPS

\* The booking table leads from statuses to statuses, never back to None, and
\* has the two edges a birth uses; the quote table has the edge a hold uses.
LEMMA TableFacts ==
  /\ None \notin BookingStatus /\ None \notin QuoteStatus
  /\ InitialStatus \in BookingStatus /\ "HELD" \in BookingStatus
  /\ CanTransition(None, InitialStatus) /\ CanTransition(InitialStatus, "HELD")
  /\ \A from \in BookingStatus : IsTerminal(from) => \A to : ~ CanTransition(from, to)
  BY DEF BookingStatus, QuoteStatus, None, InitialStatus, CanTransition, Transitions, IsTerminal

\* Every step of the ledger keeps the shape of the tables.
LEMMA TypeOKStep == TypeOK /\ [Next]_vars => TypeOK'
<1> SUFFICES ASSUME TypeOK, [Next]_vars PROVE TypeOK'
  OBVIOUS
<1>1. ASSUME NEW q \in Quotes, CreateQuote(q) PROVE TypeOK'
  BY <1>1 DEF TypeOK, CreateQuote, QuoteStatus
<1>2. ASSUME NEW q \in Quotes, HoldQuote(q) PROVE TypeOK'
  BY <1>2 DEF TypeOK, HoldQuote, QuoteStatus
<1>3. ASSUME NEW b \in Bookings, NEW q \in Quotes, NEW k \in Keys, Book(b, q, k)
      PROVE TypeOK'
  <2>1. BookedRow(q, k) \in Row
    BY DEF BookedRow, Row, BookingStatus
  <2>2. BirthEvents \in Seq(Event)
    BY TableFacts DEF BirthEvents, Event
  <2>3. QED
    BY <1>3, <2>1, <2>2 DEF TypeOK, Book, QuoteStatus
<1>4. ASSUME NEW b \in Bookings, NEW to \in {"CONFIRMED", "CANCELLED"}, Transition(b, to)
      PROVE TypeOK'
  <2>1. to \in BookingStatus
    BY <1>4 DEF BookingStatus
  <2>2. [from |-> bookings[b].status, to |-> to] \in Event
    BY <2>1 DEF TypeOK, Event, Row
  <2>3. log' \in [Bookings -> Seq(Event)]
    BY <1>4, <2>2 DEF TypeOK, Transition
  <2>4. bookings' \in [Bookings -> Row]
    <3>1. Moved(bookings[b], to) \in Row
      BY <2>1 DEF TypeOK, Moved, Row
    <3>2. QED
      BY <1>4, <3>1 DEF TypeOK, Transition
  <2>5. QED
    BY <1>4, <2>3, <2>4 DEF TypeOK, Transition
<1>5. CASE UNCHANGED vars
  BY <1>5 DEF TypeOK, vars
<1>6. QED
  BY <1>1, <1>2, <1>3, <1>4, <1>5 DEF Next

\* The three tables always have their shape.
THEOREM TypeCorrect == Spec => []TypeOK
<1>1. Init => TypeOK
  BY DEF Init, TypeOK, NoRow, Row, Event
<1>2. QED
  BY <1>1, TypeOKStep, PTL DEF Spec

-------------------------------------------------------------------------------

\* A row is either absent altogether or names a quote and a key.
RowShape ==
  \A b \in Bookings :
    IF Exists(b)
      THEN bookings[b].quote \in Quotes /\ bookings[b].key \in Keys
      ELSE bookings[b] = NoRow

\* The invariant that a step preserves: QuoteSoldOnce alone is not inductive,
\* it needs to know that a quote still HELD has no booking (ConsumedIffBooked).
TablesAgree ==
  TypeOK /\ RowShape /\ QuoteSoldOnce /\ KeyNamesOneBooking /\ ConsumedIffBooked

LEMMA TablesAgreeInit == Init => TablesAgree
<1> SUFFICES ASSUME Init PROVE TablesAgree
  OBVIOUS
<1>1. TypeOK
  BY DEF Init, TypeOK, NoRow, Row, Event
<1>2. \A b \in Bookings : bookings[b] = NoRow /\ ~ Exists(b)
  BY DEF Init, Exists, NoRow
<1>3. RowShape /\ QuoteSoldOnce /\ KeyNamesOneBooking
  BY <1>2 DEF RowShape, QuoteSoldOnce, KeyNamesOneBooking
<1>4. ConsumedIffBooked
  <2>1. \A b \in Bookings : bookings[b].quote = NoQuote
    BY <1>2 DEF NoRow
  <2>2. \A q \in Quotes : quotes[q] # "CONSUMED" /\ q # NoQuote
    BY LedgerConstants DEF Init, None
  <2>3. QED
    BY <2>1, <2>2 DEF ConsumedIffBooked
<1>5. QED
  BY <1>1, <1>3, <1>4 DEF TablesAgree

\* Booking a HELD quote under a fresh key keeps the tables in agreement.
LEMMA BookKeepsAgreement ==
  ASSUME TablesAgree, TypeOK',
         NEW b \in Bookings, NEW q \in Quotes, NEW k \in Keys, Book(b, q, k)
  PROVE  TablesAgree'
<1>1. bookings'[b] = BookedRow(q, k) /\ Exists(b)'
  BY TableFacts DEF Book, BookedRow, Exists, TablesAgree, TypeOK
<1>2. \A c \in Bookings \ {b} : bookings'[c] = bookings[c] /\ (Exists(c)' <=> Exists(c))
  BY DEF Book, Exists, TablesAgree, TypeOK
<1>3. \A c \in Bookings : bookings[c].quote # q
  BY DEF Book, TablesAgree, ConsumedIffBooked
<1>4. \A c \in Bookings : bookings[c].key # k
  BY DEF Book
<1>5. bookings'[b].quote = q /\ bookings'[b].key = k
  BY <1>1 DEF BookedRow
<1>6. RowShape'
  BY <1>1, <1>2, <1>5 DEF RowShape, TablesAgree
<1>7. QuoteSoldOnce'
  BY <1>2, <1>3, <1>5 DEF QuoteSoldOnce, TablesAgree
<1>8. KeyNamesOneBooking'
  BY <1>2, <1>4, <1>5 DEF KeyNamesOneBooking, TablesAgree
<1>9. ConsumedIffBooked'
  <2> SUFFICES ASSUME NEW p \in Quotes
               PROVE  quotes'[p] = "CONSUMED" <=> \E c \in Bookings : bookings'[c].quote = p
    BY DEF ConsumedIffBooked
  <2>1. CASE p = q
    BY <2>1, <1>5 DEF Book, TablesAgree, TypeOK
  <2>2. CASE p # q
    <3>1. quotes'[p] = quotes[p]
      BY <2>2 DEF Book, TablesAgree, TypeOK
    <3>2. bookings[b].quote # p
      BY LedgerConstants DEF Book, TablesAgree, RowShape, NoRow
    <3>3. QED
      BY <2>2, <3>1, <3>2, <1>2, <1>5 DEF TablesAgree, ConsumedIffBooked
  <2>3. QED
    BY <2>1, <2>2
<1>10. QED
  BY <1>6, <1>7, <1>8, <1>9 DEF TablesAgree

\* A transition touches neither the quote nor the key of any booking.
LEMMA TransitionKeepsAgreement ==
  ASSUME TablesAgree, TypeOK',
         NEW b \in Bookings, NEW to \in {"CONFIRMED", "CANCELLED"}, Transition(b, to)
  PROVE  TablesAgree'
<1>1. bookings'[b] = Moved(bookings[b], to) /\ quotes' = quotes
  BY DEF Transition, TablesAgree, TypeOK
<1>2. \A c \in Bookings \ {b} : bookings'[c] = bookings[c]
  BY DEF Transition, TablesAgree, TypeOK
<1>3. \A c \in Bookings : /\ bookings'[c].quote = bookings[c].quote
                          /\ bookings'[c].key = bookings[c].key
                          /\ Exists(c)' <=> Exists(c)
  BY <1>1, <1>2 DEF Moved, Exists, Transition, None
<1>4. RowShape'
  BY <1>2, <1>3 DEF RowShape, TablesAgree, Transition
<1>5. QuoteSoldOnce' /\ KeyNamesOneBooking'
  BY <1>3 DEF QuoteSoldOnce, KeyNamesOneBooking, TablesAgree
<1>6. ConsumedIffBooked'
  BY <1>1, <1>3 DEF ConsumedIffBooked, TablesAgree
<1>7. QED
  BY <1>4, <1>5, <1>6 DEF TablesAgree

\* A step of the quote alone does not disturb the agreement, unless it would
\* make or unmake a CONSUMED quote.
LEMMA QuoteStepKeepsAgreement ==
  ASSUME TablesAgree, TypeOK', UNCHANGED bookings,
         \A q \in Quotes : quotes'[q] = "CONSUMED" <=> quotes[q] = "CONSUMED"
  PROVE  TablesAgree'
  BY DEF TablesAgree, RowShape, QuoteSoldOnce, KeyNamesOneBooking, ConsumedIffBooked, Exists

LEMMA TablesAgreeStep == TablesAgree /\ TypeOK' /\ [Next]_vars => TablesAgree'
<1> SUFFICES ASSUME TablesAgree, TypeOK', [Next]_vars PROVE TablesAgree'
  OBVIOUS
<1>1. ASSUME NEW q \in Quotes, CreateQuote(q) PROVE TablesAgree'
  BY <1>1, QuoteStepKeepsAgreement DEF CreateQuote, TablesAgree, TypeOK, None
<1>2. ASSUME NEW q \in Quotes, HoldQuote(q) PROVE TablesAgree'
  <2>1. quotes[q] # "CONSUMED"
    BY <1>2 DEF HoldQuote, CanMoveQuote, QuoteTransitions, QuoteStatus
  <2>2. QED
    BY <1>2, <2>1, QuoteStepKeepsAgreement DEF HoldQuote, TablesAgree, TypeOK
<1>3. ASSUME NEW b \in Bookings, NEW q \in Quotes, NEW k \in Keys, Book(b, q, k)
      PROVE  TablesAgree'
  BY <1>3, BookKeepsAgreement
<1>4. ASSUME NEW b \in Bookings, NEW to \in {"CONFIRMED", "CANCELLED"}, Transition(b, to)
      PROVE  TablesAgree'
  BY <1>4, TransitionKeepsAgreement
<1>5. CASE UNCHANGED vars
  BY <1>5, QuoteStepKeepsAgreement DEF vars
<1>6. QED
  BY <1>1, <1>2, <1>3, <1>4, <1>5 DEF Next

\* A quote is sold at most once, a key names at most one booking, and a quote
\* is CONSUMED exactly when it was sold.
THEOREM LedgerIsConsistent == Spec => []LedgerConsistent
<1>1. TablesAgree => LedgerConsistent
  BY DEF TablesAgree, LedgerConsistent
<1>2. QED
  BY <1>1, TablesAgreeInit, TablesAgreeStep, TypeCorrect, PTL DEF Spec

-------------------------------------------------------------------------------

\* The two events of a birth explain the row a booking is born with.
LEMMA BirthExplains ==
  ASSUME NEW q \in Quotes, NEW k \in Keys
  PROVE  Explains(BirthEvents, BookedRow(q, k))
<1>1. /\ Len(BirthEvents) = 2
      /\ BirthEvents[1] = [from |-> None, to |-> InitialStatus]
      /\ BirthEvents[2] = [from |-> InitialStatus, to |-> "HELD"]
  BY DEF BirthEvents
<1>2. BookedRow(q, k).status = "HELD" /\ BookedRow(q, k).confirmedAt = FALSE
  BY DEF BookedRow
<1>3. \A i \in 1 .. 2 : CanTransition(BirthEvents[i].from, BirthEvents[i].to)
  BY <1>1, TableFacts
<1>4. QED
  BY <1>1, <1>2, <1>3 DEF Explains, None, InitialStatus

\* One more event and one move of the row keep the log an explanation.
LEMMA AppendExplains ==
  ASSUME NEW events \in Seq(Event), NEW row \in Row, NEW to \in BookingStatus,
         Explains(events, row), row.status # None, CanTransition(row.status, to)
  PROVE  Explains(Append(events, [from |-> row.status, to |-> to]), Moved(row, to))
<1> DEFINE e == [from |-> row.status, to |-> to]
           n == Len(events)
           longer == Append(events, e)
<1>1. /\ n \in Nat /\ n > 0
      /\ Len(longer) = n + 1 /\ longer[n + 1] = e
      /\ \A i \in 1 .. n : longer[i] = events[i]
  BY DEF Explains
<1>2. Moved(row, to).status = to /\ to # None
  BY TableFacts DEF Moved
<1>3. e.from = row.status /\ e.to = to
  OBVIOUS
<1>4. longer[1].from = None
  BY <1>1 DEF Explains
<1>5. \A i \in 1 .. n + 1 : CanTransition(longer[i].from, longer[i].to)
  BY <1>1, <1>3 DEF Explains
<1>6. \A i \in 1 .. n : longer[i + 1].from = longer[i].to
  <2> TAKE i \in 1 .. n
  <2>1. CASE i = n
    BY <2>1, <1>1, <1>3 DEF Explains
  <2>2. CASE i # n
    BY <2>2, <1>1 DEF Explains
  <2>3. QED
    BY <2>1, <2>2
<1>7. Moved(row, to).confirmedAt = TRUE <=> \E i \in 1 .. n + 1 : longer[i].to = "CONFIRMED"
  <2>1. CASE to = "CONFIRMED"
    <3>1. Moved(row, to).confirmedAt = TRUE
      BY <2>1 DEF Moved
    <3>2. QED
      BY <2>1, <3>1, <1>1, <1>3
  <2>2. CASE to # "CONFIRMED"
    <3>1. Moved(row, to).confirmedAt = row.confirmedAt
      BY <2>2 DEF Moved
    <3>2. row.confirmedAt = TRUE <=> \E i \in 1 .. n : events[i].to = "CONFIRMED"
      BY DEF Explains
    <3>3. QED
      BY <2>2, <3>1, <3>2, <1>1, <1>3
  <2>3. QED
    BY <2>1, <2>2
<1>8. QED
  BY <1>1, <1>2, <1>3, <1>4, <1>5, <1>6, <1>7 DEF Explains

LEMMA LogExplainsStatusStep ==
  TypeOK /\ LogExplainsStatus /\ [Next]_vars => LogExplainsStatus'
<1> SUFFICES ASSUME TypeOK, LogExplainsStatus, [Next]_vars PROVE LogExplainsStatus'
  OBVIOUS
<1>1. ASSUME UNCHANGED <<bookings, log>> PROVE LogExplainsStatus'
  BY <1>1 DEF LogExplainsStatus
<1>2. ASSUME NEW b \in Bookings, NEW q \in Quotes, NEW k \in Keys, Book(b, q, k)
      PROVE  LogExplainsStatus'
  <2>1. log'[b] = BirthEvents /\ bookings'[b] = BookedRow(q, k)
    BY <1>2 DEF Book, TypeOK
  <2>2. \A c \in Bookings \ {b} : log'[c] = log[c] /\ bookings'[c] = bookings[c]
    BY <1>2 DEF Book, TypeOK
  <2>3. QED
    BY <2>1, <2>2, BirthExplains DEF LogExplainsStatus
<1>3. ASSUME NEW b \in Bookings, NEW to \in {"CONFIRMED", "CANCELLED"}, Transition(b, to)
      PROVE  LogExplainsStatus'
  <2>1. /\ log'[b] = Append(log[b], [from |-> bookings[b].status, to |-> to])
        /\ bookings'[b] = Moved(bookings[b], to)
    BY <1>3 DEF Transition, TypeOK
  <2>2. \A c \in Bookings \ {b} : log'[c] = log[c] /\ bookings'[c] = bookings[c]
    BY <1>3 DEF Transition, TypeOK
  <2>3. /\ log[b] \in Seq(Event) /\ bookings[b] \in Row /\ to \in BookingStatus
        /\ bookings[b].status # None /\ CanTransition(bookings[b].status, to)
        /\ Explains(log[b], bookings[b])
    BY <1>3 DEF Transition, TypeOK, Exists, BookingStatus, LogExplainsStatus
  <2>4. Explains(log'[b], bookings'[b])
    BY <2>1, <2>3, AppendExplains
  <2>5. QED
    BY <2>2, <2>4 DEF LogExplainsStatus
<1>4. QED
  BY <1>1, <1>2, <1>3 DEF Next, vars, CreateQuote, HoldQuote

\* In every reachable state the event log of each booking is a legal path of
\* the state machine that ends in the booking's status.
THEOREM LogIsTheHistory == Spec => []LogExplainsStatus
<1>1. Init => LogExplainsStatus
  BY DEF Init, LogExplainsStatus, Explains, NoRow
<1>2. QED
  BY <1>1, LogExplainsStatusStep, TypeCorrect, PTL DEF Spec

-------------------------------------------------------------------------------

\* No step rewrites an event, moves a booking to another quote or key, changes
\* a row without an event, leaves a terminal status or frees a spent quote.
THEOREM HistoryIsAppendOnly == Spec => HistoryOnlyGrows
<1> DEFINE Grows(b) ==
      /\ Len(log[b]) <= Len(log'[b])
      /\ \A i \in 1 .. Len(log[b]) : log'[b][i] = log[b][i]
      /\ bookings'[b] # bookings[b] =>
           /\ Len(log[b]) < Len(log'[b])
           /\ Exists(b) => /\ bookings'[b].quote = bookings[b].quote
                           /\ bookings'[b].key = bookings[b].key
                           /\ ~ IsTerminal(bookings[b].status)
    Spent == \A q \in Quotes : quotes[q] = "CONSUMED" => quotes'[q] = "CONSUMED"
<1>1. TypeOK /\ LogExplainsStatus /\ [Next]_vars => (\A b \in Bookings : Grows(b)) /\ Spent
  <2> SUFFICES ASSUME TypeOK, LogExplainsStatus, [Next]_vars
               PROVE  (\A b \in Bookings : Grows(b)) /\ Spent
    OBVIOUS
  <2>1. ASSUME NEW b \in Bookings, log'[b] = log[b], bookings'[b] = bookings[b]
        PROVE  Grows(b)
    BY <2>1 DEF TypeOK
  <2>2. ASSUME NEW q \in Quotes, CreateQuote(q) PROVE Spent
    BY <2>2 DEF CreateQuote, TypeOK, None
  <2>3. ASSUME NEW q \in Quotes, HoldQuote(q) PROVE Spent
    <3>1. quotes[q] # "CONSUMED"
      BY <2>3 DEF HoldQuote, CanMoveQuote, QuoteTransitions, QuoteStatus
    <3>2. QED
      BY <2>3, <3>1 DEF HoldQuote, TypeOK
  <2>4. ASSUME NEW b \in Bookings, NEW q \in Quotes, NEW k \in Keys, Book(b, q, k)
        PROVE  (\A c \in Bookings : Grows(c)) /\ Spent
    <3>1. \A c \in Bookings \ {b} : log'[c] = log[c] /\ bookings'[c] = bookings[c]
      BY <2>4 DEF Book, TypeOK
    <3>2. Len(log[b]) = 0 /\ log'[b] = BirthEvents /\ ~ Exists(b)
      BY <2>4 DEF Book, TypeOK, LogExplainsStatus, Explains, Exists
    <3>3. Len(log'[b]) = 2
      BY <3>2 DEF BirthEvents
    <3>4. Grows(b)
      BY <3>2, <3>3
    <3>5. Spent
      BY <2>4 DEF Book, TypeOK
    <3>6. QED
      BY <3>1, <3>4, <3>5, <2>1
  <2>5. ASSUME NEW b \in Bookings, NEW to \in {"CONFIRMED", "CANCELLED"}, Transition(b, to)
        PROVE  (\A c \in Bookings : Grows(c)) /\ Spent
    <3>1. \A c \in Bookings \ {b} : log'[c] = log[c] /\ bookings'[c] = bookings[c]
      BY <2>5 DEF Transition, TypeOK
    <3>2. /\ log[b] \in Seq(Event)
          /\ log'[b] = Append(log[b], [from |-> bookings[b].status, to |-> to])
          /\ bookings'[b] = Moved(bookings[b], to)
      BY <2>5 DEF Transition, TypeOK
    <3>3. /\ bookings'[b].quote = bookings[b].quote
          /\ bookings'[b].key = bookings[b].key
      BY <3>2 DEF Moved
    <3>4. ~ IsTerminal(bookings[b].status)
      BY <2>5, TableFacts DEF Transition, Exists, TypeOK, Row
    <3>5. Grows(b)
      BY <3>2, <3>3, <3>4
    <3>6. Spent
      BY <2>5 DEF Transition
    <3>7. QED
      BY <3>1, <3>5, <3>6, <2>1
  <2>6. CASE UNCHANGED vars
    BY <2>6, <2>1 DEF vars
  <2>7. QED
    BY <2>1, <2>2, <2>3, <2>4, <2>5, <2>6 DEF Next, CreateQuote, HoldQuote
<1>2. QED
  BY <1>1, TypeCorrect, LogIsTheHistory, PTL DEF Spec, HistoryOnlyGrows

===============================================================================
