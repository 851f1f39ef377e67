----------------------------- MODULE RatesPageProofs -----------------------------
(***************************************************************************)
(* Proofs about RatesPage, for any rate cards, shipments, quotes, bookings *)
(* and bounds.  The first part is about the page and does not look into    *)
(* what rates-service computes, only that it is the same price for the     *)
(* same card and shipment.  The second part, from the induction on, is     *)
(* about Pricing: sums, longs, rounding, and that every price is sound.    *)
(***************************************************************************)
EXTENDS RatesPage, BookingLedgerProofs, WellFoundedInduction

\* What a panel asks for when it shows card c for shipment s.
Wanted(p, c, s) == [panel |-> p, card |-> c, shipment |-> s, price |-> Quoted(c, s)]

\* A request that rates-service stands behind: one of its cards, found for
\* the shipment, at its price, which it has.
Requests ==
  {r \in {Wanted(p, c, s) : p \in Panels, c \in Cards, s \in DOMAIN Shipments} :
     r.card \in Found(r.shipment) /\ r.price # NoPrice}

Panel ==
  [pc : {"idle", "createQuote", "holdQuote", "createBooking", "booked"}, clicks : Nat,
   request : Requests \cup {NoRequest}, quote : Quotes \cup {NoQuote},
   booking : Bookings \cup {NoBooking}]

Calls ==
  [op : {"createQuote"}, request : Requests] \cup [op : {"holdQuote"}, quote : Quotes]
    \cup [op : {"createBooking"}, quote : Quotes, key : Keys]

Page ==
  [shipment : DOMAIN Shipments \cup {0}, card : Cards \cup {NoCard}, views : Nat,
   mounts : 0 .. MaxPanels, mounted : BOOLEAN]

PageShape ==
  /\ page \in Page
  /\ fetching \subseteq Cards \X DOMAIN Shipments
  /\ panel \in [Panels -> Panel]
  /\ saved \in [Quotes -> Requests \cup {NoRequest}]
  /\ late \subseteq Calls

\* The page shows a card that its search found, and a panel only with a price.
PageInv ==
  /\ page.card # NoCard => /\ page.shipment \in DOMAIN Shipments
                           /\ page.card \in Found(page.shipment)
  /\ page.mounted = TRUE => page.card # NoCard /\ Known(page.card, page.shipment)

\* An answer is kept under its own query, and it is a price: nothing else is
\* ever read from it.
CacheInv ==
  \A c \in Cards, s \in DOMAIN Shipments :
    Known(c, s) => /\ cache[QueryKey(c, s)] = [card |-> c, price |-> Quoted(c, s)]
                   /\ Quoted(c, s) # NoPrice

\* A panel asks for what it shows, from its first click to its last, and what
\* its chain has reached is there: the quote saved from its own request, held
\* or spent under its own key, and the booking of that key.
ChainOK(p) ==
  LET r == panel[p].request  q == panel[p].quote IN
  /\ r # NoRequest => r.panel = p /\ p <= page.mounts
  /\ page.mounted = TRUE /\ page.mounts = p /\ r # NoRequest
       => r = Wanted(p, page.card, page.shipment)
  /\ panel[p].pc # "idle" => r # NoRequest
  /\ panel[p].pc \in {"holdQuote", "createBooking"} =>
       q \in Quotes /\ quotes[q] # None /\ saved[q] = r
  /\ panel[p].pc = "createBooking" =>
       quotes[q] = "HELD" \/ \E b \in Bookings : bookings[b].key = Key(p)
  /\ panel[p].booking # NoBooking => bookings[panel[p].booking].key = Key(p)

ChainInv == \A p \in Panels : ChainOK(p)

\* A quote is of the request of its panel, a lost call carries what its panel
\* sent, and a booking has the key of the panel its quote was saved by.
SavedInv ==
  \A q \in Quotes : saved[q] # NoRequest => saved[q] = panel[saved[q].panel].request

LateInv ==
  \A call \in late :
    /\ call.op = "createQuote" => call.request = panel[call.request.panel].request
    /\ call.op = "createBooking" =>
         /\ quotes[call.quote] # None /\ saved[call.quote] \in Requests
         /\ call.key = Key(saved[call.quote].panel)

BookedInv ==
  \A b \in Bookings : Exists(b) =>
    /\ saved[bookings[b].quote] \in Requests
    /\ bookings[b].key = Key(saved[bookings[b].quote].panel)

\* The invariant that a step preserves.
WholeInv ==
  TablesAgree /\ PageShape /\ PageInv /\ CacheInv /\ ChainInv /\ SavedInv /\ LateInv /\ BookedInv

-------------------------------------------------------------------------------

\* What a request is made of.
LEMMA RequestFacts ==
  /\ NoRequest \notin Requests
  /\ \A r \in Requests :
       /\ r.panel \in Panels /\ r.card \in Cards /\ r.shipment \in DOMAIN Shipments
       /\ r.card \in Found(r.shipment) /\ r.price # NoPrice
       /\ r = Wanted(r.panel, r.card, r.shipment)
<1>1. ASSUME NEW r \in Requests
      PROVE  /\ r.panel \in Panels /\ r.card \in Cards /\ r.shipment \in DOMAIN Shipments
             /\ r.card \in Found(r.shipment) /\ r.price # NoPrice
             /\ r = Wanted(r.panel, r.card, r.shipment)
  <2>1. PICK p \in Panels, c \in Cards, s \in DOMAIN Shipments : r = Wanted(p, c, s)
    BY DEF Requests
  <2>2. r.panel = p /\ r.card = c /\ r.shipment = s
    BY <2>1 DEF Wanted
  <2>3. r.card \in Found(r.shipment) /\ r.price # NoPrice
    BY DEF Requests
  <2>4. QED
    BY <2>1, <2>2, <2>3
<1>2. NoRequest \notin Requests
  <2>1. NoRequest.card = NoCard
    BY DEF NoRequest
  <2>2. QED
    BY <2>1, <1>1, PageConstants
<1>3. QED
  BY <1>1, <1>2

\* A card found for a shipment is one of the cards.
LEMMA FoundIsACard == \A s : Found(s) \subseteq Cards
  BY DEF Found

LEMMA WantedIsARequest ==
  ASSUME NEW p \in Panels, NEW s \in DOMAIN Shipments, NEW c \in Found(s), Quoted(c, s) # NoPrice
  PROVE  Wanted(p, c, s) \in Requests
<1>1. c \in Cards
  BY FoundIsACard
<1>2. /\ Wanted(p, c, s).card = c /\ Wanted(p, c, s).shipment = s
      /\ Wanted(p, c, s).price # NoPrice
  BY DEF Wanted
<1>3. QED
  BY <1>1, <1>2 DEF Requests

\* A panel has one key, and no other panel has it.
LEMMA KeyFacts ==
  /\ \A p \in Panels : Key(p) \in Keys
  /\ \A p, r : Key(p) = Key(r) => p = r
  BY PageConstants DEF Key

-------------------------------------------------------------------------------

\* What a step of the page does to the ledger, and to what the quotes were
\* saved from.
LedgerStep ==
  \/ UNCHANGED <<quotes, bookings, log, saved>>
  \/ \E q \in Quotes, r \in Requests : SaveQuote(r, q) /\ r = panel[r.panel].request
  \/ \E q \in Quotes : HoldQuote(q) /\ UNCHANGED saved
  \/ \E b \in Bookings, q \in Quotes, k \in Keys :
       /\ Book(b, q, k) /\ UNCHANGED saved
       /\ saved[q] \in Requests /\ k = Key(saved[q].panel)
  \/ \E b \in Bookings, to \in {"CONFIRMED", "CANCELLED"} : Transition(b, to) /\ UNCHANGED saved

\* A panel whose chain runs has a request, and once it has a quote that quote
\* was saved from it.
LEMMA RunningPanel ==
  ASSUME PageShape, ChainInv, NEW p \in Panels, panel[p].pc # "idle"
  PROVE  /\ panel[p].request \in Requests /\ panel[p].request.panel = p
         /\ panel[p].pc \in {"holdQuote", "createBooking"} =>
              /\ panel[p].quote \in Quotes /\ quotes[panel[p].quote] # None
              /\ saved[panel[p].quote] = panel[p].request
<1>1. panel[p] \in Panel
  BY DEF PageShape
<1>2. panel[p].request \in Requests \cup {NoRequest}
  BY <1>1 DEF Panel
<1>3. QED
  BY <1>2 DEF ChainInv, ChainOK

LEMMA ChainIsALedgerStep ==
  ASSUME PageShape, ChainInv, NEW p \in Panels, Chain(p)
  PROVE  LedgerStep
<1>1. CASE QuoteSaved(p)
  <2>1. panel[p].pc # "idle"
    BY <1>1 DEF QuoteSaved
  <2>2. PICK r \in Requests : r = panel[p].request /\ r.panel = p
    BY <2>1, RunningPanel
  <2>3. PICK q \in Quotes : SaveQuote(panel[p].request, q)
    BY <1>1 DEF QuoteSaved
  <2>4. SaveQuote(r, q)
    BY <2>2, <2>3 DEF SaveQuote
  <2>5. QED
    BY <2>2, <2>4 DEF LedgerStep
<1>2. CASE QuoteHeld(p)
  <2>1. panel[p].pc # "idle" /\ panel[p].pc \in {"holdQuote", "createBooking"}
    BY <1>2 DEF QuoteHeld
  <2>2. PICK q \in Quotes : q = panel[p].quote
    BY <2>1, RunningPanel
  <2>3. HoldQuote(q) /\ UNCHANGED saved
    BY <1>2, <2>2 DEF QuoteHeld, HoldQuote
  <2>4. QED
    BY <2>3 DEF LedgerStep
<1>3. CASE BookingCreated(p)
  <2>1. panel[p].pc # "idle" /\ panel[p].pc \in {"holdQuote", "createBooking"}
    BY <1>3 DEF BookingCreated
  <2>2. PICK q \in Quotes : q = panel[p].quote /\ saved[q] \in Requests /\ saved[q].panel = p
    BY <2>1, RunningPanel
  <2>3. PICK k \in Keys : k = Key(p)
    BY KeyFacts
  <2>4. PICK b \in Bookings : Book(b, panel[p].quote, Key(p)) \/ UNCHANGED ledger
    BY <1>3 DEF BookingCreated
  <2>5. UNCHANGED saved /\ (Book(b, q, k) \/ UNCHANGED <<quotes, bookings, log>>)
    BY <1>3, <2>2, <2>3, <2>4 DEF BookingCreated, Book, ledger
  <2>6. QED
    BY <2>2, <2>3, <2>5 DEF LedgerStep
<1>4. CASE Fails(p)
  <2>1. CASE UNCHANGED <<quotes, bookings, log, saved>>
    BY <2>1 DEF LedgerStep
  <2>2. CASE panel[p].pc = "createQuote" /\ \E q \in Quotes : SaveQuote(panel[p].request, q)
    <3>1. PICK r \in Requests : r = panel[p].request /\ r.panel = p
      BY <2>2, RunningPanel
    <3>2. PICK q \in Quotes : SaveQuote(panel[p].request, q)
      BY <2>2
    <3>3. SaveQuote(r, q)
      BY <3>1, <3>2 DEF SaveQuote
    <3>4. QED
      BY <3>1, <3>3 DEF LedgerStep
  <2>3. CASE panel[p].pc = "holdQuote" /\ HoldQuote(panel[p].quote) /\ UNCHANGED saved
    <3>1. PICK q \in Quotes : q = panel[p].quote
      BY <2>3, RunningPanel
    <3>2. HoldQuote(q)
      BY <2>3, <3>1 DEF HoldQuote
    <3>3. QED
      BY <2>3, <3>2 DEF LedgerStep
  <2>4. CASE /\ panel[p].pc = "createBooking" /\ UNCHANGED saved
             /\ \E b \in Bookings : Book(b, panel[p].quote, Key(p))
    <3>1. PICK q \in Quotes : q = panel[p].quote /\ saved[q] \in Requests /\ saved[q].panel = p
      BY <2>4, RunningPanel
    <3>2. PICK k \in Keys : k = Key(p)
      BY KeyFacts
    <3>3. PICK b \in Bookings : Book(b, panel[p].quote, Key(p))
      BY <2>4
    <3>4. Book(b, q, k)
      BY <3>1, <3>2, <3>3 DEF Book
    <3>5. QED
      BY <2>4, <3>1, <3>2, <3>4 DEF LedgerStep
  <2>5. QED
    BY <1>4, <2>1, <2>2, <2>3, <2>4 DEF Fails, ledger
<1>5. QED
  BY <1>1, <1>2, <1>3, <1>4 DEF Chain

LEMMA LandingIsALedgerStep ==
  ASSUME PageShape, LateInv, NEW call \in late, Land(call)
  PROVE  LedgerStep
<1>1. call \in Calls
  BY DEF PageShape
<1>2. CASE call.op = "createQuote" /\ \E q \in Quotes : SaveQuote(call.request, q)
  <2>1. call.request \in Requests
    BY <1>1, <1>2 DEF Calls
  <2>2. call.request = panel[call.request.panel].request
    BY <1>2 DEF LateInv
  <2>3. QED
    BY <1>2, <2>1, <2>2 DEF LedgerStep
<1>3. CASE call.op = "holdQuote" /\ HoldQuote(call.quote) /\ UNCHANGED saved
  <2>1. call.quote \in Quotes
    BY <1>1, <1>3 DEF Calls
  <2>2. QED
    BY <1>3, <2>1 DEF LedgerStep
<1>4. CASE /\ call.op = "createBooking" /\ UNCHANGED saved
           /\ \E b \in Bookings : Book(b, call.quote, call.key)
  <2>1. call.quote \in Quotes /\ call.key \in Keys
    BY <1>1, <1>4 DEF Calls
  <2>2. saved[call.quote] \in Requests /\ call.key = Key(saved[call.quote].panel)
    BY <1>4 DEF LateInv
  <2>3. QED
    BY <1>4, <2>1, <2>2 DEF LedgerStep
<1>5. QED
  BY <1>2, <1>3, <1>4 DEF Land

LEMMA PageStepIsALedgerStep ==
  ASSUME PageShape, ChainInv, LateInv, [PageNext]_pageVars
  PROVE  LedgerStep
<1>1. ASSUME UNCHANGED <<quotes, bookings, log, saved>> PROVE LedgerStep
  BY <1>1 DEF LedgerStep
<1>2. ASSUME NEW s \in DOMAIN Shipments, Search(s) PROVE LedgerStep
  BY <1>1, <1>2 DEF Search, ledger
<1>3. ASSUME NEW c \in Cards, Select(c) PROVE LedgerStep
  BY <1>1, <1>3 DEF Select, ledger
<1>4. CASE Focus
  BY <1>1, <1>4 DEF Focus, ledger
<1>5. ASSUME NEW f \in fetching, Calculated(f[1], f[2]) PROVE LedgerStep
  BY <1>1, <1>5 DEF Calculated, ledger
<1>6. ASSUME NEW p \in Panels, Click(p) PROVE LedgerStep
  BY <1>1, <1>6 DEF Click, ledger
<1>7. ASSUME NEW p \in Panels, Chain(p) PROVE LedgerStep
  BY <1>7, ChainIsALedgerStep
<1>8. ASSUME NEW call \in late, Land(call) PROVE LedgerStep
  BY <1>8, LandingIsALedgerStep
<1>9. CASE Users
  BY <1>9 DEF Users, LedgerStep
<1>10. CASE UNCHANGED pageVars
  BY <1>1, <1>10 DEF pageVars
<1>11. QED
  BY <1>2, <1>3, <1>4, <1>5, <1>6, <1>7, <1>8, <1>9, <1>10 DEF PageNext

-------------------------------------------------------------------------------

\* What a step of the page does to the ledger is a step of the ledger.
LEMMA LedgerStepIsNext == LedgerStep => [Next]_vars
  BY DEF LedgerStep, SaveQuote, Next, vars

LEMMA TablesStep == TablesAgree /\ LedgerStep => TablesAgree'
  BY LedgerStepIsNext, TypeOKStep, TablesAgreeStep DEF TablesAgree

\* Nothing of it is taken back: a quote stays and keeps what it was saved
\* from, a booking keeps its quote and its key, and a held quote stays held
\* until it is booked under the key of the panel that saved it.
Onward ==
  /\ \A q \in Quotes : quotes[q] # None => quotes'[q] # None /\ saved'[q] = saved[q]
  /\ \A b \in Bookings : Exists(b) =>
       bookings'[b].quote = bookings[b].quote /\ bookings'[b].key = bookings[b].key
  /\ \A q \in Quotes : quotes[q] = "HELD" =>
       quotes'[q] = "HELD" \/ \E b \in Bookings : bookings'[b].key = Key(saved[q].panel)

LEMMA LedgerMovesOnward ==
  ASSUME TablesAgree, PageShape, LedgerStep
  PROVE  Onward
<1>1. TypeOK /\ quotes \in [Quotes -> QuoteStatus \cup {None}]
  BY DEF TablesAgree, TypeOK
<1>2. CASE UNCHANGED <<quotes, bookings, log, saved>>
  BY <1>2 DEF Onward
<1>3. ASSUME NEW q \in Quotes, NEW r \in Requests, SaveQuote(r, q) PROVE Onward
  <2>1. /\ quotes[q] = None /\ UNCHANGED bookings
        /\ \A p \in Quotes \ {q} : quotes'[p] = quotes[p] /\ saved'[p] = saved[p]
    BY <1>1, <1>3 DEF SaveQuote, CreateQuote, PageShape
  <2>2. QED
    BY <2>1 DEF Onward, None
<1>4. ASSUME NEW q \in Quotes, HoldQuote(q), UNCHANGED saved PROVE Onward
  <2>1. /\ quotes'[q] = "HELD" /\ UNCHANGED bookings
        /\ \A p \in Quotes \ {q} : quotes'[p] = quotes[p]
    BY <1>1, <1>4 DEF HoldQuote
  <2>2. QED
    BY <1>4, <2>1 DEF Onward, None
<1>5. ASSUME NEW b \in Bookings, NEW q \in Quotes, NEW k \in Keys,
             Book(b, q, k), UNCHANGED saved, k = Key(saved[q].panel)
      PROVE  Onward
  <2>1. /\ quotes'[q] = "CONSUMED" /\ ~ Exists(b)
        /\ \A p \in Quotes \ {q} : quotes'[p] = quotes[p]
        /\ \A c \in Bookings \ {b} : bookings'[c] = bookings[c]
    BY <1>1, <1>5 DEF Book, TypeOK
  <2>2. bookings'[b].key = Key(saved[q].panel)
    BY <1>1, <1>5 DEF Book, TypeOK, BookedRow
  <2>3. QED
    BY <1>5, <2>1, <2>2 DEF Onward, None
<1>6. ASSUME NEW b \in Bookings, NEW to \in {"CONFIRMED", "CANCELLED"},
             Transition(b, to), UNCHANGED saved
      PROVE  Onward
  <2>1. UNCHANGED quotes /\ bookings'[b] = Moved(bookings[b], to)
    BY <1>1, <1>6 DEF Transition, TypeOK
  <2>2. \A c \in Bookings \ {b} : bookings'[c] = bookings[c]
    BY <1>1, <1>6 DEF Transition, TypeOK
  <2>3. QED
    BY <1>6, <2>1, <2>2 DEF Onward, Moved
<1>7. QED
  BY <1>2, <1>3, <1>4, <1>5, <1>6 DEF LedgerStep

\* Every booking is of a request, under the key of the panel that made it.
LEMMA BookedStep ==
  ASSUME TablesAgree, PageShape, BookedInv, LedgerStep
  PROVE  BookedInv'
<1>1. TypeOK /\ TypeOK' /\ RowShape /\ ConsumedIffBooked
  BY TablesStep DEF TablesAgree
<1>2. \A b \in Bookings : Exists(b) =>
        bookings[b].quote \in Quotes /\ quotes[bookings[b].quote] # None
  <2>1. \A b \in Bookings : Exists(b) => bookings[b].quote \in Quotes
    BY <1>1 DEF RowShape
  <2>2. QED
    BY <1>1, <2>1 DEF ConsumedIffBooked, None
<1>3. ASSUME NEW b \in Bookings, Exists(b)
      PROVE  /\ saved'[bookings'[b].quote] \in Requests
             /\ bookings'[b].key = Key(saved'[bookings'[b].quote].panel)
  <2>1. bookings'[b].quote = bookings[b].quote /\ bookings'[b].key = bookings[b].key
    BY <1>3, LedgerMovesOnward DEF Onward
  <2>2. PICK q \in Quotes : q = bookings[b].quote /\ quotes[q] # None
    BY <1>2, <1>3
  <2>3. saved'[q] = saved[q]
    BY <2>2, LedgerMovesOnward DEF Onward
  <2>4. saved[q] \in Requests /\ bookings[b].key = Key(saved[q].panel)
    BY <1>3, <2>2 DEF BookedInv
  <2>5. QED
    BY <2>1, <2>2, <2>3, <2>4 DEF Key
<1>4. ASSUME \A b \in Bookings : Exists(b)' => Exists(b) PROVE BookedInv'
  BY <1>3, <1>4 DEF BookedInv, Key
<1>5. ASSUME UNCHANGED bookings PROVE BookedInv'
  BY <1>4, <1>5 DEF Exists
<1>6. ASSUME NEW b \in Bookings, NEW q \in Quotes, NEW k \in Keys,
             Book(b, q, k), UNCHANGED saved, saved[q] \in Requests, k = Key(saved[q].panel)
      PROVE  BookedInv'
  <2>1. bookings'[b].quote = q /\ bookings'[b].key = k
    BY <1>1, <1>6 DEF Book, TypeOK, BookedRow
  <2>2. \A c \in Bookings \ {b} : Exists(c)' => Exists(c)
    BY <1>1, <1>6 DEF Book, TypeOK, Exists
  <2>3. QED
    BY <1>3, <1>6, <2>1, <2>2 DEF BookedInv, Key
<1>7. ASSUME NEW b \in Bookings, NEW to \in {"CONFIRMED", "CANCELLED"},
             Transition(b, to), UNCHANGED saved
      PROVE  BookedInv'
  <2>1. \A c \in Bookings : Exists(c)' => Exists(c)
    BY <1>1, <1>7 DEF Transition, TypeOK, Exists
  <2>2. QED
    BY <1>4, <2>1
<1>8. QED
  BY <1>5, <1>6, <1>7 DEF LedgerStep, SaveQuote, CreateQuote, HoldQuote

-------------------------------------------------------------------------------

\* What a step may do to the page: panels are only added, and one that is
\* shown afterwards is new or was shown before, for the same card.
PageMoves ==
  /\ page.mounts <= page'.mounts
  /\ page'.mounted = TRUE =>
       \/ page'.mounts = page.mounts + 1
       \/ /\ page.mounted = TRUE /\ page'.mounts = page.mounts
          /\ page'.card = page.card /\ page'.shipment = page.shipment

\* A rendering with or without a price known, of a card that was found.
LEMMA RenderMovesThePage ==
  ASSUME page \in Page, NEW stays \in BOOLEAN, NEW known \in BOOLEAN,
         NEW s \in DOMAIN Shipments, NEW c \in Found(s) \cup {NoCard},
         Render(c, s, stays, known),
         known => c # NoCard,
         stays => c = page.card /\ s = page.shipment
  PROVE  /\ page' \in Page /\ PageMoves
         /\ page'.card = c /\ page'.shipment = s /\ page'.mounted = known
<1>1. c \in Cards \cup {NoCard} /\ MaxPanels \in Nat
  BY FoundIsACard, PageConstants
<1>2. page.mounts \in Nat /\ page.views \in Nat /\ page.mounted \in BOOLEAN
  BY <1>1 DEF Page
<1> DEFINE mounts == IF known /\ ~ SamePanel(c, stays) THEN page.mounts + 1 ELSE page.mounts
           views == IF stays THEN page.views ELSE page.views + 1
<1>3. /\ mounts <= MaxPanels
      /\ page' = [shipment |-> s, card |-> c, views |-> views, mounts |-> mounts,
                  mounted |-> known]
  BY DEF Render
<1>4. mounts \in Nat /\ views \in Nat
  BY <1>2
<1>5. \/ mounts = page.mounts + 1
      \/ mounts = page.mounts /\ (known => page.mounted = TRUE /\ stays)
  <2>1. SamePanel(c, stays) <=> stays /\ page.mounted = TRUE
    <3>1. CASE page.mounted = TRUE
      BY <3>1 DEF SamePanel
    <3>2. CASE page.mounted = FALSE
      BY <3>2 DEF SamePanel
    <3>3. QED
      BY <1>2, <3>1, <3>2
  <2>2. CASE known /\ ~ SamePanel(c, stays)
    BY <2>2
  <2>3. CASE ~ (known /\ ~ SamePanel(c, stays))
    <3>1. mounts = page.mounts
      BY <2>3
    <3>2. QED
      BY <2>1, <2>3, <3>1
  <2>4. QED
    BY <2>2, <2>3
<1> HIDE DEF mounts, views
<1>6. page' \in Page
  BY <1>1, <1>3, <1>4 DEF Page
<1>7. /\ page'.card = c /\ page'.shipment = s /\ page'.mounted = known
      /\ page'.mounts = mounts
  BY <1>3
<1>8. PageMoves
  <2>1. page.mounts <= mounts
    BY <1>2, <1>4, <1>5
  <2>2. QED
    BY <1>5, <1>7, <2>1 DEF PageMoves
<1>9. QED
  BY <1>6, <1>7, <1>8

\* A card the page shows was found, and what is fetched for it is a query.
LEMMA FetchAsks ==
  ASSUME fetching \subseteq Cards \X DOMAIN Shipments,
         NEW c \in Cards, NEW s \in DOMAIN Shipments, Fetch(c, s)
  PROVE  fetching' \subseteq Cards \X DOMAIN Shipments
  BY DEF Fetch

\* What the page shows, and what it knows of prices, after a step.
ScreenOK ==
  /\ page \in Page /\ fetching \subseteq Cards \X DOMAIN Shipments
  /\ PageInv /\ CacheInv

LEMMA SearchShows ==
  ASSUME ScreenOK, NEW s \in DOMAIN Shipments, Search(s)
  PROVE  ScreenOK' /\ PageMoves
<1>1. Render(NoCard, s, FALSE, FALSE) /\ UNCHANGED <<cache, fetching>>
  BY DEF Search
<1>2. /\ page' \in Page /\ PageMoves
      /\ page'.card = NoCard /\ page'.mounted = FALSE
  <2> DEFINE c == NoCard
  <2>1. c \in Found(s) \cup {NoCard}
    OBVIOUS
  <2>2. QED
    BY <1>1, <2>1, RenderMovesThePage DEF ScreenOK
<1>3. PageInv'
  BY <1>2 DEF PageInv
<1>4. CacheInv'
  BY <1>1 DEF ScreenOK, CacheInv, Known
<1>5. QED
  BY <1>1, <1>2, <1>3, <1>4 DEF ScreenOK

LEMMA SelectShows ==
  ASSUME ScreenOK, NEW c \in Cards, Select(c)
  PROVE  ScreenOK' /\ PageMoves
<1>1. /\ page.shipment \in DOMAIN Shipments /\ c \in Found(page.shipment)
      /\ c # NoCard /\ UNCHANGED cache
  BY PageConstants DEF ScreenOK, Page, Select
<1>2. PICK s \in DOMAIN Shipments : s = page.shipment /\ c \in Found(s)
  BY <1>1
<1>3. PICK known \in BOOLEAN : known = Known(c, s)
  <2>1. Known(c, s) \in BOOLEAN
    BY DEF Known
  <2>2. QED
    BY <2>1
<1>4. Render(c, s, FALSE, known) /\ Fetch(c, s)
  BY <1>2, <1>3 DEF Select
<1>5. /\ page' \in Page /\ PageMoves
      /\ page'.card = c /\ page'.shipment = s /\ page'.mounted = known
  BY <1>1, <1>2, <1>4, RenderMovesThePage DEF ScreenOK
<1>6. PageInv'
  <2>1. page'.mounted = TRUE => QueryKey(page'.card, page'.shipment) \in DOMAIN cache'
    BY <1>1, <1>3, <1>5 DEF Known, QueryKey
  <2>2. QED
    BY <1>1, <1>2, <1>5, <2>1 DEF PageInv, Known
<1>7. CacheInv'
  BY <1>1 DEF ScreenOK, CacheInv, Known
<1>8. QED
  BY <1>2, <1>4, <1>5, <1>6, <1>7, FetchAsks DEF ScreenOK

LEMMA FocusShows ==
  ASSUME ScreenOK, Focus
  PROVE  ScreenOK' /\ PageMoves
<1>1. page.card # NoCard /\ UNCHANGED <<page, cache>>
  BY DEF Focus
<1>2. PICK c \in Cards, s \in DOMAIN Shipments : c = page.card /\ s = page.shipment
  BY <1>1, FoundIsACard DEF ScreenOK, PageInv
<1>3. Fetch(c, s)
  BY <1>2 DEF Focus
<1>4. PageInv' /\ CacheInv' /\ PageMoves
  BY <1>1 DEF ScreenOK, PageInv, CacheInv, Known, PageMoves, Page
<1>5. QED
  BY <1>1, <1>3, <1>4, FetchAsks DEF ScreenOK

LEMMA CalculatedShows ==
  ASSUME ScreenOK, NEW c \in Cards, NEW s \in DOMAIN Shipments, Calculated(c, s)
  PROVE  ScreenOK' /\ PageMoves
<1> DEFINE k == QueryKey(c, s)
           seen == page.card # NoCard /\ k = QueryKey(page.card, page.shipment)
<1>1. fetching' \subseteq Cards \X DOMAIN Shipments
  BY DEF ScreenOK, Calculated
<1>2. CASE UNCHANGED <<cache, page>>
  <2>1. PageInv' /\ CacheInv' /\ PageMoves
    BY <1>2 DEF ScreenOK, PageInv, CacheInv, Known, PageMoves, Page
  <2>2. QED
    BY <1>1, <1>2, <2>1 DEF ScreenOK
<1>3. CASE /\ Quoted(c, s) # NoPrice
           /\ cache' = [x \in DOMAIN cache \cup {k} |->
                          IF x = k THEN [card |-> c, price |-> Quoted(c, s)] ELSE cache[x]]
           /\ IF seen THEN Render(page.card, page.shipment, TRUE, TRUE) ELSE UNCHANGED page
  <2>1. CacheInv'
    <3> SUFFICES ASSUME NEW d \in Cards, NEW t \in DOMAIN Shipments, Known(d, t)'
                 PROVE  /\ cache'[QueryKey(d, t)] = [card |-> d, price |-> Quoted(d, t)]
                        /\ Quoted(d, t) # NoPrice
      BY DEF CacheInv
    <3>1. CASE QueryKey(d, t) = k
      <4>1. d = c /\ t = s
        BY <3>1 DEF QueryKey
      <4>2. QED
        BY <1>3, <4>1
    <3>2. CASE QueryKey(d, t) # k
      <4>1. Known(d, t) /\ cache'[QueryKey(d, t)] = cache[QueryKey(d, t)]
        BY <1>3, <3>2 DEF Known
      <4>2. QED
        BY <4>1 DEF ScreenOK, CacheInv
    <3>3. QED
      BY <3>1, <3>2
  <2>2. CASE ~ seen
    <3>1. UNCHANGED page
      BY <1>3, <2>2
    <3>2. PageInv' /\ PageMoves
      BY <1>3, <3>1 DEF ScreenOK, PageInv, Known, PageMoves, Page
    <3>3. QED
      BY <1>1, <2>1, <3>1, <3>2 DEF ScreenOK
  <2>3. CASE seen
    <3>1. c = page.card /\ s = page.shipment
      BY <2>3 DEF QueryKey
    <3>2. Render(c, s, TRUE, TRUE) /\ c \in Found(s) /\ c # NoCard
      BY <1>3, <2>3, <3>1 DEF ScreenOK, PageInv
    <3>3. /\ page' \in Page /\ PageMoves
          /\ page'.card = c /\ page'.shipment = s
      BY <3>1, <3>2, RenderMovesThePage DEF ScreenOK
    <3>4. PageInv'
      <4>1. QueryKey(page'.card, page'.shipment) \in DOMAIN cache'
        BY <1>3, <3>3 DEF QueryKey
      <4>2. QED
        BY <3>2, <3>3, <4>1 DEF PageInv, Known
    <3>5. QED
      BY <1>1, <2>1, <3>3, <3>4 DEF ScreenOK
  <2>4. QED
    BY <2>2, <2>3
<1>4. QED
  BY <1>2, <1>3 DEF Calculated

LEMMA ScreenStep ==
  ASSUME ScreenOK, [PageNext]_pageVars
  PROVE  ScreenOK' /\ PageMoves
<1>1. ASSUME UNCHANGED <<page, cache, fetching>> PROVE ScreenOK' /\ PageMoves
  BY <1>1 DEF ScreenOK, PageInv, CacheInv, Known, PageMoves, Page
<1>2. ASSUME NEW s \in DOMAIN Shipments, Search(s) PROVE ScreenOK' /\ PageMoves
  BY <1>2, SearchShows
<1>3. ASSUME NEW c \in Cards, Select(c) PROVE ScreenOK' /\ PageMoves
  BY <1>3, SelectShows
<1>4. CASE Focus
  BY <1>4, FocusShows
<1>5. ASSUME NEW f \in fetching, Calculated(f[1], f[2]) PROVE ScreenOK' /\ PageMoves
  BY <1>5, CalculatedShows DEF ScreenOK
<1>6. ASSUME NEW p \in Panels, Click(p) \/ Chain(p) PROVE ScreenOK' /\ PageMoves
  BY <1>1, <1>6 DEF Click, Chain, QuoteSaved, QuoteHeld, BookingCreated, Fails
<1>7. ASSUME NEW call \in late, Land(call) PROVE ScreenOK' /\ PageMoves
  BY <1>1, <1>7 DEF Land
<1>8. CASE Users
  BY <1>1, <1>8 DEF Users
<1>9. CASE UNCHANGED pageVars
  BY <1>1, <1>9 DEF pageVars
<1>10. QED
  BY <1>2, <1>3, <1>4, <1>5, <1>6, <1>7, <1>8, <1>9 DEF PageNext

-------------------------------------------------------------------------------

\* A panel that a step leaves alone is still in order, whatever the step does
\* to the page and to the ledger.
LEMMA OtherPanels ==
  ASSUME TablesAgree, PageShape, ChainInv, PageMoves, Onward, page' \in Page,
         NEW p \in Panels, panel'[p] = panel[p]
  PROVE  ChainOK(p)'
<1> DEFINE r == panel[p].request
           q == panel[p].quote
<1>1. ChainOK(p) /\ page.mounts \in Nat /\ page'.mounts \in Nat /\ p \in Nat
  BY DEF ChainInv, PageShape, Page, Panels
<1>2. panel[p] \in Panel
  BY DEF PageShape
<1>3. r # NoRequest => r.panel = p /\ p <= page'.mounts
  BY <1>1 DEF ChainOK, PageMoves
<1>4. page'.mounted = TRUE /\ page'.mounts = p /\ r # NoRequest
        => r = Wanted(p, page'.card, page'.shipment)
  BY <1>1 DEF ChainOK, PageMoves
<1>5. panel[p].pc # "idle" => r # NoRequest
  BY <1>1 DEF ChainOK
<1>6. panel[p].pc \in {"holdQuote", "createBooking"} =>
        q \in Quotes /\ quotes'[q] # None /\ saved'[q] = r
  BY <1>1 DEF ChainOK, Onward
<1>7. \A b \in Bookings : bookings[b].key = Key(p) => bookings'[b].key = Key(p)
  <2> SUFFICES ASSUME NEW b \in Bookings, bookings[b].key = Key(p)
               PROVE  bookings'[b].key = Key(p)
    OBVIOUS
  <2>1. bookings[b] # NoRow
    BY KeyFacts, LedgerConstants DEF NoRow
  <2>2. Exists(b)
    BY <2>1 DEF TablesAgree, RowShape
  <2>3. QED
    BY <2>2 DEF Onward
<1>8. panel[p].pc = "createBooking" =>
        quotes'[q] = "HELD" \/ \E b \in Bookings : bookings'[b].key = Key(p)
  <2> SUFFICES ASSUME panel[p].pc = "createBooking"
               PROVE  quotes'[q] = "HELD" \/ \E b \in Bookings : bookings'[b].key = Key(p)
    OBVIOUS
  <2>1. CASE \E b \in Bookings : bookings[b].key = Key(p)
    BY <2>1, <1>7
  <2>2. CASE quotes[q] = "HELD"
    <3>1. q \in Quotes /\ saved[q] = r /\ r.panel = p
      BY <1>1 DEF ChainOK
    <3>2. quotes'[q] = "HELD" \/ \E b \in Bookings : bookings'[b].key = Key(saved[q].panel)
      BY <2>2, <3>1 DEF Onward
    <3>3. Key(saved[q].panel) = Key(p)
      BY <3>1 DEF Key
    <3>4. QED
      BY <3>2, <3>3
  <2>3. QED
    BY <1>1, <2>1, <2>2 DEF ChainOK
<1>9. panel[p].booking # NoBooking => bookings'[panel[p].booking].key = Key(p)
  <2>1. panel[p].booking \in Bookings \cup {NoBooking}
    BY <1>2 DEF Panel
  <2>2. QED
    BY <1>1, <1>7, <2>1 DEF ChainOK
<1>10. QED
  BY <1>3, <1>4, <1>5, <1>6, <1>8, <1>9 DEF ChainOK, Wanted, Key

\* A chain that moves on is in order when what it has reached is there.
LEMMA MovedPanel ==
  ASSUME PageShape, ChainInv, UNCHANGED page,
         NEW p \in Panels, panel[p].pc # "idle",
         NEW pc \in {"idle", "holdQuote", "createBooking", "booked"},
         NEW q \in Quotes \cup {NoQuote}, NEW b \in Bookings \cup {NoBooking},
         Goto(p, pc, q, b),
         pc \in {"holdQuote", "createBooking"} =>
           q \in Quotes /\ quotes'[q] # None /\ saved'[q] = panel[p].request,
         pc = "createBooking" => quotes'[q] = "HELD",
         b # NoBooking => bookings'[b].key = Key(p)
  PROVE  /\ panel' \in [Panels -> Panel] /\ ChainOK(p)'
         /\ panel'[p].request = panel[p].request
<1>1. panel[p] \in Panel /\ ChainOK(p)
  BY DEF PageShape, ChainInv
<1>2. /\ panel[p].clicks \in Nat
      /\ panel[p].request \in Requests \cup {NoRequest} /\ panel[p].request # NoRequest
  BY <1>1 DEF Panel, ChainOK
<1> DEFINE new == [pc |-> pc, clicks |-> panel[p].clicks, request |-> panel[p].request,
                   quote |-> q, booking |-> b]
<1>3. panel' = [panel EXCEPT ![p] = new]
  BY DEF Goto
<1>4. new \in Panel
  BY <1>2 DEF Panel
<1>5. /\ new.request = panel[p].request /\ new.pc = pc /\ new.quote = q /\ new.booking = b
  OBVIOUS
<1> HIDE DEF new
<1>6. panel' \in [Panels -> Panel] /\ panel'[p] = new
  BY <1>3, <1>4 DEF PageShape
<1>7. ChainOK(p)'
  BY <1>1, <1>2, <1>5, <1>6 DEF ChainOK, Wanted, Key
<1>8. QED
  BY <1>5, <1>6, <1>7

\* A click takes what the page shows, which is what the panel asked for before.
LEMMA ClickedPanel ==
  ASSUME PageShape, PageInv, CacheInv, ChainInv, NEW p \in Panels, Click(p)
  PROVE  /\ panel' \in [Panels -> Panel] /\ ChainOK(p)'
         /\ panel[p].request # NoRequest => panel'[p].request = panel[p].request
<1>1. /\ panel[p] \in Panel /\ ChainOK(p) /\ page \in Page /\ UNCHANGED page
      /\ page.mounted = TRUE /\ page.mounts = p
  <2>1. page.mounted = TRUE
    BY DEF Click, PageShape, Page
  <2>2. QED
    BY <2>1 DEF PageShape, ChainInv, Click
<1>2. PICK c \in Cards, s \in DOMAIN Shipments :
        /\ c = page.card /\ s = page.shipment /\ c \in Found(s)
        /\ cache[QueryKey(page.card, page.shipment)] = [card |-> c, price |-> Quoted(c, s)]
        /\ Quoted(c, s) # NoPrice
  <2>1. /\ page.shipment \in DOMAIN Shipments /\ page.card \in Found(page.shipment)
        /\ Known(page.card, page.shipment)
    BY <1>1 DEF PageInv
  <2>2. PICK c \in Cards, s \in DOMAIN Shipments : c = page.card /\ s = page.shipment
    BY <2>1, FoundIsACard
  <2>3. c \in Found(s) /\ Known(c, s)
    BY <2>1, <2>2 DEF Known, QueryKey
  <2>4. QED
    BY <2>2, <2>3 DEF CacheInv, QueryKey
<1> DEFINE wanted == Wanted(p, c, s)
           new == [pc |-> "createQuote", clicks |-> panel[p].clicks + 1,
                   quote |-> panel[p].quote, booking |-> NoBooking, request |-> wanted]
<1>3. panel' = [panel EXCEPT ![p] = new]
  BY <1>2 DEF Click, Wanted
<1>4. wanted \in Requests /\ wanted # NoRequest
  BY <1>2, WantedIsARequest, RequestFacts
<1>5. new \in Panel
  BY <1>1, <1>4 DEF Panel
<1>6. /\ new.request = wanted /\ new.pc = "createQuote" /\ new.booking = NoBooking
      /\ wanted.panel = p
  BY DEF Wanted
<1>7. panel[p].request # NoRequest => panel[p].request = wanted
  BY <1>1, <1>2 DEF ChainOK, Wanted
<1> HIDE DEF new
<1>8. panel' \in [Panels -> Panel] /\ panel'[p] = new
  BY <1>3, <1>5 DEF PageShape
<1>9. ChainOK(p)'
  <2>1. wanted = Wanted(p, page'.card, page'.shipment)
    BY <1>1, <1>2 DEF Wanted
  <2>2. p <= page'.mounts
    BY <1>1 DEF Panels
  <2> HIDE DEF wanted
  <2>3. QED
    BY <1>1, <1>4, <1>6, <1>8, <2>1, <2>2 DEF ChainOK
<1>10. QED
  BY <1>6, <1>7, <1>8, <1>9

-------------------------------------------------------------------------------

\* The panels after a step: all in order, and none asks for anything else than
\* it did.
PanelsOK ==
  /\ panel' \in [Panels -> Panel] /\ ChainInv'
  /\ \A p \in Panels : panel[p].request # NoRequest => panel'[p].request = panel[p].request

\* If the panel that moves is in order, all are.
LEMMA OnePanelMoves ==
  ASSUME TablesAgree, PageShape, ChainInv, PageMoves, Onward, page' \in Page,
         NEW p \in Panels,
         \A r \in Panels \ {p} : panel'[r] = panel[r],
         panel' \in [Panels -> Panel], ChainOK(p)',
         panel[p].request # NoRequest => panel'[p].request = panel[p].request
  PROVE  PanelsOK
<1>1. \A r \in Panels : ChainOK(r)'
  BY OtherPanels
<1>2. QED
  BY <1>1 DEF PanelsOK, ChainInv

LEMMA NoPanelMoves ==
  ASSUME TablesAgree, PageShape, ChainInv, PageMoves, Onward, page' \in Page,
         UNCHANGED panel
  PROVE  PanelsOK
<1>1. \A r \in Panels : ChainOK(r)'
  BY OtherPanels
<1>2. QED
  BY <1>1 DEF PanelsOK, ChainInv, PageShape

LEMMA ChainMoves ==
  ASSUME TablesAgree, PageShape, ChainInv, PageMoves, Onward, page' \in Page,
         NEW p \in Panels, Chain(p)
  PROVE  PanelsOK
<1>1. panel[p] \in Panel
  BY DEF PageShape
<1>2. panel[p].quote \in Quotes \cup {NoQuote}
  BY <1>1 DEF Panel
<1>3. ASSUME NEW pc, NEW q, NEW b, Goto(p, pc, q, b)
      PROVE  \A r \in Panels \ {p} : panel'[r] = panel[r]
  BY <1>3 DEF Goto, PageShape
<1>4. CASE QuoteSaved(p)
  <2>1. panel[p].pc # "idle" /\ UNCHANGED page
    BY <1>4 DEF QuoteSaved
  <2>2. PICK q \in Quotes : SaveQuote(panel[p].request, q) /\ Goto(p, "holdQuote", q, NoBooking)
    BY <1>4 DEF QuoteSaved
  <2>3. quotes'[q] # None /\ saved'[q] = panel[p].request
    BY <2>2 DEF SaveQuote, CreateQuote, TablesAgree, TypeOK, PageShape, None
  <2>4. /\ panel' \in [Panels -> Panel] /\ ChainOK(p)'
        /\ panel'[p].request = panel[p].request
    <3>1. PICK pc \in {"idle", "holdQuote", "createBooking", "booked"} : pc = "holdQuote"
      OBVIOUS
    <3>2. PICK b \in Bookings \cup {NoBooking} : b = NoBooking
      OBVIOUS
    <3>3. Goto(p, pc, q, b)
      BY <2>2, <3>1, <3>2
    <3>4. QED
      BY <2>1, <2>3, <3>1, <3>2, <3>3, MovedPanel
  <2>5. QED
    BY <1>3, <2>2, <2>4, OnePanelMoves
<1>5. CASE QuoteHeld(p)
  <2>1. panel[p].pc # "idle" /\ panel[p].pc \in {"holdQuote", "createBooking"} /\ UNCHANGED page
    BY <1>5 DEF QuoteHeld
  <2>2. PICK q \in Quotes :
          q = panel[p].quote /\ quotes[q] # None /\ saved[q] = panel[p].request
    BY <2>1, RunningPanel
  <2>3. HoldQuote(q) /\ Goto(p, "createBooking", q, NoBooking)
    BY <1>5, <2>2 DEF QuoteHeld, HoldQuote, Goto
  <2>4. quotes'[q] = "HELD" /\ quotes'[q] # None /\ saved'[q] = panel[p].request
    BY <2>2, <2>3 DEF Onward, HoldQuote, TablesAgree, TypeOK
  <2>5. /\ panel' \in [Panels -> Panel] /\ ChainOK(p)'
        /\ panel'[p].request = panel[p].request
    <3>1. PICK pc \in {"idle", "holdQuote", "createBooking", "booked"} : pc = "createBooking"
      OBVIOUS
    <3>2. PICK b \in Bookings \cup {NoBooking} : b = NoBooking
      OBVIOUS
    <3>3. Goto(p, pc, q, b)
      BY <2>3, <3>1, <3>2
    <3>4. QED
      BY <2>1, <2>4, <3>1, <3>2, <3>3, MovedPanel
  <2>6. QED
    BY <1>3, <2>3, <2>5, OnePanelMoves
<1>6. CASE BookingCreated(p)
  <2>1. panel[p].pc # "idle" /\ panel[p].pc \in {"holdQuote", "createBooking"} /\ UNCHANGED page
    BY <1>6 DEF BookingCreated
  <2>2. PICK q \in Quotes : q = panel[p].quote
    BY <2>1, RunningPanel
  <2>3. PICK b \in Bookings :
          /\ Book(b, q, Key(p)) \/ (b \in BookedUnder(Key(p)) /\ UNCHANGED ledger)
          /\ Goto(p, "booked", q, b)
    BY <1>6, <2>2 DEF BookingCreated, Book, Goto
  <2>4. bookings'[b].key = Key(p)
    <3>1. CASE Book(b, q, Key(p))
      BY <3>1 DEF Book, BookedRow, TablesAgree, TypeOK
    <3>2. CASE b \in BookedUnder(Key(p)) /\ UNCHANGED ledger
      BY <3>2 DEF BookedUnder, ledger
    <3>3. QED
      BY <2>3, <3>1, <3>2
  <2>5. /\ panel' \in [Panels -> Panel] /\ ChainOK(p)'
        /\ panel'[p].request = panel[p].request
    <3>1. PICK pc \in {"idle", "holdQuote", "createBooking", "booked"} : pc = "booked"
      OBVIOUS
    <3>2. Goto(p, pc, q, b)
      BY <2>3, <3>1
    <3>3. QED
      BY <2>1, <2>4, <3>1, <3>2, MovedPanel
  <2>6. QED
    BY <1>3, <2>3, <2>5, OnePanelMoves
<1>7. CASE Fails(p)
  <2>1. panel[p].pc # "idle" /\ UNCHANGED page
    BY <1>7 DEF Fails
  <2>2. PICK q \in Quotes \cup {NoQuote} : q = panel[p].quote
    BY <1>2
  <2>3. Goto(p, "idle", q, NoBooking)
    BY <1>7, <2>2 DEF Fails, Goto
  <2>4. /\ panel' \in [Panels -> Panel] /\ ChainOK(p)'
        /\ panel'[p].request = panel[p].request
    <3>1. PICK pc \in {"idle", "holdQuote", "createBooking", "booked"} : pc = "idle"
      OBVIOUS
    <3>2. PICK b \in Bookings \cup {NoBooking} : b = NoBooking
      OBVIOUS
    <3>3. Goto(p, pc, q, b)
      BY <2>3, <3>1, <3>2
    <3>4. QED
      BY <2>1, <3>1, <3>2, <3>3, MovedPanel
  <2>5. QED
    BY <1>3, <2>3, <2>4, OnePanelMoves
<1>8. QED
  BY <1>4, <1>5, <1>6, <1>7 DEF Chain

LEMMA PanelStep ==
  ASSUME TablesAgree, PageShape, PageInv, CacheInv, ChainInv, PageMoves, Onward,
         page' \in Page, [PageNext]_pageVars
  PROVE  PanelsOK
<1>1. CASE UNCHANGED panel
  BY <1>1, NoPanelMoves
<1>2. ASSUME NEW p \in Panels, Click(p) PROVE PanelsOK
  <2>1. \A r \in Panels \ {p} : panel'[r] = panel[r]
    BY <1>2 DEF Click, PageShape
  <2>2. QED
    BY <1>2, <2>1, ClickedPanel, OnePanelMoves
<1>3. ASSUME NEW p \in Panels, Chain(p) PROVE PanelsOK
  BY <1>3, ChainMoves
<1>4. QED
  BY <1>1, <1>2, <1>3
  DEF PageNext, pageVars, Search, Select, Focus, Calculated, Land, Users

\* Which quote was saved from what.
LEMMA SavedStep ==
  ASSUME PageShape, SavedInv, LedgerStep, PanelsOK
  PROVE  saved' \in [Quotes -> Requests \cup {NoRequest}] /\ SavedInv'
<1>1. \A r \in Requests : r # NoRequest /\ r.panel \in Panels
  BY RequestFacts
<1>2. ASSUME NEW q \in Quotes, saved'[q] = saved[q], saved[q] # NoRequest
      PROVE  saved'[q] = panel'[saved'[q].panel].request
  <2>1. PICK r \in Requests : r = saved[q] /\ r = panel[r.panel].request
    BY <1>2 DEF PageShape, SavedInv
  <2>2. panel'[r.panel].request = r
    BY <1>1, <2>1 DEF PanelsOK
  <2>3. QED
    BY <1>2, <2>1, <2>2
<1>3. CASE UNCHANGED saved
  BY <1>2, <1>3 DEF PageShape, SavedInv
<1>4. ASSUME NEW q \in Quotes, NEW r \in Requests, SaveQuote(r, q), r = panel[r.panel].request
      PROVE  saved' \in [Quotes -> Requests \cup {NoRequest}] /\ SavedInv'
  <2>1. /\ saved' \in [Quotes -> Requests \cup {NoRequest}] /\ saved'[q] = r
        /\ \A p \in Quotes \ {q} : saved'[p] = saved[p]
    BY <1>4 DEF SaveQuote, PageShape
  <2>2. panel'[r.panel].request = r
    BY <1>1, <1>4 DEF PanelsOK
  <2>3. QED
    BY <1>2, <2>1, <2>2 DEF SavedInv
<1>5. QED
  BY <1>3, <1>4 DEF LedgerStep

\* A lost call stays true to the panel that made it, however late it lands.
LEMMA LateStep ==
  ASSUME PageShape, ChainInv, LateInv, Onward, PanelsOK, [PageNext]_pageVars
  PROVE  late' \subseteq Calls /\ LateInv'
<1> DEFINE True(call) ==
      /\ call.op = "createQuote" => call.request = panel'[call.request.panel].request
      /\ call.op = "createBooking" =>
           /\ quotes'[call.quote] # None /\ saved'[call.quote] \in Requests
           /\ call.key = Key(saved'[call.quote].panel)
<1>1. \A r \in Requests : r # NoRequest /\ r.panel \in Panels
  BY RequestFacts
<1>2. ASSUME NEW call \in late PROVE call \in Calls /\ True(call)
  <2>1. call \in Calls
    BY DEF PageShape
  <2>2. ASSUME call.op = "createQuote" PROVE call.request = panel'[call.request.panel].request
    <3>1. call.request \in Requests
      BY <2>1, <2>2 DEF Calls
    <3>2. PICK r \in Requests : r = call.request /\ r = panel[r.panel].request
      BY <2>2, <3>1 DEF LateInv
    <3>3. QED
      BY <1>1, <3>2 DEF PanelsOK
  <2>3. ASSUME call.op = "createBooking"
        PROVE  /\ quotes'[call.quote] # None /\ saved'[call.quote] \in Requests
               /\ call.key = Key(saved'[call.quote].panel)
    <3>1. call.quote \in Quotes
      BY <2>1, <2>3 DEF Calls
    <3>2. /\ quotes[call.quote] # None /\ saved[call.quote] \in Requests
          /\ call.key = Key(saved[call.quote].panel)
      BY <2>3 DEF LateInv
    <3>3. QED
      BY <3>1, <3>2 DEF Onward, Key
  <2>4. QED
    BY <2>1, <2>2, <2>3
<1>3. ASSUME late' \subseteq late PROVE late' \subseteq Calls /\ LateInv'
  BY <1>2, <1>3 DEF LateInv
<1>4. ASSUME NEW call \in Calls, True(call), late' = late \cup {call}
      PROVE  late' \subseteq Calls /\ LateInv'
  BY <1>2, <1>4 DEF LateInv
<1>5. ASSUME NEW p \in Panels, Fails(p) PROVE late' \subseteq Calls /\ LateInv'
  <2>1. panel[p].pc # "idle"
    BY <1>5 DEF Fails
  <2>2. PICK r \in Requests : r = panel[p].request /\ r.panel = p
    BY <2>1, RunningPanel
  <2>3. panel'[r.panel].request = r
    BY <1>1, <2>2 DEF PanelsOK
  <2>4. CASE UNCHANGED late
    BY <1>3, <2>4
  <2>5. CASE late' = late \cup {[op |-> "createQuote", request |-> panel[p].request]}
    <3> DEFINE call == [op |-> "createQuote", request |-> r]
    <3>1. call \in Calls
      BY DEF Calls
    <3>2. True(call)
      BY <2>3
    <3> HIDE DEF call
    <3>3. late' = late \cup {call}
      BY <2>2, <2>5 DEF call
    <3>4. QED
      BY <1>4, <3>1, <3>2, <3>3
  <2>6. CASE /\ panel[p].pc = "holdQuote"
             /\ late' = late \cup {[op |-> "holdQuote", quote |-> panel[p].quote]}
    <3>1. PICK q \in Quotes : q = panel[p].quote
      BY <2>6, RunningPanel
    <3> DEFINE call == [op |-> "holdQuote", quote |-> q]
    <3>2. call \in Calls
      BY DEF Calls
    <3>3. True(call)
      OBVIOUS
    <3> HIDE DEF call
    <3>4. late' = late \cup {call}
      BY <2>6, <3>1 DEF call
    <3>5. QED
      BY <1>4, <3>2, <3>3, <3>4
  <2>7. CASE /\ panel[p].pc = "createBooking"
             /\ late' = late \cup {[op |-> "createBooking", quote |-> panel[p].quote,
                                    key |-> Key(p)]}
    <3>1. PICK q \in Quotes : q = panel[p].quote /\ quotes[q] # None /\ saved[q] = r
      BY <2>2, <2>7, RunningPanel
    <3>2. PICK k \in Keys : k = Key(p)
      BY KeyFacts
    <3> DEFINE call == [op |-> "createBooking", quote |-> q, key |-> k]
    <3>3. call \in Calls
      BY DEF Calls
    <3>4. True(call)
      <4>1. quotes'[q] # None /\ saved'[q] = r
        BY <3>1 DEF Onward
      <4>2. QED
        BY <2>2, <3>2, <4>1
    <3> HIDE DEF call
    <3>5. late' = late \cup {call}
      BY <2>7, <3>1, <3>2 DEF call
    <3>6. QED
      BY <1>4, <3>3, <3>4, <3>5
  <2>8. QED
    BY <1>5, <2>4, <2>5, <2>6, <2>7 DEF Fails
<1>6. ASSUME NEW call \in late, Land(call) PROVE late' \subseteq Calls /\ LateInv'
  BY <1>3, <1>6 DEF Land
<1>7. CASE UNCHANGED late
  BY <1>3, <1>7
<1>8. QED
  BY <1>5, <1>6, <1>7
  DEF PageNext, pageVars, Search, Select, Focus, Calculated, Click, Chain,
      QuoteSaved, QuoteHeld, BookingCreated, Users

-------------------------------------------------------------------------------

LEMMA WholeInvInit == PageInit => WholeInv
<1> SUFFICES ASSUME PageInit PROVE WholeInv
  OBVIOUS
<1>1. TablesAgree
  BY TablesAgreeInit DEF PageInit
<1>2. PageShape
  <2>1. page \in Page
    BY PageConstants DEF PageInit, Page
  <2>2. panel \in [Panels -> Panel]
    BY DEF PageInit, Panel
  <2>3. QED
    BY <2>1, <2>2 DEF PageInit, PageShape
<1>3. PageInv /\ CacheInv
  BY DEF PageInit, PageInv, CacheInv, Known
<1>4. ChainInv
  BY DEF PageInit, ChainInv, ChainOK
<1>5. SavedInv /\ LateInv
  BY DEF PageInit, SavedInv, LateInv
<1>6. BookedInv
  BY DEF PageInit, Init, BookedInv, Exists, NoRow
<1>7. QED
  BY <1>1, <1>2, <1>3, <1>4, <1>5, <1>6 DEF WholeInv

LEMMA WholeInvStep == WholeInv /\ [PageNext]_pageVars => WholeInv'
<1> SUFFICES ASSUME WholeInv, [PageNext]_pageVars PROVE WholeInv'
  OBVIOUS
<1>1. /\ TablesAgree /\ PageShape /\ PageInv /\ CacheInv /\ ChainInv /\ SavedInv
      /\ LateInv /\ BookedInv /\ ScreenOK
  BY DEF WholeInv, ScreenOK, PageShape
<1>2. LedgerStep
  BY <1>1, PageStepIsALedgerStep
<1>3. TablesAgree' /\ Onward /\ BookedInv'
  BY <1>1, <1>2, TablesStep, LedgerMovesOnward, BookedStep
<1>4. ScreenOK' /\ PageMoves
  BY <1>1, ScreenStep
<1>5. PanelsOK
  BY <1>1, <1>3, <1>4, PanelStep DEF ScreenOK
<1>6. saved' \in [Quotes -> Requests \cup {NoRequest}] /\ SavedInv'
  BY <1>1, <1>2, <1>5, SavedStep
<1>7. late' \subseteq Calls /\ LateInv'
  BY <1>1, <1>3, <1>5, LateStep
<1>8. PageShape' /\ ChainInv'
  BY <1>4, <1>5, <1>6, <1>7 DEF ScreenOK, PanelsOK, PageShape
<1>9. QED
  BY <1>3, <1>4, <1>6, <1>7, <1>8 DEF WholeInv, ScreenOK

LEMMA PageInvariant == PageSpec => []WholeInv
  BY WholeInvInit, WholeInvStep, PTL DEF PageSpec

\* However often the user clicks, whatever was lost or lands late, and however
\* many panels share the ledger, one panel makes at most one booking: the key
\* that RatesPage draws once per BookingPanel names one booking.
THEOREM PanelBooksOnce == PageSpec => []OneBookingPerPanel
<1>1. WholeInv => OneBookingPerPanel
  <2> SUFFICES ASSUME WholeInv, NEW b \in Bookings, NEW c \in Bookings, Exists(b), Exists(c),
                      saved[bookings[b].quote].panel = saved[bookings[c].quote].panel
               PROVE  b = c
    BY DEF OneBookingPerPanel
  <2>1. bookings[b].key = bookings[c].key
    BY DEF WholeInv, BookedInv, Key
  <2>2. QED
    BY <2>1 DEF WholeInv, TablesAgree, KeyNamesOneBooking
<1>2. QED
  BY <1>1, PageInvariant, PTL

\* The last call of a chain finds its quote HELD or its own booking: a retry is
\* never answered 409.
THEOREM RetriesSucceed == PageSpec => []RetryIsNotRefused
<1>1. WholeInv => RetryIsNotRefused
  BY DEF WholeInv, ChainInv, ChainOK, RetryIsNotRefused, BookedUnder
<1>2. QED
  BY <1>1, PageInvariant, PTL

\* What is booked is what was shown: the card, the shipment and the price of
\* the click, which are those that rates-service found and computed.
THEOREM ShownIsBooked == PageSpec => []BookedAsShown
<1>1. WholeInv => BookedAsShown
  <2> SUFFICES ASSUME WholeInv, NEW p \in Panels, panel[p].booking # NoBooking
               PROVE  LET request == saved[bookings[panel[p].booking].quote] IN
                      /\ request = panel[p].request
                      /\ request.price = Quoted(request.card, request.shipment)
                      /\ request.price # NoPrice
                      /\ request.card \in Found(request.shipment)
    BY DEF BookedAsShown
  <2>1. /\ panel[p] \in Panel /\ ChainOK(p) /\ RowShape
        /\ TypeOK /\ SavedInv /\ BookedInv
    BY DEF WholeInv, PageShape, ChainInv, TablesAgree
  <2>2. PICK b \in Bookings : b = panel[p].booking
    BY <2>1 DEF Panel
  <2>3. bookings[b].key = Key(p)
    BY <2>1, <2>2 DEF ChainOK
  <2>4. Exists(b) /\ bookings[b].quote \in Quotes
    <3>1. bookings[b] # NoRow
      BY <2>3, KeyFacts, LedgerConstants DEF NoRow
    <3>2. QED
      BY <2>1, <3>1 DEF RowShape
  <2>5. PICK r \in Requests : r = saved[bookings[b].quote] /\ Key(p) = Key(r.panel)
    BY <2>1, <2>3, <2>4 DEF BookedInv, Key
  <2>6. r.panel = p
    BY <2>5, KeyFacts
  <2>7. r = panel[p].request
    BY <2>1, <2>4, <2>5, <2>6, RequestFacts DEF SavedInv
  <2>8. /\ r.price = Quoted(r.card, r.shipment) /\ r.price # NoPrice
        /\ r.card \in Found(r.shipment)
    BY <2>5, RequestFacts DEF Wanted
  <2>9. QED
    BY <2>2, <2>5, <2>7, <2>8
<1>2. QED
  BY <1>1, PageInvariant, PTL

\* Behind the page the ledger is still the ledger: every step of the page is a
\* step of BookingLedger or leaves it alone.
THEOREM PageKeepsTheLedger == PageSpec => Spec
<1>1. PageInit => Init
  BY DEF PageInit
<1>2. WholeInv /\ [PageNext]_pageVars => [Next]_vars
  <2> SUFFICES ASSUME WholeInv, [PageNext]_pageVars PROVE [Next]_vars
    OBVIOUS
  <2>1. QED
    BY PageStepIsALedgerStep, LedgerStepIsNext DEF WholeInv
<1>3. QED
  BY <1>1, <1>2, PageInvariant, PTL DEF PageSpec, Spec

\* So a quote is sold once, the log is the history of its booking, and nothing
\* of it is rewritten, also for bookings made from the rates page.
COROLLARY PageLedgerHolds ==
  PageSpec => [](TypeOK /\ LedgerConsistent /\ LogExplainsStatus) /\ HistoryOnlyGrows
  BY PageKeepsTheLedger, TypeCorrect, LedgerIsConsistent, LogIsTheHistory,
     HistoryIsAppendOnly, PTL

-------------------------------------------------------------------------------
(* Induction and recursion on the natural numbers, stated about sets.       *)

LEMMA LeastNumber ==
  ASSUME NEW T, T \subseteq Nat, T # {}
  PROVE  \E n \in T : \A m \in T : n <= m
<1> DEFINE R == OpToRel(<, Nat)
<1>1. \E n \in T : \A m \in T : ~ (<<m, n>> \in R)
  <2>1. IsWellFoundedOn(R, Nat)
    BY NatLessThanWellFounded
  <2> HIDE DEF R
  <2>2. QED
    BY <2>1, WFMin
<1>2. PICK n \in T : \A m \in T : ~ (<<m, n>> \in R)
  BY <1>1
<1>3. ASSUME NEW m \in T
      PROVE  n <= m
  <2>1. m \in Nat /\ n \in Nat
    OBVIOUS
  <2>2. ~ (m < n)
    BY <1>2, <2>1 DEF OpToRel
  <2>3. QED
    BY <2>1, <2>2
<1>4. QED
  BY <1>3

LEMMA Induction ==
  ASSUME NEW S, 0 \in S, \A n \in Nat : n \in S => n + 1 \in S
  PROVE  \A n \in Nat : n \in S
<1>1. SUFFICES ASSUME Nat \ S # {}
               PROVE  FALSE
  OBVIOUS
<1>2. PICK n \in Nat \ S : \A m \in Nat \ S : n <= m
  BY <1>1, LeastNumber
<1>3. n - 1 \in Nat /\ ~ (n <= n - 1)
  BY <1>2
<1>4. n - 1 \in S
  BY <1>2, <1>3
<1>5. QED
  BY <1>3, <1>4

LEMMA BoundedInduction ==
  ASSUME NEW n \in Nat, NEW S, 0 \in S, \A k \in 1 .. n : k - 1 \in S => k \in S
  PROVE  0 .. n \subseteq S
<1> DEFINE T == {k \in Nat : k \in 0 .. n => k \in S}
<1>1. 0 \in T
  OBVIOUS
<1>2. ASSUME NEW k \in Nat, k \in T
      PROVE  k + 1 \in T
  <2>1. CASE k + 1 \in 0 .. n
    <3>1. k \in S /\ k + 1 \in 1 .. n /\ (k + 1) - 1 = k
      BY <1>2, <2>1
    <3>2. QED
      BY <3>1
  <2>2. QED
    BY <2>1
<1> HIDE DEF T
<1>3. \A k \in Nat : k \in T
  BY <1>1, <1>2, Induction
<1>4. \A k \in 0 .. n : k \in Nat
  OBVIOUS
<1>5. QED
  BY <1>3, <1>4 DEF T

\* f[0] is a, and every next value follows from the one before.
Computes(f, n, a, D) ==
  /\ f \in [0 .. n -> Int]
  /\ f[0] = a
  /\ \A i \in 1 .. n : f[i] = D[<<i, f[i - 1]>>]

\* A recursion that computes integers from integers defines a function.
LEMMA RecursionIsDefined ==
  ASSUME NEW a \in Int, NEW D \in [Nat \X Int -> Int]
  PROVE  \A n \in Nat : \E f : Computes(f, n, a, D)
<1> DEFINE S == {n \in Nat : \E f : Computes(f, n, a, D)}
<1>1. 0 \in S
  <2> DEFINE f == [i \in 0 .. 0 |-> a]
  <2>1. Computes(f, 0, a, D)
    BY DEF Computes
  <2>2. QED
    BY <2>1
<1>2. ASSUME NEW n \in Nat, n \in S
      PROVE  n + 1 \in S
  <2>1. PICK f : Computes(f, n, a, D)
    BY <1>2
  <2> DEFINE g == [i \in 0 .. n + 1 |-> IF i = n + 1 THEN D[<<i, f[n]>>] ELSE f[i]]
  <2>2. ASSUME NEW i \in 0 .. n + 1
        PROVE  /\ g[i] \in Int
               /\ i # 0 => g[i] = D[<<i, g[i - 1]>>]
               /\ i = 0 => g[i] = a
    <3>1. i \in Nat /\ f \in [0 .. n -> Int] /\ n \in 0 .. n /\ f[n] \in Int
      BY <2>1 DEF Computes
    <3>2. CASE i = n + 1
      <4>1. i # 0 /\ i - 1 = n /\ n \in 0 .. n + 1 /\ n # n + 1
        BY <3>2
      <4>2. g[n] = f[n] /\ g[i] = D[<<i, f[n]>>]
        BY <3>2, <4>1
      <4>3. <<i, f[n]>> \in Nat \X Int
        BY <3>1
      <4>4. QED
        BY <4>1, <4>2, <4>3
    <3>3. CASE i # n + 1 /\ i # 0
      <4>1. i \in 0 .. n /\ i \in 1 .. n /\ i - 1 \in 0 .. n + 1 /\ i - 1 # n + 1
        BY <3>1, <3>3
      <4>2. g[i] = f[i] /\ g[i - 1] = f[i - 1] /\ f[i] \in Int
        BY <3>1, <3>3, <4>1
      <4>3. f[i] = D[<<i, f[i - 1]>>]
        BY <2>1, <4>1 DEF Computes
      <4>4. QED
        BY <3>3, <4>2, <4>3
    <3>4. CASE i # n + 1 /\ i = 0
      <4>1. 0 \in 0 .. n /\ g[0] = f[0]
        BY <3>4
      <4>2. QED
        BY <2>1, <3>1, <3>4, <4>1 DEF Computes
    <3>5. QED
      BY <3>2, <3>3, <3>4
  <2>3. Computes(g, n + 1, a, D)
    <3>1. g \in [0 .. n + 1 -> Int]
      BY <2>2
    <3>2. 0 \in 0 .. n + 1 /\ \A i \in 1 .. n + 1 : i \in 0 .. n + 1 /\ i # 0
      OBVIOUS
    <3> HIDE DEF g
    <3>3. QED
      BY <2>2, <3>1, <3>2 DEF Computes
  <2>4. QED
    BY <2>3
<1> HIDE DEF S
<1>3. \A n \in Nat : n \in S
  BY <1>1, <1>2, Induction
<1>4. QED
  BY <1>3 DEF S

-------------------------------------------------------------------------------
(* Sums, exact and of longs.                                                *)

LEMMA SumIs ==
  ASSUME NEW ns \in Seq(Int)
  PROVE  \E f \in [0 .. Len(ns) -> Int] :
           /\ f[0] = 0
           /\ \A i \in 1 .. Len(ns) : f[i] = f[i - 1] + ns[i]
           /\ Sum(ns) = f[Len(ns)]
<1> DEFINE n == Len(ns)
           Equation(f) == f = [i \in 0 .. n |-> IF i = 0 THEN 0 ELSE f[i - 1] + ns[i]]
           sum == CHOOSE f : Equation(f)
           D == [p \in Nat \X Int |-> IF p[1] \in 1 .. n THEN p[2] + ns[p[1]] ELSE 0]
<1>1. n \in Nat /\ \A i \in 1 .. n : ns[i] \in Int
  OBVIOUS
<1>2. \E f : Equation(f)
  <2>1. D \in [Nat \X Int -> Int]
    BY <1>1
  <2> HIDE DEF D, n
  <2>2. PICK f : Computes(f, n, 0, D)
    BY <1>1, <2>1, RecursionIsDefined
  <2>3. f = [i \in 0 .. n |-> f[i]]
    BY <2>2 DEF Computes
  <2>4. ASSUME NEW i \in 0 .. n
        PROVE  f[i] = IF i = 0 THEN 0 ELSE f[i - 1] + ns[i]
    <3>1. CASE i # 0
      <4>1. i \in Nat /\ i \in 1 .. n /\ i - 1 \in 0 .. n
        BY <1>1, <3>1
      <4>2. f[i - 1] \in Int /\ f[i] = D[<<i, f[i - 1]>>]
        BY <2>2, <4>1 DEF Computes
      <4>3. QED
        BY <3>1, <4>1, <4>2 DEF D
    <3>2. QED
      BY <2>2, <3>1 DEF Computes
  <2>5. QED
    BY <2>3, <2>4
<1>3. Equation(sum)
  BY <1>2
<1>4. Sum(ns) = sum[n]
  BY DEF Sum
<1> HIDE DEF sum, n
<1>5. DOMAIN sum = 0 .. n /\ sum[0] = 0 /\ \A i \in 1 .. n : sum[i] = sum[i - 1] + ns[i]
  <2>1. 0 \in 0 .. n
    BY <1>1
  <2>2. \A i \in 1 .. n : i \in 0 .. n /\ i # 0
    BY <1>1
  <2>3. QED
    BY <1>3, <2>1, <2>2
<1>6. 0 .. n \subseteq {k \in 0 .. n : sum[k] \in Int}
  <2> DEFINE S == {k \in 0 .. n : sum[k] \in Int}
  <2>1. 0 \in S
    BY <1>1, <1>5
  <2>2. ASSUME NEW k \in 1 .. n, k - 1 \in S
        PROVE  k \in S
    <3>1. PICK x \in Int, y \in Int : x = sum[k - 1] /\ y = ns[k]
      BY <1>1, <2>2
    <3>2. sum[k] = x + y
      BY <1>5, <3>1
    <3>3. k \in 0 .. n
      BY <1>1
    <3>4. QED
      BY <3>2, <3>3
  <2> HIDE DEF S
  <2>3. QED
    BY <1>1, <2>1, <2>2, BoundedInduction DEF S
<1>7. sum \in [0 .. n -> Int]
  <2>1. sum = [i \in 0 .. n |-> sum[i]]
    BY <1>3
  <2>2. QED
    BY <1>6, <2>1
<1>8. QED
  BY <1>4, <1>5, <1>7 DEF n

LEMMA SumIsAnInteger ==
  ASSUME NEW ns \in Seq(Int)
  PROVE  Sum(ns) \in Int
<1>1. Len(ns) \in Nat /\ Len(ns) \in 0 .. Len(ns)
  OBVIOUS
<1>2. QED
  BY <1>1, SumIs

Division(x, N, q, r) == x = q * N + r /\ 0 <= r /\ r < N

LEMMA Divides ==
  ASSUME NEW N \in Nat \ {0}, NEW x \in Int
  PROVE  \E q \in Int, r \in Int : Division(x, N, q, r) /\ q = x \div N /\ r = x % N
BY DEF Division

\* What is added to an integer as often as one likes does not change the rest.
LEMMA RestIsUnique ==
  ASSUME NEW N \in Nat \ {0}, NEW x \in Int, NEW q \in Int, NEW r \in Int, Division(x, N, q, r)
  PROVE  x % N = r /\ x \div N = q
<1>1. PICK p \in Int, s \in Int : Division(x, N, p, s) /\ p = x \div N /\ s = x % N
  BY Divides
<1>2. ASSUME NEW u \in Int, NEW v \in Int, NEW a \in Int, NEW b \in Int,
             Division(x, N, u, a), Division(x, N, v, b)
      PROVE  ~ (u < v)
  <2>1. SUFFICES ASSUME u < v
                 PROVE  FALSE
    OBVIOUS
  <2>2. v * N >= (u + 1) * N
    BY <2>1
  <2>3. (u + 1) * N = u * N + N
    OBVIOUS
  <2>4. QED
    BY <1>2, <2>2, <2>3 DEF Division
<1>3. p = q
  BY <1>1, <1>2
<1>4. QED
  BY <1>1, <1>3 DEF Division

LEMMA WrapIs ==
  ASSUME NEW n \in Int
  PROVE  /\ Wrap(n) \in Int /\ Fits(Wrap(n))
         /\ Fits(n) => Wrap(n) = n
<1>1. PICK N \in Nat \ {0}, h \in Nat : N = 2 * MaxLong + 2 /\ h = MaxLong + 1 /\ N = 2 * h
  BY PricingConstants
<1>2. PICK s \in Int : s = (n + h) % N /\ 0 <= s /\ s < N
  BY <1>1
<1>3. Wrap(n) = s - h
  BY <1>1, <1>2, PricingConstants DEF Wrap
<1>4. ASSUME Fits(n)
      PROVE  s = n + h
  <2>1. 0 <= n + h /\ n + h < N
    BY <1>1, <1>4, PricingConstants DEF Fits
  <2>2. n + h \in Int /\ Division(n + h, N, 0, n + h)
    BY <2>1 DEF Division
  <2>3. QED
    BY <1>2, <2>1, <2>2, RestIsUnique
<1>5. - MaxLong - 1 <= s - h /\ s - h <= MaxLong
  BY <1>1, <1>2, PricingConstants
<1>6. Wrap(n) \in Int /\ Fits(Wrap(n))
  BY <1>2, <1>3, <1>5 DEF Fits
<1>7. Fits(n) => Wrap(n) = n
  BY <1>1, <1>2, <1>3, <1>4
<1>8. QED
  BY <1>6, <1>7

WrapsTo(n, N, h, q, r) ==
  /\ N = 2 * MaxLong + 2 /\ h = MaxLong + 1
  /\ Division(n + h, N, q, r)

LEMMA WrapTo ==
  ASSUME NEW n \in Int, NEW N \in Int, NEW h \in Int, NEW q \in Int, NEW r \in Int,
         WrapsTo(n, N, h, q, r)
  PROVE  Wrap(n) = r - h
<1>1. N \in Nat \ {0} /\ N = 2 * MaxLong + 2 /\ h = MaxLong + 1
  BY PricingConstants DEF WrapsTo
<1>2. PICK x \in Int : x = n + h
  OBVIOUS
<1>3. Division(x, N, q, r)
  BY <1>2 DEF WrapsTo
<1>4. x % N = r
  BY <1>1, <1>3, RestIsUnique
<1>5. (n + MaxLong + 1) % (2 * MaxLong + 2) = r
  <2>1. n + MaxLong + 1 = x
    BY <1>1, <1>2, PricingConstants
  <2>2. QED
    BY <1>1, <1>4, <2>1
<1>6. QED
  BY <1>1, <1>5, PricingConstants DEF Wrap

\* To wrap on the way does no harm.
LEMMA WrapAdds ==
  ASSUME NEW m \in Int, NEW n \in Int
  PROVE  Wrap(Wrap(m) + n) = Wrap(m + n)
<1>1. PICK N \in Nat \ {0}, h \in Nat : N = 2 * MaxLong + 2 /\ h = MaxLong + 1
  BY PricingConstants
<1>2. PICK x \in Int, q \in Int, r \in Int : x = m + h /\ Division(x, N, q, r)
  <2>1. m + h \in Int
    OBVIOUS
  <2>2. QED
    BY <2>1, Divides
<1>3. Wrap(m) = r - h
  <2>1. WrapsTo(m, N, h, q, r)
    BY <1>1, <1>2 DEF WrapsTo
  <2>2. N \in Int /\ h \in Int
    OBVIOUS
  <2>3. QED
    BY <2>1, <2>2, WrapTo
<1>4. PICK y \in Int, p \in Int, s \in Int : y = r + n /\ Division(y, N, p, s)
  <2>1. r + n \in Int
    OBVIOUS
  <2>2. QED
    BY <2>1, Divides
<1>5. PICK z \in Int, t \in Int : z = m + n /\ t = q + p
  OBVIOUS
<1>6. Division(z + h, N, t, s)
  <2>1. (q + p) * N = q * N + p * N
    OBVIOUS
  <2>2. PICK a \in Int, b \in Int : a = q * N /\ b = p * N
    OBVIOUS
  <2>3. t * N = a + b /\ x = a + r /\ y = b + s
    BY <1>2, <1>4, <1>5, <2>1, <2>2 DEF Division
  <2>4. x = m + h /\ y = r + n
    BY <1>2, <1>4
  <2>5. z + h = (a + b) + s
    BY <1>5, <2>3, <2>4
  <2>6. z + h = t * N + s
    BY <2>3, <2>5
  <2>7. QED
    BY <1>4, <2>6 DEF Division
<1>7. Wrap(z) = s - h
  <2>1. WrapsTo(z, N, h, t, s)
    BY <1>1, <1>6 DEF WrapsTo
  <2>2. N \in Int /\ h \in Int
    OBVIOUS
  <2>3. QED
    BY <2>1, <2>2, WrapTo
<1>8. PICK w \in Int : w = Wrap(m) + n /\ w + h = y
  <2>1. (r - h) + n \in Int /\ ((r - h) + n) + h = r + n
    OBVIOUS
  <2>2. QED
    BY <1>3, <1>4, <2>1
<1>9. Wrap(w) = s - h
  <2>1. WrapsTo(w, N, h, p, s)
    BY <1>1, <1>4, <1>8 DEF WrapsTo
  <2>2. N \in Int /\ h \in Int
    OBVIOUS
  <2>3. QED
    BY <2>1, <2>2, WrapTo
<1>10. QED
  BY <1>5, <1>7, <1>8, <1>9

LEMMA TotalIs ==
  ASSUME NEW base \in Int, NEW surcharges, Len(surcharges) \in Nat,
         \A i \in 1 .. Len(surcharges) : Line(base, surcharges[i]) \in Int
  PROVE  \E f \in [0 .. Len(surcharges) -> Int] :
           /\ f[0] = base
           /\ \A i \in 1 .. Len(surcharges) : f[i] = Plus(f[i - 1], Line(base, surcharges[i]))
           /\ Total(base, surcharges) = f[Len(surcharges)]
<1> DEFINE n == Len(surcharges)
           line(i) == Line(base, surcharges[i])
           Equation(f) ==
             f = [i \in 0 .. n |-> IF i = 0 THEN base ELSE Plus(f[i - 1], line(i))]
           total == CHOOSE f : Equation(f)
           D == [p \in Nat \X Int |-> IF p[1] \in 1 .. n THEN Plus(p[2], line(p[1])) ELSE 0]
<1>1. n \in Nat /\ \A i \in 1 .. n : line(i) \in Int
  OBVIOUS
<1>2. \E f : Equation(f)
  <2> HIDE DEF n, line
  <2>1. D \in [Nat \X Int -> Int]
    BY <1>1, WrapIs DEF Plus
  <2> HIDE DEF D
  <2>2. PICK f : Computes(f, n, base, D)
    BY <1>1, <2>1, RecursionIsDefined
  <2>3. f = [i \in 0 .. n |-> f[i]]
    BY <2>2 DEF Computes
  <2>4. ASSUME NEW i \in 0 .. n
        PROVE  f[i] = IF i = 0 THEN base ELSE Plus(f[i - 1], line(i))
    <3>1. CASE i # 0
      <4>1. i \in Nat /\ i \in 1 .. n /\ i - 1 \in 0 .. n
        BY <1>1, <3>1
      <4>2. f[i - 1] \in Int /\ f[i] = D[<<i, f[i - 1]>>]
        BY <2>2, <4>1 DEF Computes
      <4>3. QED
        BY <3>1, <4>1, <4>2 DEF D
    <3>2. QED
      BY <2>2, <3>1 DEF Computes
  <2>5. QED
    BY <2>3, <2>4
<1>3. Equation(total)
  BY <1>2
<1>4. Total(base, surcharges) = total[n]
  BY DEF Total
<1> HIDE DEF total, n, line
<1>5. total[0] = base /\ \A i \in 1 .. n : total[i] = Plus(total[i - 1], line(i))
  <2>1. 0 \in 0 .. n
    BY <1>1
  <2>2. \A i \in 1 .. n : i \in 0 .. n /\ i # 0
    BY <1>1
  <2>3. QED
    BY <1>3, <2>1, <2>2
<1>6. 0 .. n \subseteq {k \in 0 .. n : total[k] \in Int}
  <2> DEFINE S == {k \in 0 .. n : total[k] \in Int}
  <2>1. 0 \in S
    BY <1>1, <1>5
  <2>2. ASSUME NEW k \in 1 .. n, k - 1 \in S
        PROVE  k \in S
    <3>1. k \in 0 .. n
      BY <1>1
    <3>2. PICK x \in Int, y \in Int : x = total[k - 1] /\ y = line(k)
      BY <1>1, <2>2
    <3>3. Wrap(x + y) \in Int
      BY WrapIs
    <3>4. total[k] = Wrap(x + y)
      BY <1>5, <3>2 DEF Plus
    <3>5. QED
      BY <3>1, <3>3, <3>4
  <2> HIDE DEF S
  <2>3. QED
    BY <1>1, <2>1, <2>2, BoundedInduction DEF S
<1>7. total \in [0 .. n -> Int]
  <2>1. total = [i \in 0 .. n |-> total[i]]
    BY <1>3
  <2>2. QED
    BY <1>6, <2>1
<1>8. QED
  BY <1>4, <1>5, <1>7 DEF n, line

-------------------------------------------------------------------------------
(* The lines of a price.                                                    *)

LEMMA HalfUpIs ==
  ASSUME NEW n \in Int, NEW d \in Nat \ {0}
  PROVE  HalfUp(n, d) \in Int /\ (n >= 0 => HalfUp(n, d) \in Nat)
<1> DEFINE up(m) == (2 * m + d) \div (2 * d)
<1>1. ASSUME NEW m \in Nat
      PROVE  up(m) \in Nat
  <2>1. PICK x \in Nat, N \in Nat \ {0} : x = 2 * m + d /\ N = 2 * d
    OBVIOUS
  <2>2. x \div N \in Nat
    OBVIOUS
  <2>3. QED
    BY <2>1, <2>2
<1>2. HalfUp(n, d) = IF n < 0 THEN - up(- n) ELSE up(n)
  BY DEF HalfUp
<1> HIDE DEF up
<1>3. QED
  BY <1>1, <1>2

LEMMA HalfUpIsMonotone ==
  ASSUME NEW m \in Nat, NEW n \in Nat, m <= n, NEW d \in Nat \ {0}
  PROVE  HalfUp(m, d) <= HalfUp(n, d)
<1>1. PICK x \in Int, y \in Int, N \in Nat \ {0} :
        x = 2 * m + d /\ y = 2 * n + d /\ N = 2 * d /\ x <= y
  OBVIOUS
<1>2. PICK q \in Int, r \in Int : Division(x, N, q, r) /\ q = x \div N
  BY Divides
<1>3. PICK p \in Int, s \in Int : Division(y, N, p, s) /\ p = y \div N
  BY Divides
<1>4. q <= p
  <2>1. SUFFICES ASSUME p < q
                 PROVE  FALSE
    BY <1>2, <1>3
  <2>2. q * N >= (p + 1) * N
    BY <2>1
  <2>3. (p + 1) * N = p * N + N
    OBVIOUS
  <2>4. QED
    BY <1>1, <1>2, <1>3, <2>2, <2>3 DEF Division
<1>5. HalfUp(m, d) = q /\ HalfUp(n, d) = p
  BY <1>1, <1>2, <1>3 DEF HalfUp
<1>6. QED
  BY <1>4, <1>5

LEMMA PercentageIsAnInteger ==
  ASSUME NEW base \in Int, NEW bps \in Int
  PROVE  PercentOfBase(base, bps) \in Int
<1>1. base * bps \in Int /\ 10000 \in Nat \ {0}
  OBVIOUS
<1>2. QED
  BY <1>1, HalfUpIs DEF PercentOfBase

\* A percentage is rounded to within half a cent.
LEMMA PercentageIsRounded ==
  ASSUME NEW base \in Int, NEW bps \in Int
  PROVE  WithinHalfACent(PercentOfBase(base, bps), base * bps)
<1>1. PICK n \in Int : n = base * bps
  OBVIOUS
<1>2. PICK h \in Int : h = HalfUp(n, 10000)
  BY HalfUpIs
<1>3. -10000 <= 2 * (10000 * h - n) /\ 2 * (10000 * h - n) <= 10000
  <2>1. CASE n < 0
    <3>1. h = - ((2 * (- n) + 10000) \div 20000)
      BY <1>2, <2>1 DEF HalfUp
    <3>2. QED
      BY <3>1
  <2>2. CASE n >= 0
    <3>1. h = (2 * n + 10000) \div 20000
      BY <1>2, <2>2 DEF HalfUp
    <3>2. QED
      BY <3>1
  <2>3. QED
    BY <2>1, <2>2
<1>4. PercentOfBase(base, bps) = h
  BY <1>1, <1>2 DEF PercentOfBase
<1>5. WithinHalfACent(h, n)
  <2>1. PICK z \in Int : z = 2 * (10000 * h - n)
    OBVIOUS
  <2>2. -10000 <= z /\ z <= 10000
    BY <1>3, <2>1
  <2>3. QED
    BY <2>1, <2>2 DEF WithinHalfACent
<1>6. QED
  BY <1>1, <1>4, <1>5

LEMMA LineIs ==
  ASSUME NEW base \in Int, NEW s \in Surcharge
  PROVE  Line(base, s) \in Int
<1>1. s.amount \in Int
  BY DEF Surcharge
<1>2. PercentOfBase(base, s.amount) \in Int
  BY <1>1, PercentageIsAnInteger
<1>3. QED
  BY <1>1, <1>2 DEF Line

LEMMA LinesAre ==
  ASSUME NEW base \in Int, NEW surcharges \in Seq(Surcharge)
  PROVE  /\ Lines(base, surcharges) \in Seq(Int)
         /\ Len(surcharges) \in Nat /\ Len(Lines(base, surcharges)) = Len(surcharges) + 1
         /\ Lines(base, surcharges)[1] = base
         /\ \A i \in 1 .. Len(surcharges) :
              /\ Line(base, surcharges[i]) \in Int
              /\ Lines(base, surcharges)[i + 1] = Line(base, surcharges[i])
<1> DEFINE n == Len(surcharges)
           charges == [i \in DOMAIN surcharges |-> Line(base, surcharges[i])]
<1>1. n \in Nat /\ DOMAIN surcharges = 1 .. n /\ \A i \in 1 .. n : surcharges[i] \in Surcharge
  OBVIOUS
<1>2. \A i \in 1 .. n : Line(base, surcharges[i]) \in Int
  BY <1>1, LineIs
<1>3. charges \in Seq(Int) /\ Len(charges) = n
      /\ \A i \in 1 .. n : charges[i] = Line(base, surcharges[i])
  BY <1>1, <1>2
<1>4. Lines(base, surcharges) = <<base>> \o charges
  BY DEF Lines
<1> HIDE DEF charges, n
<1>5. PICK all \in Seq(Int) :
        /\ all = <<base>> \o charges /\ Len(all) = n + 1 /\ all[1] = base
        /\ \A i \in 1 .. n : all[i + 1] = charges[i]
  <2>1. <<base>> \in Seq(Int)
    OBVIOUS
  <2>2. <<base>> \o charges \in Seq(Int)
    BY <1>3, <2>1
  <2>3. Len(<<base>> \o charges) = n + 1
    BY <1>1, <1>3, <2>1
  <2>4. (<<base>> \o charges)[1] = base
    BY <1>1, <1>3, <2>1
  <2>5. ASSUME NEW i \in 1 .. n
        PROVE  (<<base>> \o charges)[i + 1] = charges[i]
    BY <1>1, <1>3, <2>1
  <2>6. QED
    BY <2>2, <2>3, <2>4, <2>5
<1>6. QED
  BY <1>1, <1>2, <1>3, <1>4, <1>5 DEF n

\* The total is the sum of the lines in the wrap-around of longs, whatever
\* the order of the additions.
LEMMA TotalIsTheSum ==
  ASSUME NEW base \in Int, Fits(base), NEW surcharges \in Seq(Surcharge)
  PROVE  Total(base, surcharges) = Wrap(Sum(Lines(base, surcharges)))
<1> DEFINE n == Len(surcharges)
           lines == Lines(base, surcharges)
           line(i) == Line(base, surcharges[i])
<1>1. /\ n \in Nat /\ lines \in Seq(Int) /\ Len(lines) = n + 1 /\ lines[1] = base
      /\ \A i \in 1 .. n : line(i) \in Int /\ lines[i + 1] = line(i)
  BY LinesAre
<1>2. PICK g \in [0 .. n + 1 -> Int] :
        /\ g[0] = 0
        /\ \A i \in 1 .. n + 1 : g[i] = g[i - 1] + lines[i]
        /\ Sum(lines) = g[n + 1]
  <2> HIDE DEF lines, n, line
  <2>1. QED
    BY <1>1, SumIs
<1>3. PICK f \in [0 .. n -> Int] :
        /\ f[0] = base
        /\ \A i \in 1 .. n : f[i] = Plus(f[i - 1], line(i))
        /\ Total(base, surcharges) = f[n]
  BY <1>1, TotalIs
<1> HIDE DEF n, lines, line
<1> DEFINE S == {k \in 0 .. n : f[k] = Wrap(g[k + 1])}
<1>4. 0 \in S
  <2>1. 1 \in 1 .. n + 1 /\ 0 \in 0 .. n
    BY <1>1
  <2>2. g[1] = base
    BY <1>1, <1>2, <2>1
  <2>3. f[0] = Wrap(g[0 + 1])
    BY <1>3, <2>2, WrapIs
  <2>4. QED
    BY <2>1, <2>3
<1>5. ASSUME NEW k \in 1 .. n, k - 1 \in S
      PROVE  k \in S
  <2>1. k \in 0 .. n + 1 /\ k \in 0 .. n /\ k + 1 \in 1 .. n + 1 /\ (k + 1) - 1 = k /\ (k - 1) + 1 = k
    BY <1>1
  <2>2. PICK x \in Int, y \in Int : x = g[k] /\ y = line(k)
    BY <1>1, <2>1
  <2>3. g[k + 1] = x + y
    <3>1. PICK m \in 1 .. n + 1 : m = k + 1 /\ m - 1 = k
      BY <2>1
    <3>2. g[m] = g[k] + lines[m] /\ lines[m] = y
      BY <1>1, <1>2, <2>2, <3>1
    <3>3. QED
      BY <2>2, <3>1, <3>2
  <2>4. f[k - 1] = Wrap(x)
    BY <1>5, <2>1, <2>2
  <2>5. f[k] = Plus(f[k - 1], y)
    BY <1>3, <2>2
  <2>6. f[k] = Wrap(Wrap(x) + y)
    BY <2>4, <2>5 DEF Plus
  <2>7. f[k] = Wrap(g[k + 1])
    BY <2>2, <2>3, <2>6, WrapAdds
  <2>8. QED
    BY <2>1, <2>7
<1>6. 0 .. n \subseteq S
  <2> HIDE DEF S
  <2>1. QED
    BY <1>1, <1>4, <1>5, BoundedInduction
<1>7. n \in S
  BY <1>1, <1>6
<1>8. QED
  BY <1>2, <1>3, <1>7 DEF lines

LEMMA ItemIs ==
  ASSUME NEW ns \in Seq(Int), NEW k \in 1 .. Len(ns)
  PROVE  ns[k] \in Int
OBVIOUS

LEMMA BetweenIs ==
  ASSUME NEW i \in Int, NEW j \in Int, NEW k \in Int, k # i, k # j
  PROVE  (i <= k - 1 /\ k - 1 < j) <=> (i <= k /\ k < j)
OBVIOUS

\* To swap two terms does not change a sum.
LEMMA SumSwapped ==
  ASSUME NEW ns \in Seq(Int), NEW ms \in Seq(Int), Len(ms) = Len(ns),
         NEW i \in 1 .. Len(ns), NEW j \in 1 .. Len(ns), i < j,
         ms[i] = ns[j], ms[j] = ns[i],
         \A k \in 1 .. Len(ns) : k # i /\ k # j => ms[k] = ns[k]
  PROVE  Sum(ms) = Sum(ns)
<1>1. PICK n \in Nat : n = Len(ns)
  OBVIOUS
<1>2. PICK f \in [0 .. n -> Int] :
        f[0] = 0 /\ (\A k \in 1 .. n : f[k] = f[k - 1] + ns[k]) /\ Sum(ns) = f[n]
  BY <1>1, SumIs
<1>3. PICK g \in [0 .. n -> Int] :
        g[0] = 0 /\ (\A k \in 1 .. n : g[k] = g[k - 1] + ms[k]) /\ Sum(ms) = g[n]
  BY <1>1, SumIs
<1>4. PICK a \in Int, b \in Int : a = ns[i] /\ b = ns[j]
  OBVIOUS
<1> DEFINE S == {k \in 0 .. n : g[k] = f[k] + (IF i <= k /\ k < j THEN b - a ELSE 0)}
<1>5. 0 \in S
  BY <1>1, <1>2, <1>3
<1>6. ASSUME NEW k \in 1 .. n, k - 1 \in S
      PROVE  k \in S
  <2>1. k \in 0 .. n /\ k - 1 \in 0 .. n /\ ns[k] \in Int /\ ms[k] \in Int
    <3>1. k \in 0 .. n /\ k - 1 \in 0 .. n
      OBVIOUS
    <3>2. k \in 1 .. Len(ns) /\ k \in 1 .. Len(ms)
      BY <1>1
    <3>3. ns[k] \in Int /\ ms[k] \in Int
      BY <3>2, ItemIs
    <3>4. QED
      BY <3>1, <3>3
  <2>2. PICK x \in Int, y \in Int, u \in Int, v \in Int :
          x = f[k - 1] /\ y = g[k - 1] /\ u = ns[k] /\ v = ms[k]
    BY <1>1, <2>1
  <2>3. f[k] = x + u /\ g[k] = y + v
    BY <1>2, <1>3, <2>2
  <2>4. y = x + (IF i <= k - 1 /\ k - 1 < j THEN b - a ELSE 0)
    BY <1>6, <2>2
  <2>5. v = IF k = i THEN b ELSE IF k = j THEN a ELSE u
    BY <1>1, <1>4, <2>2
  <2>6. (k = i => u = a) /\ (k = j => u = b)
    BY <1>4, <2>2
  <2>7. y + v = x + u + (IF i <= k /\ k < j THEN b - a ELSE 0)
    <3>1. CASE k = i
      <4>1. y = x /\ v = b /\ u = a
        BY <2>4, <2>5, <2>6, <3>1
      <4>2. QED
        BY <3>1, <4>1
    <3>2. CASE k = j
      <4>1. y = x + (b - a) /\ v = a /\ u = b
        BY <2>4, <2>5, <2>6, <3>2
      <4>2. QED
        BY <3>2, <4>1
    <3>3. CASE k # i /\ k # j
      <4>1. v = u
        BY <2>5, <3>3
      <4>2. i \in Int /\ j \in Int /\ k \in Int
        OBVIOUS
      <4>3. (i <= k - 1 /\ k - 1 < j) <=> (i <= k /\ k < j)
        BY <3>3, <4>2, BetweenIs
      <4>4. CASE i <= k /\ k < j
        BY <2>4, <4>1, <4>3, <4>4
      <4>5. CASE ~ (i <= k /\ k < j)
        BY <2>4, <4>1, <4>3, <4>5
      <4>6. QED
        BY <4>4, <4>5
    <3>4. QED
      BY <3>1, <3>2, <3>3
  <2>8. QED
    BY <2>1, <2>3, <2>7
<1>7. 0 .. n \subseteq S
  <2> HIDE DEF S
  <2>1. QED
    BY <1>5, <1>6, BoundedInduction
<1>8. n \in 0 .. n /\ n \in S
  <2>1. n \in 0 .. n
    OBVIOUS
  <2>2. QED
    BY <1>7, <2>1
<1>9. g[n] = f[n]
  <2>1. n \in 0 .. n /\ f[n] \in Int
    OBVIOUS
  <2>2. j \in Int /\ ~ (n < j)
    BY <1>1
  <2>3. g[n] = f[n] + 0
    BY <1>8, <2>2
  <2>4. QED
    BY <2>1, <2>3
<1>10. QED
  BY <1>2, <1>3, <1>9

-------------------------------------------------------------------------------
(* What Calculate answers.                                                  *)

HasBase(card) == ~ (card.mode = "TRUCK" /\ card.distance = NoDistance)

LinesFit(base, surcharges) ==
  \A i \in DOMAIN Lines(base, surcharges) : Fits(Lines(base, surcharges)[i])

LEMMA ChargeableWeightIs ==
  ASSUME NEW load, IsLoad(load), NEW more, IsLoad(more),
         load.weight <= more.weight, load.volume <= more.volume
  PROVE  /\ ChargeableWeight(load) \in Nat /\ ChargeableWeight(more) \in Nat
         /\ ChargeableWeight(load) <= ChargeableWeight(more)
BY DEF IsLoad, ChargeableWeight

\* By air the base cost grows with the load; otherwise it does not depend on it.
LEMMA BaseCostIsMonotone ==
  ASSUME NEW card, IsCard(card), HasBase(card), NEW load, IsLoad(load), NEW more, IsLoad(more),
         load.weight <= more.weight, load.volume <= more.volume
  PROVE  /\ BaseCost(load, card) \in Int /\ BaseCost(more, card) \in Int
         /\ card.mode # "AIR" => BaseCost(load, card) = BaseCost(more, card)
         /\ card.mode = "AIR" => /\ BaseCost(load, card) \in Nat /\ BaseCost(more, card) \in Nat
                                 /\ BaseCost(load, card) <= BaseCost(more, card)
<1>1. PICK b \in Nat, v \in Nat, w \in Nat :
        b = card.base /\ v = ChargeableWeight(load) /\ w = ChargeableWeight(more) /\ v <= w
  BY ChargeableWeightIs DEF IsCard
<1>2. CASE card.mode = "OCEAN"
  <2>1. BaseCost(load, card) = b /\ BaseCost(more, card) = b
    BY <1>1, <1>2 DEF BaseCost, OceanCost, AirCost, TruckCost
  <2>2. QED
    BY <1>2, <2>1
<1>3. CASE card.mode = "AIR"
  <2>1. PICK m \in Nat, n \in Nat : m = b * v /\ n = b * w /\ m <= n
    <3>1. PICK u \in Nat : w = v + u
      <4>1. w - v \in Nat /\ w = v + (w - v)
        BY <1>1
      <4>2. QED
        BY <4>1
    <3>2. b * (v + u) = b * v + b * u
      OBVIOUS
    <3>3. PICK m \in Nat, n \in Nat : m = b * v /\ n = b * u
      OBVIOUS
    <3>4. b * w = m + n
      BY <3>1, <3>2, <3>3
    <3>5. QED
      BY <3>3, <3>4
  <2>2. BaseCost(load, card) = HalfUp(m, Scale) /\ BaseCost(more, card) = HalfUp(n, Scale)
    BY <1>1, <1>3, <2>1 DEF BaseCost, OceanCost, AirCost, TruckCost
  <2>3. PICK d \in Nat \ {0} : d = Scale
    BY PricingConstants
  <2>4. HalfUp(m, d) \in Nat /\ HalfUp(n, d) \in Nat /\ HalfUp(m, d) <= HalfUp(n, d)
    <3>1. m <= n
      BY <2>1
    <3>2. QED
      BY <3>1, HalfUpIs, HalfUpIsMonotone
  <2>5. QED
    BY <1>3, <2>2, <2>3, <2>4
<1>4. CASE card.mode = "TRUCK"
  <2>1. PICK d \in Int : d = card.distance
    BY <1>4 DEF IsCard, HasBase
  <2>2. PICK m \in Int : m = b * d
    OBVIOUS
  <2>3. BaseCost(load, card) = m /\ BaseCost(more, card) = m
    BY <1>1, <1>4, <2>1, <2>2 DEF BaseCost, OceanCost, AirCost, TruckCost
  <2>4. QED
    BY <1>4, <2>3
<1>5. QED
  BY <1>2, <1>3, <1>4 DEF IsCard, Modes

LEMMA CalculateIs ==
  ASSUME NEW card, IsCard(card), NEW load, IsLoad(load), NEW surcharges \in Seq(Surcharge)
  PROVE  /\ Calculate(load, card, surcharges) # NoPrice
              <=> HasBase(card) /\ LinesFit(BaseCost(load, card), surcharges)
         /\ HasBase(card) => BaseCost(load, card) \in Int
         /\ HasBase(card) /\ LinesFit(BaseCost(load, card), surcharges) =>
              /\ Fits(BaseCost(load, card))
              /\ Calculate(load, card, surcharges) \in [breakdown : Seq(Int), total : Int]
              /\ Calculate(load, card, surcharges).breakdown
                   = Lines(BaseCost(load, card), surcharges)
              /\ Calculate(load, card, surcharges).total
                   = Wrap(Sum(Lines(BaseCost(load, card), surcharges)))
<1>1. CASE ~ HasBase(card)
  BY <1>1 DEF HasBase, Calculate
<1>2. CASE HasBase(card)
  <2>1. PICK base \in Int : base = BaseCost(load, card)
    <3>1. load.weight <= load.weight /\ load.volume <= load.volume
      BY DEF IsLoad
    <3>2. QED
      BY <1>2, <3>1, BaseCostIsMonotone
  <2>2. PICK lines \in Seq(Int) : lines = Lines(base, surcharges) /\ 1 \in DOMAIN lines /\ lines[1] = base
    BY LinesAre
  <2>3. CASE LinesFit(base, surcharges)
    <3>1. Fits(base)
      BY <2>2, <2>3 DEF LinesFit
    <3>2. Total(base, surcharges) = Wrap(Sum(lines)) /\ Wrap(Sum(lines)) \in Int
      <4>1. Sum(lines) \in Int
        BY SumIsAnInteger
      <4>2. QED
        BY <2>2, <3>1, <4>1, TotalIsTheSum, WrapIs
    <3>3. Calculate(load, card, surcharges) = [breakdown |-> lines, total |-> Wrap(Sum(lines))]
      BY <1>2, <2>1, <2>2, <2>3, <3>2 DEF Calculate, HasBase, LinesFit
    <3>4. Calculate(load, card, surcharges) \in [breakdown : Seq(Int), total : Int]
      BY <3>2, <3>3
    <3>5. QED
      BY <1>2, <2>1, <2>2, <2>3, <3>1, <3>3, <3>4, PricingConstants
  <2>4. CASE ~ LinesFit(base, surcharges)
    <3>1. Calculate(load, card, surcharges) = NoPrice
      BY <1>2, <2>1, <2>4 DEF Calculate, HasBase, LinesFit
    <3>2. QED
      BY <2>1, <2>4, <3>1
  <2>5. QED
    BY <2>3, <2>4
<1>3. QED
  BY <1>1, <1>2

-------------------------------------------------------------------------------
(* Prices are sound.                                                        *)

LEMMA SwappedIs ==
  ASSUME NEW surcharges \in Seq(Surcharge),
         NEW i \in 1 .. Len(surcharges), NEW j \in 1 .. Len(surcharges)
  PROVE  /\ Swapped(surcharges, i, j) \in Seq(Surcharge)
         /\ Len(Swapped(surcharges, i, j)) = Len(surcharges)
         /\ Swapped(surcharges, i, j)[i] = surcharges[j]
         /\ Swapped(surcharges, i, j)[j] = surcharges[i]
         /\ \A k \in 1 .. Len(surcharges) :
              k # i /\ k # j => Swapped(surcharges, i, j)[k] = surcharges[k]
<1>1. PICK n \in Nat : n = Len(surcharges) /\ DOMAIN surcharges = 1 .. n
  OBVIOUS
<1>2. surcharges \in [1 .. n -> Surcharge]
  BY <1>1
<1>3. Swapped(surcharges, i, j) \in [1 .. n -> Surcharge]
  BY <1>1, <1>2 DEF Swapped
<1>4. Swapped(surcharges, i, j) \in Seq(Surcharge) /\ Len(Swapped(surcharges, i, j)) = n
  BY <1>1, <1>3
<1>5. QED
  BY <1>1, <1>2, <1>4 DEF Swapped

\* The order of the surcharges is immaterial to the sum of the lines.
LEMMA SwapKeepsTheSum ==
  ASSUME NEW base \in Int, NEW surcharges \in Seq(Surcharge),
         NEW i \in 1 .. Len(surcharges), NEW j \in 1 .. Len(surcharges)
  PROVE  Sum(Lines(base, Swapped(surcharges, i, j))) = Sum(Lines(base, surcharges))
<1>1. ASSUME NEW s \in Seq(Surcharge), NEW t \in Seq(Surcharge), Len(t) = Len(s),
             NEW a \in 1 .. Len(s), NEW b \in 1 .. Len(s), a < b,
             t[a] = s[b], t[b] = s[a],
             \A k \in 1 .. Len(s) : k # a /\ k # b => t[k] = s[k]
      PROVE  Sum(Lines(base, t)) = Sum(Lines(base, s))
  <2> DEFINE n == Len(s)
             ns == Lines(base, s)
             ms == Lines(base, t)
  <2>1. n \in Nat /\ n = Len(t) /\ a \in 1 .. n /\ b \in 1 .. n
    BY <1>1
  <2>2. /\ ns \in Seq(Int) /\ Len(ns) = n + 1 /\ ns[1] = base
        /\ \A k \in 1 .. n : ns[k + 1] = Line(base, s[k])
    BY LinesAre
  <2>3. /\ ms \in Seq(Int) /\ Len(ms) = n + 1 /\ ms[1] = base
        /\ \A k \in 1 .. n : ms[k + 1] = Line(base, t[k])
    <3>1. /\ ms \in Seq(Int) /\ Len(ms) = Len(t) + 1 /\ ms[1] = base
          /\ \A k \in 1 .. Len(t) : ms[k + 1] = Line(base, t[k])
      BY LinesAre
    <3> HIDE DEF ms
    <3>2. QED
      BY <2>1, <3>1
  <2> HIDE DEF n, ns, ms
  <2>4. \A k \in 1 .. n : k # a /\ k # b => t[k] = s[k]
    BY <1>1 DEF n
  <2>5. PICK c \in 1 .. n + 1, d \in 1 .. n + 1 : c = a + 1 /\ d = b + 1 /\ c < d
    BY <1>1, <2>1
  <2>6. ms[c] = ns[d] /\ ms[d] = ns[c]
    BY <1>1, <2>1, <2>2, <2>3, <2>5
  <2>7. ASSUME NEW k \in 1 .. n + 1, k # c, k # d
        PROVE  ms[k] = ns[k]
    <3>1. CASE k = 1
      BY <2>2, <2>3, <3>1
    <3>2. CASE k # 1
      <4>1. PICK m \in 1 .. n : k = m + 1
        <5>1. k - 1 \in 1 .. n /\ k = (k - 1) + 1
          BY <2>1, <3>2
        <5>2. QED
          BY <5>1
      <4>2. m # a /\ m # b
        BY <2>5, <2>7, <4>1
      <4>3. t[m] = s[m]
        BY <2>4, <4>2
      <4>4. QED
        BY <2>2, <2>3, <4>1, <4>3
    <3>3. QED
      BY <3>1, <3>2
  <2>8. Sum(ms) = Sum(ns)
    BY <2>2, <2>3, <2>5, <2>6, <2>7, SumSwapped
  <2>9. QED
    BY <2>8 DEF ns, ms
<1>2. PICK t \in Seq(Surcharge) :
        /\ t = Swapped(surcharges, i, j) /\ Len(t) = Len(surcharges)
        /\ t[i] = surcharges[j] /\ t[j] = surcharges[i]
        /\ \A k \in 1 .. Len(surcharges) : k # i /\ k # j => t[k] = surcharges[k]
  BY SwappedIs
<1>3. CASE i < j
  BY <1>1, <1>2, <1>3
<1>4. CASE j < i
  BY <1>1, <1>2, <1>4
<1>5. CASE i = j
  <2>1. t = surcharges
    <3>1. \A k \in 1 .. Len(surcharges) : t[k] = surcharges[k]
      BY <1>2, <1>5
    <3>2. QED
      BY <1>2, <3>1
  <2>2. QED
    BY <1>2, <2>1
<1>6. QED
  BY <1>3, <1>4, <1>5

LEMMA SwapKeepsTheFit ==
  ASSUME NEW base \in Int, NEW surcharges \in Seq(Surcharge),
         NEW i \in 1 .. Len(surcharges), NEW j \in 1 .. Len(surcharges),
         LinesFit(base, surcharges)
  PROVE  LinesFit(base, Swapped(surcharges, i, j))
<1>1. PICK n \in Nat : n = Len(surcharges)
  OBVIOUS
<1>2. PICK t \in Seq(Surcharge) :
        /\ t = Swapped(surcharges, i, j) /\ Len(t) = n
        /\ t[i] = surcharges[j] /\ t[j] = surcharges[i]
        /\ \A k \in 1 .. n : k # i /\ k # j => t[k] = surcharges[k]
  BY <1>1, SwappedIs
<1>3. ASSUME NEW k \in 1 .. n
      PROVE  Fits(Line(base, surcharges[k]))
  <2>1. k + 1 \in DOMAIN Lines(base, surcharges)
    BY <1>1, LinesAre
  <2>2. Fits(Lines(base, surcharges)[k + 1])
    BY <2>1 DEF LinesFit
  <2>3. QED
    BY <1>1, <2>2, LinesAre
<1>4. Fits(base)
  <2>1. 1 \in DOMAIN Lines(base, surcharges) /\ Lines(base, surcharges)[1] = base
    BY LinesAre
  <2>2. QED
    BY <2>1 DEF LinesFit
<1>5. ASSUME NEW k \in 1 .. n
      PROVE  Fits(Line(base, t[k]))
  BY <1>1, <1>2, <1>3
<1>6. ASSUME NEW k \in DOMAIN Lines(base, t)
      PROVE  Fits(Lines(base, t)[k])
  <2>1. k \in 1 .. n + 1
    <3>1. Lines(base, t) \in Seq(Int) /\ Len(Lines(base, t)) = Len(t) + 1
      BY LinesAre
    <3>2. QED
      BY <1>2, <3>1
  <2>2. CASE k = 1
    BY <1>4, <2>2, LinesAre
  <2>3. CASE k # 1
    <3>1. PICK m \in 1 .. n : k = m + 1
      <4>1. k - 1 \in 1 .. n /\ k = (k - 1) + 1
        BY <2>1, <2>3
      <4>2. QED
        BY <4>1
    <3>2. Lines(base, t)[m + 1] = Line(base, t[m])
      BY <1>2, LinesAre
    <3>3. QED
      BY <1>5, <3>1, <3>2
  <2>4. QED
    BY <2>2, <2>3
<1>7. QED
  BY <1>2, <1>6 DEF LinesFit

\* A price is what its lines say, in any order, each percentage within half a
\* cent: for every load, card and list of surcharges, discounts included.
THEOREM EveryPriceIsSound ==
  ASSUME NEW card, IsCard(card), NEW load, IsLoad(load), NEW surcharges \in Seq(Surcharge)
  PROVE  Sound(load, card, surcharges)
<1>1. SUFFICES ASSUME Calculate(load, card, surcharges) # NoPrice
               PROVE  Sound(load, card, surcharges)
  BY DEF Sound
<1>2. PICK base \in Int : base = BaseCost(load, card)
  BY <1>1, CalculateIs
<1>3. HasBase(card) /\ LinesFit(base, surcharges)
  BY <1>1, <1>2, CalculateIs
<1> DEFINE price == Calculate(load, card, surcharges)
           lines == Lines(base, surcharges)
<1>4. lines \in Seq(Int) /\ Sum(lines) \in Int
  BY LinesAre, SumIsAnInteger
<1>5. price.breakdown = lines /\ price.total = Wrap(Sum(lines))
  BY <1>2, <1>3, CalculateIs
<1>6. SumsUp(price)
  BY <1>4, <1>5, WrapIs DEF SumsUp
<1>7. OrderIsImmaterial(load, card, surcharges)
  <2>1. ASSUME NEW i \in DOMAIN surcharges, NEW j \in DOMAIN surcharges
        PROVE  Calculate(load, card, Swapped(surcharges, i, j)).total = price.total
    <3>1. i \in 1 .. Len(surcharges) /\ j \in 1 .. Len(surcharges)
      OBVIOUS
    <3>2. PICK t \in Seq(Surcharge) : t = Swapped(surcharges, i, j)
      BY <3>1, SwappedIs
    <3>3. LinesFit(base, t) /\ Sum(Lines(base, t)) = Sum(lines)
      BY <1>3, <3>1, <3>2, SwapKeepsTheFit, SwapKeepsTheSum
    <3>4. Calculate(load, card, t).total = Wrap(Sum(Lines(base, t)))
      BY <1>2, <1>3, <3>3, CalculateIs
    <3>5. QED
      BY <1>5, <3>2, <3>3, <3>4
  <2>2. QED
    BY <2>1 DEF OrderIsImmaterial
<1>8. PercentagesAreRounded(price, surcharges)
  <2>1. ASSUME NEW i \in DOMAIN surcharges, surcharges[i].calc = "PERCENT"
        PROVE  WithinHalfACent(lines[i + 1], lines[1] * surcharges[i].amount)
    <3>1. i \in 1 .. Len(surcharges) /\ surcharges[i] \in Surcharge
      OBVIOUS
    <3>2. PICK bps \in Int : bps = surcharges[i].amount
      <4>1. surcharges[i].amount \in Int
        BY <3>1 DEF Surcharge
      <4>2. QED
        BY <4>1
    <3>3. lines[i + 1] = Line(base, surcharges[i]) /\ lines[1] = base
      <4> HIDE DEF price
      <4>1. QED
        BY <3>1, LinesAre
    <3>4. lines[i + 1] = PercentOfBase(base, bps)
      BY <2>1, <3>2, <3>3 DEF Line
    <3>5. WithinHalfACent(PercentOfBase(base, bps), base * bps)
      BY PercentageIsRounded
    <3>6. lines[1] * surcharges[i].amount = base * bps
      BY <3>2, <3>3
    <3> HIDE DEF lines
    <3>7. QED
      BY <3>4, <3>5, <3>6
  <2>2. QED
    BY <1>5, <2>1 DEF PercentagesAreRounded
<1>9. QED
  BY <1>6, <1>7, <1>8 DEF Sound

\* Of two sums of the same length, the one with the greater terms is greater,
\* and one of naturals is natural.
LEMMA SumIsMonotone ==
  ASSUME NEW ns \in Seq(Int), NEW ms \in Seq(Int), Len(ms) = Len(ns),
         \A k \in 1 .. Len(ns) : 0 <= ns[k] /\ ns[k] <= ms[k]
  PROVE  0 <= Sum(ns) /\ Sum(ns) <= Sum(ms)
<1>1. PICK n \in Nat : n = Len(ns)
  OBVIOUS
<1>2. PICK f \in [0 .. n -> Int] :
        f[0] = 0 /\ (\A k \in 1 .. n : f[k] = f[k - 1] + ns[k]) /\ Sum(ns) = f[n]
  BY <1>1, SumIs
<1>3. PICK g \in [0 .. n -> Int] :
        g[0] = 0 /\ (\A k \in 1 .. n : g[k] = g[k - 1] + ms[k]) /\ Sum(ms) = g[n]
  BY <1>1, SumIs
<1> DEFINE S == {k \in 0 .. n : 0 <= f[k] /\ f[k] <= g[k]}
<1>4. 0 \in S
  BY <1>1, <1>2, <1>3
<1>5. ASSUME NEW k \in 1 .. n, k - 1 \in S
      PROVE  k \in S
  <2>1. k \in 0 .. n /\ k - 1 \in 0 .. n /\ ns[k] \in Int /\ ms[k] \in Int
    BY <1>1
  <2>2. PICK x \in Int, y \in Int, u \in Int, v \in Int :
          x = f[k - 1] /\ y = g[k - 1] /\ u = ns[k] /\ v = ms[k]
    BY <1>1, <2>1
  <2>3. f[k] = x + u /\ g[k] = y + v
    BY <1>2, <1>3, <2>2
  <2>4. 0 <= x /\ x <= y /\ 0 <= u /\ u <= v
    BY <1>1, <1>5, <2>2
  <2>5. QED
    BY <2>1, <2>3, <2>4
<1>6. 0 .. n \subseteq S
  <2> HIDE DEF S
  <2>1. QED
    BY <1>4, <1>5, BoundedInduction
<1>7. n \in S
  BY <1>6
<1>8. QED
  BY <1>2, <1>3, <1>7

\* Nothing that is a share of the base, or does not depend on it, falls as it
\* grows.
LEMMA LineIsMonotone ==
  ASSUME NEW low \in Nat, NEW high \in Nat, low <= high,
         NEW s \in Surcharge, s.amount >= 0
  PROVE  0 <= Line(low, s) /\ Line(low, s) <= Line(high, s)
<1>1. PICK a \in Nat : a = s.amount
  BY DEF Surcharge
<1>2. CASE s.calc = "FLAT"
  BY <1>1, <1>2 DEF Line
<1>3. CASE s.calc # "FLAT"
  <2>1. PICK u \in Nat : high = low + u
    <3>1. high - low \in Nat /\ high = low + (high - low)
      OBVIOUS
    <3>2. QED
      BY <3>1
  <2>2. PICK m \in Nat, n \in Nat : m = low * a /\ n = high * a /\ m <= n
    <3>1. (low + u) * a = low * a + u * a
      OBVIOUS
    <3>2. PICK m \in Nat, v \in Nat : m = low * a /\ v = u * a
      OBVIOUS
    <3>3. high * a = m + v
      BY <2>1, <3>1, <3>2
    <3>4. QED
      BY <3>2, <3>3
  <2>3. Line(low, s) = HalfUp(m, 10000) /\ Line(high, s) = HalfUp(n, 10000)
    BY <1>1, <1>3, <2>2 DEF Line, PercentOfBase
  <2>4. PICK d \in Nat \ {0} : d = 10000
    OBVIOUS
  <2>5. HalfUp(m, d) \in Nat /\ HalfUp(n, d) \in Nat /\ HalfUp(m, d) <= HalfUp(n, d)
    <3>1. m <= n
      BY <2>2
    <3>2. QED
      BY <3>1, HalfUpIs, HalfUpIsMonotone
  <2>6. QED
    BY <2>3, <2>4, <2>5
<1>4. QED
  BY <1>2, <1>3

LEMMA LinesAreMonotone ==
  ASSUME NEW low \in Nat, NEW high \in Nat, low <= high, NEW surcharges \in Seq(Surcharge),
         \A i \in DOMAIN surcharges : surcharges[i].amount >= 0
  PROVE  \A k \in 1 .. Len(surcharges) + 1 :
           /\ 0 <= Lines(low, surcharges)[k]
           /\ Lines(low, surcharges)[k] <= Lines(high, surcharges)[k]
<1> DEFINE n == Len(surcharges)
           ns == Lines(low, surcharges)
           ms == Lines(high, surcharges)
<1>1. n \in Nat /\ ns[1] = low /\ \A i \in 1 .. n : ns[i + 1] = Line(low, surcharges[i])
  BY LinesAre
<1>2. ms[1] = high /\ \A i \in 1 .. n : ms[i + 1] = Line(high, surcharges[i])
  BY LinesAre
<1>3. ASSUME NEW i \in 1 .. n
      PROVE  0 <= Line(low, surcharges[i]) /\ Line(low, surcharges[i]) <= Line(high, surcharges[i])
  <2>1. i \in DOMAIN surcharges /\ surcharges[i] \in Surcharge
    OBVIOUS
  <2>2. QED
    BY <2>1, LineIsMonotone
<1> HIDE DEF n, ns, ms
<1>4. ASSUME NEW k \in 1 .. n + 1
      PROVE  0 <= ns[k] /\ ns[k] <= ms[k]
  <2>1. CASE k = 1
    BY <1>1, <1>2, <2>1
  <2>2. CASE k # 1
    <3>1. PICK i \in 1 .. n : k = i + 1
      <4>1. k - 1 \in 1 .. n /\ k = (k - 1) + 1
        BY <1>1, <2>2
      <4>2. QED
        BY <4>1
    <3>2. QED
      BY <1>1, <1>2, <1>3, <3>1
  <2>3. QED
    BY <2>1, <2>2
<1>5. QED
  BY <1>4 DEF n, ns, ms

\* What weighs more and takes more room does not cost less, in any mode and
\* with any surcharges that are not discounts.
THEOREM LessIsNeverDearer ==
  ASSUME NEW card, IsCard(card), NEW load, IsLoad(load), NEW more, IsLoad(more),
         NEW surcharges \in Seq(Surcharge)
  PROVE  NeverCheaper(load, more, card, surcharges)
<1> DEFINE dearer == Calculate(more, card, surcharges)
           price == Calculate(load, card, surcharges)
<1> SUFFICES ASSUME load.weight <= more.weight, load.volume <= more.volume,
                    \A i \in DOMAIN surcharges : surcharges[i].amount >= 0,
                    dearer # NoPrice, Fits(Sum(dearer.breakdown))
             PROVE  price # NoPrice /\ price.total <= dearer.total
  BY DEF NeverCheaper
<1>1. HasBase(card) /\ LinesFit(BaseCost(more, card), surcharges)
  BY CalculateIs
<1>2. CASE card.mode # "AIR"
  <2>1. BaseCost(load, card) = BaseCost(more, card)
    BY <1>1, <1>2, BaseCostIsMonotone
  <2>2. price = dearer
    BY <2>1 DEF Calculate
  <2>3. dearer.total \in Int
    BY <1>1, CalculateIs
  <2> HIDE DEF dearer, price
  <2>4. QED
    BY <2>2, <2>3
<1>3. CASE card.mode = "AIR"
  <2>1. PICK low \in Nat, high \in Nat :
          low = BaseCost(load, card) /\ high = BaseCost(more, card) /\ low <= high
    BY <1>1, <1>3, BaseCostIsMonotone
  <2> DEFINE ns == Lines(low, surcharges)
             ms == Lines(high, surcharges)
  <2>2. /\ ns \in Seq(Int) /\ ms \in Seq(Int)
        /\ Len(ns) = Len(surcharges) + 1 /\ Len(ms) = Len(surcharges) + 1
    <3>1. low \in Int /\ high \in Int
      OBVIOUS
    <3> HIDE DEF dearer, price
    <3>2. ns \in Seq(Int) /\ Len(ns) = Len(surcharges) + 1
      BY <3>1, LinesAre
    <3>3. ms \in Seq(Int) /\ Len(ms) = Len(surcharges) + 1
      BY <3>1, LinesAre
    <3>4. QED
      BY <3>2, <3>3
  <2>3. \A k \in 1 .. Len(surcharges) + 1 : 0 <= ns[k] /\ ns[k] <= ms[k]
    BY <2>1, LinesAreMonotone
  <2>4. dearer.breakdown = ms /\ dearer.total = Wrap(Sum(ms))
    BY <1>1, <2>1, CalculateIs
  <2>5. LinesFit(high, surcharges) /\ Fits(Sum(ms))
    BY <1>1, <2>1, <2>4
  <2> HIDE DEF dearer, price
  <2>6. LinesFit(low, surcharges)
    <3>1. ASSUME NEW k \in DOMAIN ns
          PROVE  Fits(ns[k])
      <4>1. k \in 1 .. Len(surcharges) + 1 /\ k \in DOMAIN ms /\ ns[k] \in Int /\ ms[k] \in Int
        BY <2>2
      <4>2. Fits(ms[k])
        BY <2>5, <4>1 DEF LinesFit
      <4>3. 0 <= ns[k] /\ ns[k] <= ms[k]
        BY <2>3, <4>1
      <4> HIDE DEF ns, ms
      <4>4. QED
        BY <4>1, <4>2, <4>3, PricingConstants DEF Fits
    <3>2. QED
      BY <3>1 DEF LinesFit
  <2>7. price # NoPrice /\ price.total = Wrap(Sum(ns))
    BY <1>1, <2>1, <2>6, CalculateIs DEF price
  <2>8. 0 <= Sum(ns) /\ Sum(ns) <= Sum(ms) /\ Sum(ns) \in Int /\ Sum(ms) \in Int
    <3> HIDE DEF ns, ms
    <3>1. QED
      BY <2>2, <2>3, SumIsMonotone, SumIsAnInteger
  <2> HIDE DEF ns, ms
  <2>9. Fits(Sum(ns))
    BY <2>5, <2>8, PricingConstants DEF Fits
  <2>10. price.total = Sum(ns) /\ dearer.total = Sum(ms)
    BY <2>4, <2>5, <2>7, <2>8, <2>9, WrapIs
  <2>11. QED
    BY <2>7, <2>8, <2>10
<1>4. QED
  BY <1>2, <1>3

\* The prices of PageSpec are sound, whatever the samples are: the theorems
\* above, for the cards, surcharges and loads that a run goes through.
THEOREM PricesStaySound == PageSpec => []PricesAreSound
<1>1. PricesAreSound
  <2>1. SUFFICES ASSUME NEW card \in SampleCards, NEW surcharges \in SampleSurcharges,
                        NEW load \in SampleLoads
                 PROVE  /\ Sound(load, card, surcharges)
                        /\ \A more \in SampleLoads : NeverCheaper(load, more, card, surcharges)
    BY DEF PricesAreSound
  <2>2. IsCard(card) /\ surcharges \in Seq(Surcharge) /\ \A one \in SampleLoads : IsLoad(one)
    BY PriceData
  <2>3. QED
    BY <2>2, EveryPriceIsSound, LessIsNeverDearer
<1>2. QED
  BY <1>1, PTL

\* The price of a quote that was booked is one, and it is what its lines say.
SoldAddsUp ==
  \A p \in Panels : panel[p].booking # NoBooking =>
    LET price == saved[bookings[panel[p].booking].quote].price IN
    price \in [breakdown : Seq(Int), total : Int] /\ SumsUp(price)

\* From the rate card to the booking: what the shipper has bought costs what
\* the lines of its quote add up to, if they fit a long at all.
THEOREM SoldPricesAddUp == PageSpec => []SoldAddsUp
<1>1. WholeInv /\ BookedAsShown => SoldAddsUp
  <2> SUFFICES ASSUME WholeInv, BookedAsShown, NEW p \in Panels, panel[p].booking # NoBooking
               PROVE  LET price == saved[bookings[panel[p].booking].quote].price IN
                      price \in [breakdown : Seq(Int), total : Int] /\ SumsUp(price)
    BY DEF SoldAddsUp
  <2>1. PICK r : r = saved[bookings[panel[p].booking].quote]
    OBVIOUS
  <2>2. /\ r = panel[p].request /\ r.price = Quoted(r.card, r.shipment)
        /\ r.price # NoPrice /\ r.card \in Found(r.shipment)
    BY <2>1 DEF BookedAsShown
  <2>3. PICK c \in Cards, s \in DOMAIN Shipments : c = r.card /\ s = r.shipment
    <3>1. panel[p].request \in Requests \cup {NoRequest} /\ NoRequest.price = NoPrice
      BY DEF WholeInv, PageShape, Panel, NoRequest
    <3>2. r \in Requests
      BY <2>2, <3>1
    <3>3. QED
      BY <3>2, RequestFacts
  <2> DEFINE card == Rates[c]
             load == Shipments[s]
  <2>4. IsCard(card) /\ IsLoad(load) /\ card.surcharges \in Seq(Surcharge)
    BY PriceData
  <2>5. r.price = Calculate(load, card, card.surcharges)
    BY <2>2, <2>3 DEF Quoted
  <2>6. SumsUp(r.price)
    <3>1. Sound(load, card, card.surcharges)
      BY <2>4, EveryPriceIsSound
    <3>2. QED
      BY <2>2, <2>5, <3>1 DEF Sound
  <2>7. r.price \in [breakdown : Seq(Int), total : Int]
    BY <2>2, <2>4, <2>5, CalculateIs
  <2>8. QED
    BY <2>1, <2>6, <2>7
<1>2. QED
  BY <1>1, PageInvariant, ShownIsBooked, PTL

===============================================================================
