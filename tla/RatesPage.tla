------------------------------- MODULE RatesPage -------------------------------
(***************************************************************************)
(* The manual way to a booking, over rates-service (Pricing) and booking-  *)
(* service (BookingLedger).  The user searches for a shipment, selects one *)
(* of the cards found, is shown its price once that is fetched, and clicks *)
(* "Reserve": the panel saves the quote, holds it and books it, three      *)
(* calls in a row, the last with the one idempotency key of the panel.     *)
(*                                                                         *)
(* Prices are fetched in the background, in any order, and kept by query.  *)
(* Any call may fail before or after its service did the work, or be       *)
(* served late; a click after a failure runs the whole chain again; and to *)
(* search or select again takes the panel away, but not a chain that runs. *)
(***************************************************************************)
EXTENDS BookingLedger, Pricing, FiniteSets

CONSTANTS Rates,       \* Rates[c]: the rate card c, its lane and its surcharges
          Shipments,   \* what the form may submit, numbered
          MaxViews,    \* bound on the searches and selections
          MaxPanels,   \* bound on the panels the page mounts, one after another
          MaxClicks,   \* bound on the clicks that start a chain, per panel
          MaxLate,     \* bound on the lost calls that may still be served
          SampleCards, SampleSurcharges, SampleLoads,   \* what PricesAreSound prices
          NoCard, NoBooking

Cards == DOMAIN Rates
Panels == 1 .. MaxPanels

ASSUME PageConstants ==
  /\ MaxViews \in Nat /\ MaxPanels \in Nat /\ MaxClicks \in Nat /\ MaxLate \in Nat
  /\ Keys = Panels \X (0 .. MaxClicks)
  /\ NoCard \notin Cards /\ NoBooking \notin Bookings

ASSUME PriceData ==
  /\ \A c \in Cards : IsCard(Rates[c]) /\ Rates[c].surcharges \in Seq(Surcharge)
  /\ \A s \in DOMAIN Shipments : IsLoad(Shipments[s])
  /\ \A card \in SampleCards : IsCard(card)
  /\ SampleSurcharges \subseteq Seq(Surcharge)
  /\ \A load \in SampleLoads : IsLoad(load)

VARIABLES page,       \* RatesPage: the search, the selection and its panel
          cache,      \* cache[k]: what the last fetch of query k brought
          fetching,   \* the calculations on the wire
          panel,      \* panel[p]: a booking panel and its chain
          saved,      \* saved[q]: the panel and the request that q was saved from
          late        \* calls without a caller that may still be served

ledger == <<quotes, bookings, log>>
pageVars == <<quotes, bookings, log, page, cache, fetching, panel, saved, late>>

NoRequest == [panel |-> 0, card |-> NoCard, shipment |-> 0, price |-> NoPrice]

PageInit ==
  /\ Init
  /\ page = [shipment |-> 0, card |-> NoCard, views |-> 0, mounts |-> 0, mounted |-> FALSE]
  /\ cache = [k \in {} |-> NoPrice]
  /\ fetching = {}
  /\ panel = [p \in Panels |-> [pc |-> "idle", clicks |-> 0, request |-> NoRequest,
                                quote |-> NoQuote, booking |-> NoBooking]]
  /\ saved = [q \in Quotes |-> NoRequest]
  /\ late = {}

-------------------------------------------------------------------------------
(* rates-service: two queries that change nothing.                          *)

Found(s) ==
  {c \in Cards : LET card == Rates[c]  shipment == Shipments[s] IN
     /\ card.lane = shipment.lane /\ card.mode = shipment.mode
     /\ shipment.date \in card.from .. card.to}

\* The card is authoritative: neither the lane nor the date is checked again.
Quoted(c, s) == Calculate(Shipments[s], Rates[c], Rates[c].surcharges)

-------------------------------------------------------------------------------
(* Seeded defects: steps as a plausible mistake would leave them, used only *)
(* to show that the properties below notice.                               *)

\* The price is asked for again only when another card is selected.
QueryOfCard(c, s) == c

\* The panel is not keyed by the card.
OnePanel(c, stays) == page.mounts > 0

\* Each click draws a key of its own.
FreshKey(p) == <<p, panel[p].clicks>>

\* The booking is asked for without waiting for the hold.
SkipHold(p) ==
  /\ panel[p].pc = "holdQuote"
  /\ panel' = [panel EXCEPT ![p].pc = "createBooking"]
  /\ UNCHANGED <<ledger, page, cache, fetching, saved, late>>

-------------------------------------------------------------------------------
(* The page.                                                               *)

QueryKey(c, s) == <<c, s>>

Known(c, s) == QueryKey(c, s) \in DOMAIN cache

\* The panel is kept from one rendering to the next.
SamePanel(c, stays) == stays /\ page.mounted

\* The panel of the selected card is shown as soon as the price is known; a
\* panel that was not there before is a new one.
Render(c, s, stays, known) ==
  LET mounts == IF known /\ ~ SamePanel(c, stays) THEN page.mounts + 1 ELSE page.mounts
      views == IF stays THEN page.views ELSE page.views + 1 IN
  /\ mounts <= MaxPanels /\ views <= MaxViews
  /\ page' = [shipment |-> s, card |-> c, views |-> views, mounts |-> mounts, mounted |-> known]

\* A price is fetched whenever it comes into view, known or not, unless it is
\* already being fetched.
Fetch(c, s) ==
  fetching' = IF \E f \in fetching : QueryKey(f[1], f[2]) = QueryKey(c, s)
              THEN fetching
              ELSE fetching \cup {<<c, s>>}

Search(s) ==
  /\ Render(NoCard, s, FALSE, FALSE)
  /\ UNCHANGED <<ledger, cache, fetching, panel, saved, late>>

\* The cards of the search are listed, and one of them is clicked.
Select(c) ==
  /\ page.shipment # 0 /\ c \in Found(page.shipment) \ {page.card}
  /\ Fetch(c, page.shipment)
  /\ Render(c, page.shipment, FALSE, Known(c, page.shipment))
  /\ UNCHANGED <<ledger, cache, panel, saved, late>>

\* The window gets the focus back, and what it shows is fetched again.
Focus ==
  /\ page.card # NoCard
  /\ Fetch(page.card, page.shipment)
  /\ UNCHANGED <<ledger, page, cache, panel, saved, late>>

\* The answer is kept by its query, whatever the page shows by now; an error
\* leaves what was known.
Calculated(c, s) ==
  LET k == QueryKey(c, s)
      seen == page.card # NoCard /\ k = QueryKey(page.card, page.shipment) IN
  /\ <<c, s>> \in fetching
  /\ fetching' = fetching \ {<<c, s>>}
  /\ \/ /\ Quoted(c, s) # NoPrice
        /\ cache' = [x \in DOMAIN cache \cup {k} |->
                       IF x = k THEN [card |-> c, price |-> Quoted(c, s)] ELSE cache[x]]
        /\ IF seen THEN Render(page.card, page.shipment, TRUE, TRUE) ELSE UNCHANGED page
     \/ UNCHANGED <<cache, page>>
  /\ UNCHANGED <<ledger, panel, saved, late>>

-------------------------------------------------------------------------------
(* The panel.                                                              *)

Goto(p, pc, q, b) ==
  panel' = [panel EXCEPT ![p] = [pc |-> pc, clicks |-> @.clicks, request |-> @.request,
                                 quote |-> q, booking |-> b]]

\* One key for the life of the panel, drawn by crypto.randomUUID().
Key(p) == <<p, 0>>

BookedUnder(k) == {b \in Bookings : bookings[b].key = k}

\* reserve(): a click takes the quote as the page shows it, and starts the
\* chain unless one is running.
Click(p) ==
  LET quote == cache[QueryKey(page.card, page.shipment)] IN
  /\ page.mounted /\ page.mounts = p
  /\ panel[p].pc = "idle" /\ panel[p].clicks < MaxClicks
  /\ panel' = [panel EXCEPT ![p] =
       [pc |-> "createQuote", clicks |-> @.clicks + 1, quote |-> @.quote, booking |-> NoBooking,
        request |-> [panel |-> p, card |-> quote.card, shipment |-> page.shipment,
                     price |-> quote.price]]]
  /\ UNCHANGED <<ledger, page, cache, fetching, saved, late>>

SaveQuote(request, q) == CreateQuote(q) /\ saved' = [saved EXCEPT ![q] = request]

QuoteSaved(p) ==
  /\ panel[p].pc = "createQuote"
  /\ \E q \in Quotes : SaveQuote(panel[p].request, q) /\ Goto(p, "holdQuote", q, NoBooking)
  /\ UNCHANGED <<page, cache, fetching, late>>

QuoteHeld(p) ==
  /\ panel[p].pc = "holdQuote"
  /\ HoldQuote(panel[p].quote)
  /\ Goto(p, "createBooking", panel[p].quote, NoBooking)
  /\ UNCHANGED <<page, cache, fetching, saved, late>>

\* POST /bookings: a new booking, or the original one of the key.
BookingCreated(p) ==
  LET q == panel[p].quote IN
  /\ panel[p].pc = "createBooking"
  /\ \E b \in Bookings :
       /\ \/ Book(b, q, Key(p))
          \/ b \in BookedUnder(Key(p)) /\ UNCHANGED ledger
       /\ Goto(p, "booked", q, b)
  /\ UNCHANGED <<page, cache, fetching, saved, late>>

\* A call of the chain fails: it was served and its answer is lost, or it may
\* be served later, or never.  The panel shows the error and can be clicked.
Fails(p) ==
  LET q == panel[p].quote
      Lost(call) == /\ Cardinality(late) < MaxLate
                    /\ late' = late \cup {call}
                    /\ UNCHANGED <<ledger, saved>> IN
  /\ \/ /\ panel[p].pc = "createQuote"
        /\ \/ (\E new \in Quotes : SaveQuote(panel[p].request, new)) /\ UNCHANGED late
           \/ Lost([op |-> "createQuote", request |-> panel[p].request])
     \/ /\ panel[p].pc = "holdQuote"
        /\ \/ HoldQuote(q) /\ UNCHANGED <<saved, late>>
           \/ Lost([op |-> "holdQuote", quote |-> q])
     \/ /\ panel[p].pc = "createBooking"
        /\ \/ (\E b \in Bookings : Book(b, q, Key(p))) /\ UNCHANGED <<saved, late>>
           \/ Lost([op |-> "createBooking", quote |-> q, key |-> Key(p)])
  /\ Goto(p, "idle", q, NoBooking)
  /\ UNCHANGED <<page, cache, fetching>>

Land(call) ==
  /\ \/ call.op = "createQuote" /\ (\E q \in Quotes : SaveQuote(call.request, q))
     \/ call.op = "holdQuote" /\ HoldQuote(call.quote) /\ UNCHANGED saved
     \/ /\ call.op = "createBooking"
        /\ \E b \in Bookings : Book(b, call.quote, call.key)
        /\ UNCHANGED saved
  /\ late' = late \ {call}
  /\ UNCHANGED <<page, cache, fetching, panel>>

\* The booking page: whoever sees the booking may confirm or cancel it.
Users ==
  /\ \E b \in Bookings, to \in {"CONFIRMED", "CANCELLED"} : Transition(b, to)
  /\ UNCHANGED <<page, cache, fetching, panel, saved, late>>

Chain(p) == QuoteSaved(p) \/ QuoteHeld(p) \/ BookingCreated(p) \/ Fails(p)

PageNext ==
  \/ \E s \in DOMAIN Shipments : Search(s)
  \/ \E c \in Cards : Select(c)
  \/ Focus
  \/ \E f \in fetching : Calculated(f[1], f[2])
  \/ \E p \in Panels : Click(p) \/ Chain(p)
  \/ \E call \in late : Land(call)
  \/ Users

PageSpec == PageInit /\ [][PageNext]_pageVars

-------------------------------------------------------------------------------

\* However often the user clicks and whatever was lost or lands late, one
\* panel makes at most one booking.
OneBookingPerPanel ==
  \A b, c \in Bookings :
    Exists(b) /\ Exists(c) /\ saved[bookings[b].quote].panel = saved[bookings[c].quote].panel
      => b = c

\* A chain that gets as far as the booking is never refused: its quote is
\* HELD, or the key already has its booking.  A retry always leads somewhere.
RetryIsNotRefused ==
  \A p \in Panels : panel[p].pc = "createBooking" =>
    quotes[panel[p].quote] = "HELD" \/ BookedUnder(Key(p)) # {}

\* The booking a panel ends with, its own or the original of its key, is of
\* the very card, shipment and price that its last click took from the page,
\* and that price is what rates-service computes for them: nothing that came
\* from another search, another selection or an answer out of order is sold,
\* and nothing that has no price.
BookedAsShown ==
  \A p \in Panels : panel[p].booking # NoBooking =>
    LET request == saved[bookings[panel[p].booking].quote] IN
    /\ request = panel[p].request
    /\ request.price = Quoted(request.card, request.shipment) /\ request.price # NoPrice
    /\ request.card \in Found(request.shipment)

\* Every price is sound, and a heavier or bulkier load never costs less.  The
\* samples do not depend on the page: they are gone through once, after the
\* first search.
PricesAreSound ==
  page.views = 1 /\ page.card = NoCard =>
    \A card \in SampleCards, surcharges \in SampleSurcharges, load \in SampleLoads :
      /\ Sound(load, card, surcharges)
      /\ \A more \in SampleLoads : NeverCheaper(load, more, card, surcharges)

===============================================================================
