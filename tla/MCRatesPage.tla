------------------------------ MODULE MCRatesPage ------------------------------
(* Small instances of RatesPage.                                             *)
EXTENDS RatesPage, TLC

Flat(amount) == [calc |-> "FLAT", amount |-> amount]
Percent(bps) == [calc |-> "PERCENT", amount |-> bps]

Card(base, until, surcharges) ==
  [lane |-> "lane", mode |-> "AIR", distance |-> NoDistance, from |-> 1, to |-> until,
   base |-> base, surcharges |-> surcharges]

Shipment(date, weight) ==
  [lane |-> "lane", mode |-> "AIR", date |-> date, weight |-> weight, volume |-> 0]

\* Two cards of one lane whose windows overlap, and two shipments that cost
\* differently, the second too late for the second card.
MCRates ==
  "c1" :> Card(7, 2, <<Flat(3), Percent(1250)>>) @@ "c2" :> Card(5, 1, <<>>)
MCShipments == <<Shipment(1, 20), Shipment(2, 35)>>

MCKeys == (1 .. MaxPanels) \X (0 .. MaxClicks)

Symmetry == Permutations(Quotes) \cup Permutations(Bookings)

\* Cards of every mode, with up to two surcharges, and loads of every weight.
MCSampleCards ==
  [mode : Modes, base : {1, 3, 7, 60}, distance : {NoDistance, 1, 9}]

MCSampleSurcharges ==
  LET one == {Flat(3), Flat(90), Flat(-100), Percent(333), Percent(1250), Percent(5000)} IN
  {<<>>} \cup {<<s>> : s \in one} \cup {<<s, t>> : s \in one, t \in one}

MCSampleLoads == [weight : {1, 5, 14, 170}, volume : {0, 1}]
===============================================================================
