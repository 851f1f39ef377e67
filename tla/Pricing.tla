-------------------------------- MODULE Pricing --------------------------------
(***************************************************************************)
(* What rates-service computes for a shipment from a rate card, its lane   *)
(* and its surcharges.  Amounts are longs; products are computed exactly   *)
(* and must fit, the total is summed without a check.  Weights and volumes *)
(* are decimals, counted here in units of 1/Scale.                         *)
(***************************************************************************)
EXTENDS Integers, Sequences

CONSTANTS MaxLong,   \* Long.MAX_VALUE: the longs are -MaxLong - 1 .. MaxLong
          Scale, NoDistance, NoPrice

ASSUME PricingConstants ==
  /\ MaxLong \in Nat /\ Scale \in Nat \ {0} /\ NoDistance \notin Int
  /\ NoPrice \notin [breakdown : Seq(Int), total : Int]

Modes == {"OCEAN", "AIR", "TRUCK"}

\* Cents, or basis points of the base; a negative amount is a discount.
Surcharge == [calc : {"FLAT", "PERCENT"}, amount : Int]

\* A card with its lane: a CHECK of the table keeps the base positive, none the
\* distance.
IsCard(card) ==
  card.mode \in Modes /\ card.base \in Nat /\ card.distance \in Int \cup {NoDistance}

\* The validation of a request keeps weight and volume positive.
IsLoad(load) == load.weight \in Nat /\ load.volume \in Nat

Fits(n) == - MaxLong - 1 <= n /\ n <= MaxLong

\* The long that the lower bits of an integer are.
Wrap(n) == ((n + MaxLong + 1) % (2 * MaxLong + 2)) - MaxLong - 1

\* Java's addition of longs.
Plus(m, n) == Wrap(m + n)

Sum(ns) ==
  LET sum[i \in 0 .. Len(ns)] == IF i = 0 THEN 0 ELSE sum[i - 1] + ns[i] IN sum[Len(ns)]

\* n / d to the nearest integer, a half away from zero (RoundingMode.HALF_UP).
HalfUp(n, d) ==
  LET up(m) == (2 * m + d) \div (2 * d) IN IF n < 0 THEN - up(- n) ELSE up(n)

-------------------------------------------------------------------------------
(* Seeded defects.                                                         *)

\* The percentages are added first and rounded once.
RoundOnce(base, surcharges) ==
  LET share(s) == IF s.calc = "FLAT" THEN 10000 * s.amount ELSE base * s.amount
  IN HalfUp(10000 * base + Sum([i \in DOMAIN surcharges |-> share(surcharges[i])]), 10000)

-------------------------------------------------------------------------------

\* IATA: a cubic metre counts as 167 kg; no volume counts as none.
ChargeableWeight(shipment) ==
  LET volumetric == 167 * shipment.volume IN
  IF shipment.weight > volumetric THEN shipment.weight ELSE volumetric

\* One strategy per mode: by the container, the kilogram, the mile.
OceanCost(card) == card.base
AirCost(shipment, card) == HalfUp(card.base * ChargeableWeight(shipment), Scale)
TruckCost(card) == card.base * card.distance

\* The strategy registered for the mode of the lane.
BaseCost(shipment, card) ==
  CASE card.mode = "OCEAN" -> OceanCost(card)
    [] card.mode = "AIR"   -> AirCost(shipment, card)
    [] card.mode = "TRUCK" -> TruckCost(card)

PercentOfBase(base, bps) == HalfUp(base * bps, 10000)

\* Every surcharge refers to the base, none to another.
Line(base, s) == IF s.calc = "FLAT" THEN s.amount ELSE PercentOfBase(base, s.amount)

Lines(base, surcharges) ==
  <<base>> \o [i \in DOMAIN surcharges |-> Line(base, surcharges[i])]

Total(base, surcharges) ==
  LET total[i \in 0 .. Len(surcharges)] ==
        IF i = 0 THEN base ELSE Plus(total[i - 1], Line(base, surcharges[i])) IN
  total[Len(surcharges)]

\* A truck lane without a distance and a cost that does not fit throw.
Calculate(shipment, card, surcharges) ==
  IF card.mode = "TRUCK" /\ card.distance = NoDistance
  THEN NoPrice
  ELSE LET base == BaseCost(shipment, card)
           lines == Lines(base, surcharges) IN
       IF \E i \in DOMAIN lines : ~ Fits(lines[i])
       THEN NoPrice
       ELSE [breakdown |-> lines, total |-> Total(base, surcharges)]

-------------------------------------------------------------------------------

\* The lines sum to the total whenever the sum fits: wrapping on the way does
\* no harm.
SumsUp(price) == Fits(Sum(price.breakdown)) => price.total = Sum(price.breakdown)

Swapped(surcharges, i, j) == [surcharges EXCEPT ![i] = surcharges[j], ![j] = surcharges[i]]

\* No two surcharges are worth more, or less, the other way round.
OrderIsImmaterial(shipment, card, surcharges) ==
  \A i, j \in DOMAIN surcharges :
    Calculate(shipment, card, Swapped(surcharges, i, j)).total
      = Calculate(shipment, card, surcharges).total

\* The cents are off by half a cent at most from a share of the base in basis
\* points.
WithinHalfACent(cents, share) ==
  LET off == 2 * (10000 * cents - share) IN -10000 <= off /\ off <= 10000

PercentagesAreRounded(price, surcharges) ==
  \A i \in DOMAIN surcharges :
    surcharges[i].calc = "PERCENT" =>
      WithinHalfACent(price.breakdown[i + 1], price.breakdown[1] * surcharges[i].amount)

\* A quote is what its lines say, in any order of the surcharges, each rounded
\* for itself.
Sound(shipment, card, surcharges) ==
  LET price == Calculate(shipment, card, surcharges) IN
  price # NoPrice =>
    /\ SumsUp(price)
    /\ OrderIsImmaterial(shipment, card, surcharges)
    /\ PercentagesAreRounded(price, surcharges)

\* What weighs more and takes more room does not cost less, when no surcharge
\* is a discount.
NeverCheaper(load, more, card, surcharges) ==
  LET price == Calculate(load, card, surcharges)
      dearer == Calculate(more, card, surcharges) IN
  /\ load.weight <= more.weight /\ load.volume <= more.volume
  /\ \A i \in DOMAIN surcharges : surcharges[i].amount >= 0
  /\ dearer # NoPrice /\ Fits(Sum(dearer.breakdown))
  => price # NoPrice /\ price.total <= dearer.total

===============================================================================
