SPECIFICATION PageSpec
CONSTANTS
  Quotes = {q1, q2, q3}
  Bookings = {b1, b2}
  Keys <- MCKeys
  Rates <- MCRates
  Shipments <- MCShipments
  MaxViews = 4
  MaxPanels = 2
  MaxClicks = 2
  MaxLate = 1
  MaxLong = 127
  Scale = 10
  SampleCards <- MCSampleCards
  SampleSurcharges <- MCSampleSurcharges
  SampleLoads <- MCSampleLoads
  NoQuote = NoQuote
  NoKey = NoKey
  NoCard = NoCard
  NoBooking = NoBooking
  NoDistance = NoDistance
  NoPrice = NoPrice
INVARIANTS
  TypeOK
  LedgerConsistent
  LogExplainsStatus
  OneBookingPerPanel
  RetryIsNotRefused
  BookedAsShown
  PricesAreSound
PROPERTY HistoryOnlyGrows
SYMMETRY Symmetry
CHECK_DEADLOCK FALSE
