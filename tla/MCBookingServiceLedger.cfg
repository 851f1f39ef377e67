SPECIFICATION Spec
CONSTANTS
  Quotes = {q1, q2}
  Keys = {k1, k2}
  Bookings = {b1, b2}
  Requests = {r1, r2}
  Operations = {"hold", "create", "confirm", "cancel", "get"}
  PoolSize = 2
  NoQuote = NoQuote
  NoKey = NoKey
  NoBooking = NoBooking
  NoRequest = NoRequest
INVARIANTS
  ChecksHoldUntilCommit
  AnswersAreTrue
PROPERTY ImplementsLedger
SYMMETRY Symmetry
