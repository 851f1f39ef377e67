SPECIFICATION Spec
CONSTANTS
  Tokens = {t1, t2}
  Redeems = {r1, r2}
  Quotes = {q1, q2}
  Bookings = {b1, b2}
  UserKeys = {u1}
  NoQuote = NoQuote
  NoKey = NoKey
  NoBooking = NoBooking
  NoToken = NoToken
  TTL = 1
  MaxTime = 1
  Faults = {"call", "store", "crash"}
SYMMETRY Symmetry
INVARIANTS
  TypeOK
  CreateSentOnce
  OnlyApprovedBookings
  OutcomesAreTrue
  UnavailableMeansUnbooked
CHECK_DEADLOCK FALSE
