SPECIFICATION Spec
CONSTANTS
  Tokens = {t1}
  Redeems = {r1, r2}
  Quotes = {q1}
  Bookings = {b1}
  UserKeys = {u1}
  NoQuote = NoQuote
  NoKey = NoKey
  NoBooking = NoBooking
  NoToken = NoToken
  TTL = 1
  MaxTime = 1
  Faults = {"store"}
INVARIANT StuckOnlyByCrash
CHECK_DEADLOCK FALSE
