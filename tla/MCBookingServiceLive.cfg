SPECIFICATION FairSpec
CONSTANTS
  Quotes = {q1}
  Keys = {k1}
  Bookings = {b1}
  Requests = {r1, r2, r3}
  Operations = {"hold", "create", "confirm"}
  PoolSize = 2
  NoQuote = NoQuote
  NoKey = NoKey
  NoBooking = NoBooking
  NoRequest = NoRequest
INVARIANTS
  TypeOK
  AnswersAreDurable
PROPERTY EveryRequestIsAnswered
