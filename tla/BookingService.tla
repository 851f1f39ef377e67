----------------------------- MODULE BookingService -----------------------------
(***************************************************************************)
(* booking-service under concurrent requests (domain/bookingService.ts).   *)
(* Each member of Requests is one HTTP request being served; its handler   *)
(* runs one database round trip per step, so the steps of different        *)
(* requests interleave as the awaits of the code allow.                    *)
(*                                                                         *)
(* The database is modelled at READ COMMITTED: the three tables hold       *)
(* committed rows; SELECT ... FOR UPDATE takes a row lock that lasts until *)
(* the transaction ends; the writes of a transaction appear, all together, *)
(* when it commits; an INSERT waits for an uncommitted row with the same   *)
(* idempotency key.  The writes of one transaction go to rows it has       *)
(* locked or inserted itself and are computed from what it read under the  *)
(* lock, so they are applied by its Commit step.  Any statement may fail   *)
(* and a commit may succeed with its acknowledgement lost.                 *)
(***************************************************************************)
EXTENDS Integers, Sequences, FiniteSets, BookingLifecycle

CONSTANTS Quotes, Keys, Bookings,
          Requests,          \* the requests that can be in flight at once
          Operations,        \* the operations the clients of an instance use
          PoolSize,          \* connections in the pool
          NoQuote, NoKey, NoBooking, NoRequest

ASSUME ServiceConstants ==
  /\ NoQuote \notin Quotes /\ NoKey \notin Keys
  /\ NoBooking \notin Bookings /\ NoRequest \notin Requests
  /\ IsFiniteSet(Requests)
  /\ Operations \subseteq {"hold", "create", "confirm", "cancel", "get"}
  /\ PoolSize \in Nat \ {0}

VARIABLES
  quotes, bookings, log,     \* the committed tables, as in BookingLedger
  quoteLock, bookingLock,    \* the request whose transaction holds the row
  pc,                        \* where the handler of each request is
  req,                       \* the request being served
  seen,                      \* the status its handler has read
  page,                      \* the events its handler has read
  out                        \* the answer its handler has decided on

tables == <<quotes, bookings, log>>
locks == <<quoteLock, bookingLock>>
vars == <<tables, locks, pc, req, seen, page, out>>

\* The promise this module is shown to keep.
Ledger == INSTANCE BookingLedger

-------------------------------------------------------------------------------

Body(op, q, k, b) == [op |-> op, quote |-> q, key |-> k, booking |-> b]

Request ==
       {Body("hold", q, NoKey, NoBooking) : q \in Quotes}
  \cup {Body("create", q, k, NoBooking) : q \in Quotes, k \in Keys}
  \cup {Body(op, NoQuote, NoKey, b) : op \in {"confirm", "cancel", "get"}, b \in Bookings}

\* The handler now knows which booking row the request is about.
About(body, b) == Body(body.op, body.quote, body.key, b)

NoBody == Body("none", NoQuote, NoKey, NoBooking)

\* Where the handler of each operation starts.
Entry(op) ==
  CASE op = "create" -> "readPrior"
    [] op = "get"    -> "readRow"
    [] OTHER         -> "begin"

Target(op) == IF op = "confirm" THEN "CONFIRMED" ELSE "CANCELLED"

\* Seeded defect: the catch block re-reads inside the transaction.
RereadInTransaction == {"lockQuote", "lockBooking", "insert", "commit", "reread"}

\* A transaction keeps one connection of the pool from BEGIN to its end.  Any
\* other statement borrows one for itself alone.
InTransaction == {"lockQuote", "lockBooking", "insert", "commit"}

Transactions == {r \in Requests : pc[r] \in InTransaction}

PoolHasConnection == Cardinality(Transactions) < PoolSize

\* What the end of a transaction gives back.
Unlocked(lock, r) == [x \in DOMAIN lock |-> IF lock[x] = r THEN NoRequest ELSE lock[x]]

ReleaseLocks(r) ==
  /\ quoteLock' = Unlocked(quoteLock, r)
  /\ bookingLock' = Unlocked(bookingLock, r)

Goto(r, label) == pc' = [pc EXCEPT ![r] = label]

Answer(r, answer) == Goto(r, "reply") /\ out' = [out EXCEPT ![r] = answer]

Exists(b) == bookings[b].status # None

BookedUnder(k) == {b \in Bookings : Exists(b) /\ bookings[b].key = k}

\* Rows inserted by transactions that have not committed.
Uncommitted == {r \in Requests : pc[r] = "commit" /\ req[r].op = "create"}

Init ==
  /\ Ledger!Init
  /\ quoteLock = [q \in Quotes |-> NoRequest]
  /\ bookingLock = [b \in Bookings |-> NoRequest]
  /\ pc = [r \in Requests |-> "idle"]
  /\ req = [r \in Requests |-> NoBody]
  /\ seen = [r \in Requests |-> None]
  /\ page = [r \in Requests |-> <<>>]
  /\ out = [r \in Requests |-> "none"]

-------------------------------------------------------------------------------
(* Requests arrive and are answered.                                       *)

Receive(r) ==
  /\ pc[r] = "idle"
  /\ \E body \in Request :
       /\ body.op \in Operations
       /\ req' = [req EXCEPT ![r] = body]
       /\ Goto(r, Entry(body.op))
  /\ UNCHANGED <<tables, locks, seen, page, out>>

Reply(r) ==
  /\ pc[r] = "reply"
  /\ Goto(r, "idle")
  /\ req' = [req EXCEPT ![r] = NoBody]
  /\ seen' = [seen EXCEPT ![r] = None]
  /\ page' = [page EXCEPT ![r] = <<>>]
  /\ out' = [out EXCEPT ![r] = "none"]
  /\ UNCHANGED <<tables, locks>>

\* A statement fails, or the connection or the process goes away: an open
\* transaction is rolled back, and the caller sees a 500 or nothing.
Fail(r) ==
  /\ pc[r] \notin {"idle", "reply"}
  /\ Answer(r, "error")
  /\ ReleaseLocks(r)
  /\ UNCHANGED <<tables, req, seen, page>>

\* One INSERT, so it needs no handler of several steps.
CreateQuote ==
  /\ PoolHasConnection
  /\ \E q \in Quotes : Ledger!CreateQuote(q)
  /\ UNCHANGED <<locks, pc, req, seen, page, out>>

-------------------------------------------------------------------------------
(* Seeded defects: each is a handler step as a plausible mistake would      *)
(* leave it.  No specification uses them; PROJECT.json names the property  *)
(* that notices each one.                                                  *)

\* Each transaction opens a connection of its own.
BeginUnpooled(r) ==
  /\ pc[r] = "begin"
  /\ Goto(r, IF req[r].op \in {"hold", "create"} THEN "lockQuote" ELSE "lockBooking")
  /\ UNCHANGED <<tables, locks, req, seen, page, out>>

\* The hold writes a status the enum does not have.
MisspeltCommitHold(r) ==
  /\ pc[r] = "commit" /\ req[r].op = "hold"
  /\ quotes' = [quotes EXCEPT ![req[r].quote] = "HOLD"]
  /\ ReleaseLocks(r)
  /\ Answer(r, "ok")
  /\ UNCHANGED <<bookings, log, req, seen, page>>

\* SELECT without FOR UPDATE on the quote.
UnlockedQuoteRead(r) ==
  /\ pc[r] = "lockQuote" /\ req[r].op = "create"
  /\ quotes[req[r].quote] = "HELD"
  /\ seen' = [seen EXCEPT ![r] = "HELD"]
  /\ Goto(r, "insert")
  /\ UNCHANGED <<tables, locks, req, page, out>>

\* The catch block recovers from the unique violation only.
ConflictWithoutReread(r) ==
  /\ pc[r] = "lockQuote" /\ req[r].op = "create"
  /\ quoteLock[req[r].quote] = NoRequest
  /\ seen' = [seen EXCEPT ![r] = quotes[req[r].quote]]
  /\ IF quotes[req[r].quote] = "HELD"
       THEN /\ quoteLock' = [quoteLock EXCEPT ![req[r].quote] = r]
            /\ Goto(r, "insert")
            /\ UNCHANGED out
       ELSE Answer(r, "conflict") /\ UNCHANGED quoteLock
  /\ UNCHANGED <<tables, bookingLock, req, page>>

\* SELECT without FOR UPDATE on the booking.
UnlockedBookingRead(r) ==
  /\ pc[r] = "lockBooking"
  /\ LET status == bookings[req[r].booking].status IN
     /\ status # None /\ CanTransition(status, Target(req[r].op))
     /\ seen' = [seen EXCEPT ![r] = status]
  /\ Goto(r, "commit")
  /\ UNCHANGED <<tables, locks, req, page, out>>

\* applyTransition updates the row and forgets the event.
CommitWithoutEvent(r) ==
  /\ pc[r] = "commit" /\ req[r].op \in {"confirm", "cancel"}
  /\ bookings' = [bookings EXCEPT ![req[r].booking].status = Target(req[r].op)]
  /\ ReleaseLocks(r)
  /\ Answer(r, "ok")
  /\ UNCHANGED <<quotes, log, req, seen, page>>

\* The event list is cut to its first page.
ReadFirstEvents(r) ==
  /\ pc[r] = "readEvents"
  /\ page' = [page EXCEPT ![r] = SubSeq(log[req[r].booking], 1, 2)]
  /\ Answer(r, "ok")
  /\ UNCHANGED <<tables, locks, req, seen>>

-------------------------------------------------------------------------------

\* db.transaction waits here for a connection.
Begin(r) ==
  /\ pc[r] = "begin"
  /\ PoolHasConnection
  /\ Goto(r, IF req[r].op \in {"hold", "create"} THEN "lockQuote" ELSE "lockBooking")
  /\ UNCHANGED <<tables, locks, req, seen, page, out>>

-------------------------------------------------------------------------------
(* POST /quotes/:id/hold                                                   *)

HoldQuote(r) ==
  /\ pc[r] = "lockQuote" /\ req[r].op = "hold"
  /\ LET q == req[r].quote IN
     /\ quoteLock[q] = NoRequest
     /\ \/ quotes[q] = None /\ Answer(r, "notFound") /\ UNCHANGED <<locks, seen>>
        \/ quotes[q] = "HELD" /\ Answer(r, "ok") /\ UNCHANGED <<locks, seen>>
        \/ /\ quotes[q] \in QuoteStatus \ {"HELD"}
           /\ ~ CanMoveQuote(quotes[q], "HELD")
           /\ Answer(r, "conflict")
           /\ seen' = [seen EXCEPT ![r] = quotes[q]]
           /\ UNCHANGED locks
        \/ /\ quotes[q] \in QuoteStatus \ {"HELD"}
           /\ CanMoveQuote(quotes[q], "HELD")
           /\ quoteLock' = [quoteLock EXCEPT ![q] = r]
           /\ seen' = [seen EXCEPT ![r] = quotes[q]]
           /\ Goto(r, "commit")
           /\ UNCHANGED <<bookingLock, out>>
  /\ UNCHANGED <<tables, req, page>>

CommitHold(r) ==
  /\ pc[r] = "commit" /\ req[r].op = "hold"
  /\ quotes' = [quotes EXCEPT ![req[r].quote] = "HELD"]
  /\ ReleaseLocks(r)
  /\ \E answer \in {"ok", "error"} : Answer(r, answer)
  /\ UNCHANGED <<bookings, log, req, seen, page>>

-------------------------------------------------------------------------------
(* POST /bookings                                                          *)

\* The fast replay path, before the transaction and outside it.
ReadPrior(r) ==
  /\ pc[r] = "readPrior"
  /\ PoolHasConnection
  /\ \/ /\ BookedUnder(req[r].key) = {}
        /\ Goto(r, "begin")
        /\ UNCHANGED <<req, out>>
     \/ \E b \in BookedUnder(req[r].key) :
          /\ req' = [req EXCEPT ![r] = About(@, b)]
          /\ Answer(r, "replayed")
  /\ UNCHANGED <<tables, locks, seen, page>>

LockQuote(r) ==
  /\ pc[r] = "lockQuote" /\ req[r].op = "create"
  /\ LET q == req[r].quote IN
     /\ quoteLock[q] = NoRequest
     /\ \/ quotes[q] = None /\ Answer(r, "notFound") /\ UNCHANGED <<quoteLock, seen>>
        \/ /\ quotes[q] \in QuoteStatus \ {"HELD"}
           /\ seen' = [seen EXCEPT ![r] = quotes[q]]
           /\ Goto(r, "reread")
           /\ UNCHANGED <<quoteLock, out>>
        \/ /\ quotes[q] = "HELD"
           /\ quoteLock' = [quoteLock EXCEPT ![q] = r]
           /\ seen' = [seen EXCEPT ![r] = quotes[q]]
           /\ Goto(r, "insert")
           /\ UNCHANGED out
  /\ UNCHANGED <<tables, bookingLock, req, page>>

\* UNIQUE(idempotency_key): wait for an uncommitted row with the same key,
\* then either insert or fail on the committed one.
InsertBooking(r) ==
  /\ pc[r] = "insert"
  /\ \A other \in Uncommitted : req[other].key # req[r].key
  /\ \/ /\ BookedUnder(req[r].key) # {}
        /\ ReleaseLocks(r)
        /\ Goto(r, "reread")
        /\ UNCHANGED req
     \/ /\ BookedUnder(req[r].key) = {}
        /\ \E b \in Bookings :
             /\ ~ Exists(b)
             /\ \A other \in Uncommitted : req[other].booking # b
             /\ req' = [req EXCEPT ![r] = About(@, b)]
        /\ Goto(r, "commit")
        /\ UNCHANGED locks
  /\ UNCHANGED <<tables, seen, page, out>>

\* Birth event, QUOTED -> HELD with its event, the quote consumed, and COMMIT.
CommitBooking(r) ==
  /\ pc[r] = "commit" /\ req[r].op = "create"
  /\ CanTransition(None, InitialStatus) /\ CanTransition(InitialStatus, "HELD")
  /\ CanMoveQuote(seen[r], "CONSUMED")
  /\ quotes' = [quotes EXCEPT ![req[r].quote] = "CONSUMED"]
  /\ bookings' = [bookings EXCEPT ![req[r].booking] =
                    Ledger!BookedRow(req[r].quote, req[r].key)]
  /\ log' = [log EXCEPT ![req[r].booking] = @ \o Ledger!BirthEvents]
  /\ ReleaseLocks(r)
  /\ \E answer \in {"created", "error"} : Answer(r, answer)
  /\ UNCHANGED <<req, seen, page>>

\* The catch block: after a unique violation or a StateConflict, a booking
\* already made under this key is returned as a replay.
Reread(r) ==
  /\ pc[r] = "reread"
  /\ PoolHasConnection
  /\ \/ /\ BookedUnder(req[r].key) = {}
        /\ Answer(r, IF seen[r] = "HELD" THEN "error" ELSE "conflict")
        /\ UNCHANGED req
     \/ \E b \in BookedUnder(req[r].key) :
          /\ req' = [req EXCEPT ![r] = About(@, b)]
          /\ Answer(r, "replayed")
  /\ UNCHANGED <<tables, locks, seen, page>>

-------------------------------------------------------------------------------
(* POST /bookings/:id/confirm and POST /bookings/:id/cancel                *)

LockBooking(r) ==
  /\ pc[r] = "lockBooking"
  /\ LET b == req[r].booking
         status == bookings[b].status
     IN
     /\ bookingLock[b] = NoRequest
     /\ \/ status = None /\ Answer(r, "notFound") /\ UNCHANGED <<bookingLock, seen>>
        \/ /\ status # None /\ ~ CanTransition(status, Target(req[r].op))
           /\ Answer(r, "illegal")
           /\ UNCHANGED <<bookingLock, seen>>
        \/ /\ status # None /\ CanTransition(status, Target(req[r].op))
           /\ bookingLock' = [bookingLock EXCEPT ![b] = r]
           /\ seen' = [seen EXCEPT ![r] = status]
           /\ Goto(r, "commit")
           /\ UNCHANGED out
  /\ UNCHANGED <<tables, quoteLock, req, page>>

\* applyTransition with the status read under the lock, then COMMIT.
CommitTransition(r) ==
  /\ pc[r] = "commit" /\ req[r].op \in {"confirm", "cancel"}
  /\ LET b == req[r].booking
         to == Target(req[r].op)
     IN
     /\ bookings' = [bookings EXCEPT ![b] = Ledger!Moved(@, to)]
     /\ log' = [log EXCEPT ![b] = Append(@, [from |-> seen[r], to |-> to])]
  /\ ReleaseLocks(r)
  /\ \E answer \in {"ok", "error"} : Answer(r, answer)
  /\ UNCHANGED <<quotes, req, seen, page>>

-------------------------------------------------------------------------------
(* GET /bookings/:id: two statements, no transaction around them           *)

ReadRow(r) ==
  /\ pc[r] = "readRow"
  /\ PoolHasConnection
  /\ LET status == bookings[req[r].booking].status IN
     \/ status = None /\ Answer(r, "notFound") /\ UNCHANGED seen
     \/ /\ status # None
        /\ seen' = [seen EXCEPT ![r] = status]
        /\ Goto(r, "readEvents")
        /\ UNCHANGED out
  /\ UNCHANGED <<tables, locks, req, page>>

ReadEvents(r) ==
  /\ pc[r] = "readEvents"
  /\ PoolHasConnection
  /\ page' = [page EXCEPT ![r] = log[req[r].booking]]
  /\ Answer(r, "ok")
  /\ UNCHANGED <<tables, locks, req, seen>>

-------------------------------------------------------------------------------

\* A step of the handler of r, as opposed to the arrival of a request or a
\* failure.
Step(r) ==
  \/ Begin(r) \/ HoldQuote(r) \/ CommitHold(r)
  \/ ReadPrior(r) \/ LockQuote(r) \/ InsertBooking(r) \/ CommitBooking(r) \/ Reread(r)
  \/ LockBooking(r) \/ CommitTransition(r)
  \/ ReadRow(r) \/ ReadEvents(r)
  \/ Reply(r)

Next ==
  \/ CreateQuote
  \/ \E r \in Requests : Receive(r) \/ Fail(r) \/ Step(r)

Spec == Init /\ [][Next]_vars

\* Waiters for a row lock, for an uncommitted key and for a connection are
\* queued in order by the database and by the pool, so a handler that can run
\* again and again eventually does.  Clients promise nothing.
FairSpec == Spec /\ \A r \in Requests : SF_vars(Step(r))

-------------------------------------------------------------------------------
(* Properties                                                              *)

Labels ==
  {"idle", "begin", "readPrior", "lockQuote", "insert", "reread", "lockBooking",
   "commit", "readRow", "readEvents", "reply"}

Answers == {"none", "ok", "created", "replayed", "notFound", "conflict", "illegal", "error"}

Shapes ==
  /\ Ledger!TypeOK
  /\ quoteLock \in [Quotes -> Requests \cup {NoRequest}]
  /\ bookingLock \in [Bookings -> Requests \cup {NoRequest}]
  /\ pc \in [Requests -> Labels]
  /\ req \in [Requests -> [op : {"none", "hold", "create", "confirm", "cancel", "get"},
                           quote : Quotes \cup {NoQuote}, key : Keys \cup {NoKey},
                           booking : Bookings \cup {NoBooking}]]
  /\ seen \in [Requests -> QuoteStatus \cup BookingStatus \cup {None}]
  /\ page \in [Requests -> Seq(Ledger!Event)]
  /\ out \in [Requests -> Answers]

\* Every variable has its shape, and no transaction runs without a connection
\* of the pool: there are never more of them than connections.
TypeOK == Shapes /\ Cardinality(Transactions) <= PoolSize

\* Whatever the interleaving, every commit is one legal step of the ledger:
\* the quote is still HELD, the key still unused and the booking still in the
\* status the handler read, although all of them were checked several awaits
\* earlier.
ImplementsLedger == Ledger!Spec

\* Two shippers racing for one quote: at most one of them gets a booking.
QuoteSoldOnce == Ledger!QuoteSoldOnce

\* A handler checks the quote, the key or the booking in one statement and
\* commits several awaits later; in between, what it checked stays true.
QuoteGuarded(r) ==
  pc[r] = "insert" \/ (pc[r] = "commit" /\ req[r].op \in {"hold", "create"}) =>
    /\ quoteLock[req[r].quote] = r
    /\ quotes[req[r].quote] = seen[r]
    /\ req[r].op = "hold" => seen[r] \in QuoteStatus /\ CanMoveQuote(seen[r], "HELD")
    /\ req[r].op = "create" => seen[r] = "HELD"

BookingGuarded(r) ==
  pc[r] = "commit" /\ req[r].op \in {"confirm", "cancel"} =>
    /\ bookingLock[req[r].booking] = r
    /\ bookings[req[r].booking].status = seen[r]
    /\ CanTransition(seen[r], Target(req[r].op))

KeyGuarded(r) ==
  r \in Uncommitted =>
    /\ ~ Exists(req[r].booking)
    /\ BookedUnder(req[r].key) = {}
    /\ \A other \in Uncommitted \ {r} :
         req[other].key # req[r].key /\ req[other].booking # req[r].booking

ChecksHoldUntilCommit ==
  \A r \in Requests : QuoteGuarded(r) /\ BookingGuarded(r) /\ KeyGuarded(r)

\* A 409 that says the quote "is CONSUMED" is never given to the key that
\* consumed it: a create that loses the race against its own retry is answered
\* with the booking, not with a conflict.
ConflictBlamesAnotherKey ==
  \A r \in Requests :
    (pc[r] = "reply" /\ req[r].op = "create" /\ out[r] = "conflict" /\ seen[r] = "CONSUMED")
      => \A b \in Bookings : bookings[b].quote = req[r].quote => bookings[b].key # req[r].key

\* What a 2xx answer says is in the committed tables: a created or replayed
\* booking is the one its key names, a confirmed or cancelled booking has that
\* event in its log, a held quote is held or already sold.
AnswersAreDurable ==
  \A r \in Requests : pc[r] = "reply" =>
    /\ out[r] \in {"created", "replayed"} =>
         /\ Exists(req[r].booking)
         /\ bookings[req[r].booking].key = req[r].key
    /\ out[r] = "ok" /\ req[r].op \in {"confirm", "cancel"} =>
         LET events == log[req[r].booking] IN
         \E i \in DOMAIN events :
           events[i].from = seen[r] /\ events[i].to = Target(req[r].op)
    /\ out[r] = "ok" /\ req[r].op = "hold" => quotes[req[r].quote] \in {"HELD", "CONSUMED"}

\* getBooking reads the row and then the events without a transaction.  The
\* events may be newer than the status, never older: the response always
\* contains the event that produced the status it shows.
StatusHasItsEvent ==
  \A r \in Requests :
    (pc[r] = "reply" /\ req[r].op = "get" /\ out[r] = "ok")
      => \E i \in 1 .. Len(page[r]) : page[r][i].to = seen[r]

\* What a handler answers is true of the tables at the time.
AnswersAreTrue == ConflictBlamesAnotherKey /\ StatusHasItsEvent

\* No request waits for ever: not for a row lock, not for the transaction
\* inserting the same key, not for a pooled connection.
EveryRequestIsAnswered ==
  \A r \in Requests : pc[r] # "idle" ~> pc[r] = "idle"

===============================================================================
