--------------------------- MODULE BookingServiceProofs ---------------------------
(***************************************************************************)
(* Proofs about BookingService, for any number of concurrent requests, any *)
(* pool size and any sets of quotes, keys and bookings: the handlers,      *)
(* interleaved statement by statement, implement BookingLedger, and what   *)
(* they answer is true of the committed tables and stays so, although they *)
(* read the tables in statements of their own while others commit.         *)
(***************************************************************************)
EXTENDS BookingService, FiniteSetTheorems, TLAPS

\* The handler of a request is only ever in the code of its own operation,
\* and its request names what that operation needs.
RequestShape(r) ==
  /\ pc[r] \in {"begin", "commit"} => req[r].op \in {"hold", "create", "confirm", "cancel"}
  /\ pc[r] = "lockQuote" => req[r].op \in {"hold", "create"}
  /\ pc[r] = "lockBooking" => req[r].op \in {"confirm", "cancel"}
  /\ pc[r] \in {"readPrior", "insert", "reread"} => req[r].op = "create"
  /\ pc[r] \in {"readRow", "readEvents"} => req[r].op = "get"
  /\ req[r].op \in {"hold", "create"} => req[r].quote \in Quotes
  /\ req[r].op = "create" => req[r].key \in Keys
  /\ req[r].op \in {"confirm", "cancel", "get"} => req[r].booking \in Bookings
  /\ pc[r] = "commit" /\ req[r].op = "create" => req[r].booking \in Bookings
  /\ pc[r] = "commit" /\ req[r].op \in {"confirm", "cancel"} => seen[r] \in BookingStatus

TypeInv == Shapes /\ \A r \in Requests : RequestShape(r)

RequestBody ==
  [op : {"none", "hold", "create", "confirm", "cancel", "get"},
   quote : Quotes \cup {NoQuote}, key : Keys \cup {NoKey},
   booking : Bookings \cup {NoBooking}]

LEMMA StatusFacts ==
  /\ None \notin BookingStatus /\ None \notin QuoteStatus
  /\ InitialStatus \in BookingStatus /\ "HELD" \in BookingStatus
  /\ {"CONFIRMED", "CANCELLED"} \subseteq BookingStatus
  /\ QuoteStatus = {"ACTIVE", "HELD", "EXPIRED", "CONSUMED"}
  BY DEF BookingStatus, QuoteStatus, None, InitialStatus

\* The ledger consults the same two tables as the service.
LEMMA SameTables ==
  /\ Ledger!BookingStatus = BookingStatus /\ Ledger!QuoteStatus = QuoteStatus
  /\ Ledger!None = None /\ Ledger!InitialStatus = InitialStatus
  /\ \A from, to : Ledger!CanTransition(from, to) <=> CanTransition(from, to)
  /\ \A from, to : Ledger!CanMoveQuote(from, to) <=> CanMoveQuote(from, to)
<1>1. Ledger!BookingStatus = BookingStatus /\ Ledger!QuoteStatus = QuoteStatus
  BY DEF Ledger!BookingStatus, BookingStatus, Ledger!QuoteStatus, QuoteStatus
<1>2. Ledger!None = None /\ Ledger!InitialStatus = InitialStatus
  BY DEF Ledger!None, None, Ledger!InitialStatus, InitialStatus
<1>3. Ledger!Transitions = Transitions /\ Ledger!QuoteTransitions = QuoteTransitions
  BY <1>1, Zenon DEF Ledger!Transitions, Transitions, Ledger!QuoteTransitions, QuoteTransitions
<1>4. \A from, to : Ledger!CanTransition(from, to) <=> CanTransition(from, to)
  BY <1>2, <1>3 DEF Ledger!CanTransition, CanTransition
<1>5. \A from, to : Ledger!CanMoveQuote(from, to) <=> CanMoveQuote(from, to)
  BY <1>3 DEF Ledger!CanMoveQuote, CanMoveQuote
<1>6. QED
  BY <1>1, <1>2, <1>4, <1>5

LEMMA TargetType == \A op : Target(op) \in {"CONFIRMED", "CANCELLED"}
  BY DEF Target

LEMMA RowTypes ==
  /\ \A q \in Quotes, k \in Keys : Ledger!BookedRow(q, k) \in Ledger!Row
  /\ \A row \in Ledger!Row : \A to \in BookingStatus : Ledger!Moved(row, to) \in Ledger!Row
  /\ Ledger!BirthEvents \in Seq(Ledger!Event)
<1>1. \A q \in Quotes, k \in Keys : Ledger!BookedRow(q, k) \in Ledger!Row
  BY StatusFacts, SameTables DEF Ledger!BookedRow, Ledger!Row
<1>2. \A row \in Ledger!Row : \A to \in BookingStatus : Ledger!Moved(row, to) \in Ledger!Row
  BY SameTables DEF Ledger!Moved, Ledger!Row
<1>3. Ledger!BirthEvents \in Seq(Ledger!Event)
  BY StatusFacts, SameTables DEF Ledger!BirthEvents, Ledger!Event
<1>4. QED
  BY <1>1, <1>2, <1>3

\* Receiving one of the enumerated requests sets up its handler.
LEMMA ReceiveShape ==
  ASSUME NEW body \in Request
  PROVE  /\ body \in RequestBody
         /\ Entry(body.op) \in {"readPrior", "readRow", "begin"}
         /\ Entry(body.op) = "begin" => body.op \in {"hold", "confirm", "cancel"}
         /\ Entry(body.op) = "readPrior" => body.op = "create"
         /\ Entry(body.op) = "readRow" => body.op = "get"
         /\ body.op \in {"hold", "create"} => body.quote \in Quotes
         /\ body.op = "create" => body.key \in Keys
         /\ body.op \in {"confirm", "cancel", "get"} => body.booking \in Bookings
<1>1. CASE body \in {Body("hold", q, NoKey, NoBooking) : q \in Quotes}
  BY <1>1 DEF Body, RequestBody, Entry
<1>2. CASE body \in {Body("create", q, k, NoBooking) : q \in Quotes, k \in Keys}
  BY <1>2 DEF Body, RequestBody, Entry
<1>3. CASE body \in {Body(op, NoQuote, NoKey, b) : op \in {"confirm", "cancel", "get"},
                                                  b \in Bookings}
  BY <1>3 DEF Body, RequestBody, Entry
<1>4. QED
  BY <1>1, <1>2, <1>3 DEF Request
-------------------------------------------------------------------------------

\* The part of TypeInv about the handlers and the part about the tables.
HandlersOK ==
  /\ quoteLock \in [Quotes -> Requests \cup {NoRequest}]
  /\ bookingLock \in [Bookings -> Requests \cup {NoRequest}]
  /\ pc \in [Requests -> Labels]
  /\ req \in [Requests -> RequestBody]
  /\ seen \in [Requests -> QuoteStatus \cup BookingStatus \cup {None}]
  /\ page \in [Requests -> Seq(Ledger!Event)]
  /\ out \in [Requests -> Answers]

LEMMA ShapesParts == Shapes <=> Ledger!TypeOK /\ HandlersOK
  BY DEF Shapes, HandlersOK, RequestBody

\* A step that moves only the handler of r keeps every handler in shape when
\* it leaves r in shape.
LEMMA HandlerMoves ==
  ASSUME TypeInv, NEW r \in Requests, NEW label \in Labels, NEW body \in RequestBody,
         pc' = [pc EXCEPT ![r] = label], req' = [req EXCEPT ![r] = body],
         \A s \in Requests \ {r} : seen'[s] = seen[s],
         RequestShape(r)'
  PROVE  /\ pc' \in [Requests -> Labels] /\ req' \in [Requests -> RequestBody]
         /\ \A s \in Requests : RequestShape(s)'
<1>1. pc \in [Requests -> Labels] /\ req \in [Requests -> RequestBody]
  BY DEF TypeInv, Shapes, RequestBody
<1>2. \A s \in Requests \ {r} : pc'[s] = pc[s] /\ req'[s] = req[s]
  BY <1>1
<1>3. \A s \in Requests \ {r} : RequestShape(s)'
  <2> SUFFICES ASSUME NEW s \in Requests \ {r} PROVE RequestShape(s)'
    OBVIOUS
  <2>1. RequestShape(s) /\ pc'[s] = pc[s] /\ req'[s] = req[s] /\ seen'[s] = seen[s]
    BY <1>2 DEF TypeInv
  <2>2. QED
    BY <2>1 DEF RequestShape
<1>4. QED
  BY <1>1, <1>3

LEMMA ReleaseType ==
  ASSUME HandlersOK, NEW r \in Requests, ReleaseLocks(r)
  PROVE  /\ quoteLock' \in [Quotes -> Requests \cup {NoRequest}]
         /\ bookingLock' \in [Bookings -> Requests \cup {NoRequest}]
  BY DEF HandlersOK, ReleaseLocks, Unlocked
LEMMA TypeInvInit == Init => TypeInv
<1> SUFFICES ASSUME Init PROVE TypeInv
  OBVIOUS
<1>1. Ledger!TypeOK
  BY SameTables DEF Init, Ledger!Init, Ledger!TypeOK, Ledger!Row, Ledger!NoRow
<1>2. HandlersOK
  BY DEF Init, HandlersOK, RequestBody, NoBody, Body, Labels, Answers
<1>3. \A r \in Requests : RequestShape(r)
  BY DEF Init, RequestShape, NoBody, Body
<1>4. QED
  BY <1>1, <1>2, <1>3, ShapesParts DEF TypeInv

\* Steps that touch neither the tables nor another handler.
LEMMA QuietTypes ==
  ASSUME TypeInv, NEW r \in Requests,
         Receive(r) \/ Reply(r) \/ Fail(r) \/ Begin(r) \/ HoldQuote(r) \/ ReadPrior(r)
           \/ LockQuote(r) \/ InsertBooking(r) \/ Reread(r) \/ LockBooking(r)
           \/ ReadRow(r) \/ ReadEvents(r)
  PROVE  TypeInv'
<1> USE DEF Goto, Answer, Labels, Answers
<1>1. /\ HandlersOK /\ Ledger!TypeOK /\ RequestShape(r)
      /\ req = [req EXCEPT ![r] = req[r]] /\ req[r] \in RequestBody
  BY ShapesParts DEF TypeInv, HandlersOK
<1>frame. \A s \in Requests \ {r} : seen'[s] = seen[s]
  BY <1>1 DEF Receive, Reply, Fail, Begin, HoldQuote, ReadPrior, LockQuote, InsertBooking,
              Reread, LockBooking, ReadRow, ReadEvents, HandlersOK
<1>2. UNCHANGED tables
  BY DEF Receive, Reply, Fail, Begin, HoldQuote, ReadPrior, LockQuote, InsertBooking, Reread,
         LockBooking, ReadRow, ReadEvents
<1>3. Ledger!TypeOK'
  BY <1>1, <1>2 DEF tables, Ledger!TypeOK
<1>4. ASSUME HandlersOK', \A s \in Requests : RequestShape(s)' PROVE TypeInv'
  BY <1>3, <1>4, ShapesParts DEF TypeInv, Shapes, HandlersOK, RequestBody
<1>5. CASE Receive(r)
  <2>1. PICK body \in Request : /\ req' = [req EXCEPT ![r] = body]
                                /\ pc' = [pc EXCEPT ![r] = Entry(body.op)]
    BY <1>5 DEF Receive
  <2>2. Entry(body.op) \in Labels /\ body \in RequestBody
    BY ReceiveShape
  <2>3. RequestShape(r)'
    BY <2>1, <2>2, <1>1, ReceiveShape DEF RequestShape, HandlersOK
  <2>4. QED
    BY <1>1, <1>4, <1>5, <2>1, <2>2, <2>3, <1>frame, HandlerMoves DEF Receive, HandlersOK, locks
<1>6. CASE Reply(r)
  <2>1. NoBody \in RequestBody /\ <<>> \in Seq(Ledger!Event)
    BY DEF NoBody, Body, RequestBody
  <2>2. RequestShape(r)'
    BY <1>1, <1>6 DEF Reply, RequestShape, NoBody, Body, HandlersOK
  <2>3. QED
    BY <1>1, <1>4, <1>6, <2>1, <2>2, <1>frame, HandlerMoves DEF Reply, HandlersOK, locks
<1>7. CASE Fail(r)
  <2>1. RequestShape(r)'
    BY <1>1, <1>7 DEF Fail, RequestShape, HandlersOK
  <2>2. QED
    BY <1>1, <1>4, <1>7, <2>1, <1>frame, HandlerMoves, ReleaseType DEF Fail, HandlersOK
<1>8. CASE Begin(r)
  <2>1. RequestShape(r)'
    BY <1>1, <1>8 DEF Begin, RequestShape, HandlersOK
  <2>2. QED
    BY <1>1, <1>4, <1>8, <2>1, <1>frame, HandlerMoves DEF Begin, HandlersOK, locks
<1>9. CASE HoldQuote(r)
  <2>1. PICK label \in Labels, body \in RequestBody :
          /\ pc' = [pc EXCEPT ![r] = label]
          /\ req' = [req EXCEPT ![r] = body]
    BY <1>1, <1>9 DEF HoldQuote
  <2>2. RequestShape(r)'
    BY <1>1, <1>9 DEF HoldQuote, RequestShape, HandlersOK
  <2>3. seen' \in [Requests -> QuoteStatus \cup BookingStatus \cup {None}]
    BY <1>1, <1>9, StatusFacts DEF HoldQuote, HandlersOK
  <2>4. HandlersOK'
    <3>2. /\ quoteLock' \in [Quotes -> Requests \cup {NoRequest}]
          /\ bookingLock' \in [Bookings -> Requests \cup {NoRequest}]
      <4>1. /\ quoteLock' = quoteLock \/ quoteLock' = [quoteLock EXCEPT ![req[r].quote] = r]
            /\ bookingLock' = bookingLock
        BY <1>9 DEF HoldQuote, locks
      <4>2. QED
        BY <1>1, <4>1 DEF HandlersOK
    <3>3. out' \in [Requests -> Answers] /\ page' = page
      BY <1>1, <1>9 DEF HoldQuote, HandlersOK
    <3>4. QED
      BY <1>1, <2>1, <2>2, <2>3, <3>2, <3>3, <1>frame, HandlerMoves DEF HandlersOK
  <2>5. QED
    BY <1>4, <2>1, <2>2, <2>4, <1>frame, HandlerMoves
<1>10. CASE ReadPrior(r)
  <2>1. RequestShape(r)'
    BY <1>1, <1>10 DEF ReadPrior, RequestShape, HandlersOK, BookedUnder, About, Body
  <2>2. \A b \in BookedUnder(req[r].key) : About(req[r], b) \in RequestBody
    BY <1>1 DEF BookedUnder, RequestBody, About, Body
  <2>3. QED
    BY <1>1, <1>4, <1>10, <2>1, <2>2, <1>frame, HandlerMoves DEF ReadPrior, HandlersOK, locks
<1>11. CASE LockQuote(r)
  <2>1. PICK label \in Labels, body \in RequestBody :
          /\ pc' = [pc EXCEPT ![r] = label]
          /\ req' = [req EXCEPT ![r] = body]
    BY <1>1, <1>11 DEF LockQuote
  <2>2. RequestShape(r)'
    BY <1>1, <1>11 DEF LockQuote, RequestShape, HandlersOK
  <2>3. seen' \in [Requests -> QuoteStatus \cup BookingStatus \cup {None}]
    BY <1>1, <1>11, StatusFacts DEF LockQuote, HandlersOK
  <2>4. HandlersOK'
    <3>2. /\ quoteLock' \in [Quotes -> Requests \cup {NoRequest}]
          /\ bookingLock' \in [Bookings -> Requests \cup {NoRequest}]
      BY <1>1, <1>11 DEF LockQuote, HandlersOK, locks
    <3>3. out' \in [Requests -> Answers] /\ page' = page
      BY <1>1, <1>11 DEF LockQuote, HandlersOK
    <3>4. QED
      BY <1>1, <2>1, <2>2, <2>3, <3>2, <3>3, <1>frame, HandlerMoves DEF HandlersOK
  <2>5. QED
    BY <1>4, <2>1, <2>2, <2>4, <1>frame, HandlerMoves
<1>12. CASE InsertBooking(r)
  <2>1. PICK label \in Labels, body \in RequestBody :
          /\ pc' = [pc EXCEPT ![r] = label]
          /\ req' = [req EXCEPT ![r] = body]
    BY <1>1, <1>12 DEF InsertBooking, RequestBody, About, Body
  <2>2. RequestShape(r)'
    BY <1>1, <1>12 DEF InsertBooking, RequestShape, HandlersOK, RequestBody, About, Body
  <2>3. /\ quoteLock' \in [Quotes -> Requests \cup {NoRequest}]
        /\ bookingLock' \in [Bookings -> Requests \cup {NoRequest}]
    BY <1>1, <1>12, ReleaseType DEF InsertBooking, HandlersOK, locks
  <2>4. HandlersOK'
    BY <1>1, <1>12, <2>1, <2>2, <2>3, <1>frame, HandlerMoves DEF InsertBooking, HandlersOK, locks
  <2>5. QED
    BY <1>4, <2>1, <2>2, <2>4, <1>frame, HandlerMoves
<1>13. CASE Reread(r)
  <2>1. RequestShape(r)'
    BY <1>1, <1>13 DEF Reread, RequestShape, HandlersOK, BookedUnder, About, Body
  <2>2. \A b \in BookedUnder(req[r].key) : About(req[r], b) \in RequestBody
    BY <1>1 DEF BookedUnder, RequestBody, About, Body
  <2>3. QED
    BY <1>1, <1>4, <1>13, <2>1, <2>2, <1>frame, HandlerMoves DEF Reread, HandlersOK, locks
<1>14. CASE LockBooking(r)
  <2>1. PICK label \in Labels, body \in RequestBody :
          /\ pc' = [pc EXCEPT ![r] = label]
          /\ req' = [req EXCEPT ![r] = body]
    BY <1>1, <1>14 DEF LockBooking
  <2>3. bookings[req[r].booking].status \in BookingStatus \cup {None}
    BY <1>1, <1>14, SameTables DEF LockBooking, RequestShape, Ledger!TypeOK, Ledger!Row
  <2>2. RequestShape(r)'
    BY <1>1, <1>14, <2>3 DEF LockBooking, RequestShape, HandlersOK
  <2>4. HandlersOK'
    <3>1. seen' \in [Requests -> QuoteStatus \cup BookingStatus \cup {None}]
      BY <1>1, <1>14, <2>3 DEF LockBooking, HandlersOK
    <3>2. /\ quoteLock' \in [Quotes -> Requests \cup {NoRequest}]
          /\ bookingLock' \in [Bookings -> Requests \cup {NoRequest}]
      <4>1. /\ bookingLock' = bookingLock \/ bookingLock' = [bookingLock EXCEPT ![req[r].booking] = r]
            /\ quoteLock' = quoteLock
        BY <1>14 DEF LockBooking, locks
      <4>2. QED
        BY <1>1, <4>1 DEF HandlersOK
    <3>3. out' \in [Requests -> Answers] /\ page' = page
      BY <1>1, <1>14 DEF LockBooking, HandlersOK
    <3>4. QED
      BY <1>1, <2>1, <2>2, <3>1, <3>2, <3>3, <1>frame, HandlerMoves DEF HandlersOK
  <2>5. QED
    BY <1>4, <2>1, <2>2, <2>4, <1>frame, HandlerMoves
<1>15. CASE ReadRow(r)
  <2>1. RequestShape(r)'
    BY <1>1, <1>15 DEF ReadRow, RequestShape, HandlersOK
  <2>2. bookings[req[r].booking].status \in BookingStatus \cup {None}
    BY <1>1, <1>15, SameTables DEF ReadRow, RequestShape, Ledger!TypeOK, Ledger!Row
  <2>3. QED
    BY <1>1, <1>4, <1>15, <2>1, <2>2, <1>frame, HandlerMoves DEF ReadRow, HandlersOK, locks
<1>16. CASE ReadEvents(r)
  <2>1. RequestShape(r)'
    BY <1>1, <1>16 DEF ReadEvents, RequestShape, HandlersOK
  <2>2. log[req[r].booking] \in Seq(Ledger!Event)
    BY <1>1, <1>16 DEF ReadEvents, RequestShape, Ledger!TypeOK
  <2>3. QED
    BY <1>1, <1>4, <1>16, <2>1, <2>2, <1>frame, HandlerMoves DEF ReadEvents, HandlersOK, locks
<1>17. QED
  BY <1>5, <1>6, <1>7, <1>8, <1>9, <1>10, <1>11, <1>12, <1>13, <1>14, <1>15, <1>16

\* The three commits are the steps of a handler that write the tables.
LEMMA CommitTypes ==
  ASSUME TypeInv, NEW r \in Requests,
         CommitHold(r) \/ CommitBooking(r) \/ CommitTransition(r)
  PROVE  TypeInv'
<1>1. /\ HandlersOK /\ Ledger!TypeOK /\ RequestShape(r)
      /\ req = [req EXCEPT ![r] = req[r]] /\ req[r] \in RequestBody
  BY ShapesParts DEF TypeInv, HandlersOK
<1>2. PICK answer \in Answers :
        /\ pc' = [pc EXCEPT ![r] = "reply"] /\ out' = [out EXCEPT ![r] = answer]
        /\ ReleaseLocks(r) /\ UNCHANGED <<req, seen, page>>
  BY DEF CommitHold, CommitBooking, CommitTransition, Answer, Goto, Answers
<1>3. RequestShape(r)'
  BY <1>1, <1>2 DEF RequestShape, HandlersOK
<1>4. HandlersOK' /\ \A s \in Requests : RequestShape(s)'
  BY <1>1, <1>2, <1>3, HandlerMoves, ReleaseType DEF HandlersOK, Labels
<1>5. Ledger!TypeOK'
  <2> USE <1>1 DEF Ledger!TypeOK
  <2>1. CASE CommitHold(r)
    BY <2>1, SameTables, StatusFacts DEF CommitHold
  <2>2. CASE CommitBooking(r)
    <3>1. req[r].quote \in Quotes /\ req[r].key \in Keys /\ req[r].booking \in Bookings
      BY <2>2 DEF CommitBooking, RequestShape
    <3>2. quotes' \in [Quotes -> Ledger!QuoteStatus \cup {Ledger!None}]
      BY <2>2, SameTables, StatusFacts DEF CommitBooking
    <3>3. bookings' \in [Bookings -> Ledger!Row]
      BY <2>2, <3>1, RowTypes DEF CommitBooking
    <3>4. log[req[r].booking] \o Ledger!BirthEvents \in Seq(Ledger!Event)
      BY <3>1, RowTypes
    <3>5. QED
      BY <2>2, <3>2, <3>3, <3>4 DEF CommitBooking
  <2>3. CASE CommitTransition(r)
    <3> DEFINE b == req[r].booking
               to == Target(req[r].op)
    <3>1. b \in Bookings /\ to \in BookingStatus
      BY <2>3, TargetType, StatusFacts DEF CommitTransition, RequestShape
    <3>2. Ledger!Moved(bookings[b], to) \in Ledger!Row
      BY <3>1, RowTypes
    <3>3. bookings' = [bookings EXCEPT ![b] = Ledger!Moved(bookings[b], to)]
      BY <2>3 DEF CommitTransition
    <3>4. bookings' \in [Bookings -> Ledger!Row]
      BY <3>1, <3>2, <3>3
    <3>5. [from |-> seen[r], to |-> to] \in Ledger!Event
      BY <2>3, <3>1, SameTables DEF CommitTransition, RequestShape, Ledger!Event
    <3>6. log' = [log EXCEPT ![b] = Append(log[b], [from |-> seen[r], to |-> to])]
      BY <2>3 DEF CommitTransition
    <3>7. log' \in [Bookings -> Seq(Ledger!Event)]
      BY <3>1, <3>5, <3>6
    <3>8. QED
      BY <2>3, <3>4, <3>7 DEF CommitTransition
  <2>4. QED
    BY <2>1, <2>2, <2>3
<1>6. QED
  BY <1>4, <1>5, ShapesParts DEF TypeInv, Shapes, HandlersOK, RequestBody

LEMMA TypeInvStep == TypeInv /\ [Next]_vars => TypeInv'
<1> SUFFICES ASSUME TypeInv, [Next]_vars PROVE TypeInv'
  OBVIOUS
<1>1. ASSUME NEW r \in Requests, Receive(r) \/ Fail(r) \/ Step(r) PROVE TypeInv'
  BY <1>1, QuietTypes, CommitTypes DEF Step
<1>2. CASE CreateQuote
  <2>1. Ledger!TypeOK'
    BY <1>2, SameTables, StatusFacts
       DEF CreateQuote, Ledger!CreateQuote, TypeInv, Shapes, Ledger!TypeOK
  <2>2. QED
    BY <1>2, <2>1 DEF CreateQuote, locks, TypeInv, Shapes, RequestShape
<1>3. CASE UNCHANGED vars
  BY <1>3 DEF vars, tables, locks, TypeInv, Shapes, Ledger!TypeOK, RequestShape
<1>4. QED
  BY <1>1, <1>2, <1>3 DEF Next

\* A transaction starts on a connection nobody else has, and every other step
\* leaves the transactions or ends one.
PoolInv == Cardinality(Transactions) <= PoolSize

LEMMA TransactionsFinite ==
  /\ IsFiniteSet(Transactions)
  /\ \A after \in SUBSET Transactions : Cardinality(after) <= Cardinality(Transactions)
  /\ \A after \in SUBSET Transactions : Cardinality(after) \in Nat
  /\ Cardinality(Transactions) \in Nat
<1>1. Transactions \in SUBSET Requests /\ IsFiniteSet(Requests)
  BY ServiceConstants DEF Transactions
<1>2. IsFiniteSet(Transactions)
  BY <1>1, FS_Subset
<1>3. ASSUME NEW after \in SUBSET Transactions
      PROVE  Cardinality(after) <= Cardinality(Transactions) /\ Cardinality(after) \in Nat
  BY <1>2, FS_Subset, FS_CardinalityType
<1>4. Cardinality(Transactions) \in Nat
  BY <1>2, FS_CardinalityType
<1>5. QED
  BY <1>2, <1>3, <1>4

LEMMA PoolInit == Init => PoolInv
<1> SUFFICES ASSUME Init PROVE PoolInv
  OBVIOUS
<1>1. Transactions = {}
  BY DEF Init, Transactions, InTransaction
<1>2. QED
  BY <1>1, FS_EmptySet, ServiceConstants DEF PoolInv

\* Where a step other than Begin takes its handler: out of the transaction,
\* or on within it.
LEMMA OnlyBeginEnters ==
  ASSUME TypeInv, NEW r \in Requests, Receive(r) \/ Fail(r) \/ Step(r), ~ Begin(r)
  PROVE  \E label :
           /\ pc' = [pc EXCEPT ![r] = label]
           /\ label \in InTransaction => pc[r] \in InTransaction
<1> USE DEF Goto, Answer, InTransaction
<1>1. CASE Receive(r)
  BY <1>1 DEF Receive, Entry
<1>2. CASE Fail(r) \/ Reply(r) \/ ReadPrior(r) \/ Reread(r) \/ ReadRow(r) \/ ReadEvents(r)
  BY <1>2 DEF Fail, Reply, ReadPrior, Reread, ReadRow, ReadEvents
<1>3. CASE HoldQuote(r) \/ LockQuote(r) \/ LockBooking(r)
  BY <1>3 DEF HoldQuote, LockQuote, LockBooking
<1>4. CASE InsertBooking(r)
  BY <1>4 DEF InsertBooking
<1>5. CASE CommitHold(r) \/ CommitBooking(r) \/ CommitTransition(r)
  BY <1>5 DEF CommitHold, CommitBooking, CommitTransition
<1>6. QED
  BY <1>1, <1>2, <1>3, <1>4, <1>5 DEF Step

LEMMA PoolStep == TypeInv /\ PoolInv /\ [Next]_vars => PoolInv'
<1> SUFFICES ASSUME TypeInv, PoolInv, [Next]_vars PROVE PoolInv'
  OBVIOUS
<1>1. pc \in [Requests -> Labels] /\ PoolSize \in Nat
  BY ServiceConstants DEF TypeInv, Shapes
<1>2. PICK after : after = {r \in Requests : pc'[r] \in InTransaction}
  OBVIOUS
<1>3. SUFFICES Cardinality(after) <= PoolSize
  BY <1>2 DEF PoolInv, Transactions, InTransaction
<1>4. ASSUME after \subseteq Transactions PROVE Cardinality(after) <= PoolSize
  BY <1>1, <1>4, TransactionsFinite DEF PoolInv
<1>5. ASSUME NEW r \in Requests, Begin(r) PROVE Cardinality(after) <= PoolSize
  <2>1. after = Transactions \cup {r}
    BY <1>1, <1>2, <1>5 DEF Begin, Goto, Transactions, InTransaction
  <2>2. Cardinality(after) \in {Cardinality(Transactions), Cardinality(Transactions) + 1}
    BY <2>1, TransactionsFinite, FS_AddElement
  <2>3. Cardinality(Transactions) < PoolSize
    BY <1>5 DEF Begin, PoolHasConnection
  <2>4. QED
    BY <1>1, <2>2, <2>3, TransactionsFinite
<1>6. ASSUME NEW r \in Requests, Receive(r) \/ Fail(r) \/ Step(r), ~ Begin(r)
      PROVE  after \subseteq Transactions
  <2>1. PICK label : /\ pc' = [pc EXCEPT ![r] = label]
                     /\ label \in InTransaction => pc[r] \in InTransaction
    BY <1>6, OnlyBeginEnters
  <2>2. QED
    BY <1>1, <1>2, <2>1 DEF Transactions
<1>7. ASSUME UNCHANGED pc PROVE after \subseteq Transactions
  BY <1>2, <1>7 DEF Transactions
<1>8. QED
  BY <1>4, <1>5, <1>6, <1>7 DEF Next, CreateQuote, vars

\* Every variable has its shape in every reachable state, and there are never
\* more transactions than connections, however many requests there are.
THEOREM ServiceTypeCorrect == Spec => []TypeOK
<1>1. TypeInv /\ PoolInv => TypeOK
  BY DEF TypeInv, PoolInv, TypeOK
<1>2. QED
  BY <1>1, TypeInvInit, TypeInvStep, PoolInit, PoolStep, PTL DEF Spec

-------------------------------------------------------------------------------

\* A row that does not exist has nothing left in it and no events.
AbsentRowsAreEmpty ==
  \A b \in Bookings : ~ Exists(b) => bookings[b] = Ledger!NoRow /\ log[b] = <<>>

\* The inductive invariant: the promise of the locks, which the refinement
\* needs at every commit.
ServiceInv == TypeInv /\ AbsentRowsAreEmpty /\ ChecksHoldUntilCommit

\* What a step of the handler of r leaves to the other handlers: their local
\* state and the rows they have locked.
OthersKeep(r) ==
  \A s \in Requests \ {r} :
    /\ pc'[s] = pc[s] /\ req'[s] = req[s] /\ seen'[s] = seen[s]
    /\ \A q \in Quotes : quoteLock[q] = s => quoteLock'[q] = s
    /\ \A b \in Bookings : bookingLock[b] = s => bookingLock'[b] = s

LEMMA ReleaseKeepsOthers ==
  ASSUME HandlersOK, NEW r \in Requests, ReleaseLocks(r)
  PROVE  \A s \in Requests \ {r} :
           /\ \A q \in Quotes : quoteLock[q] = s => quoteLock'[q] = s
           /\ \A b \in Bookings : bookingLock[b] = s => bookingLock'[b] = s
  BY DEF HandlersOK, ReleaseLocks, Unlocked

LEMMA StepKeepsOthers ==
  ASSUME TypeInv, NEW r \in Requests, Receive(r) \/ Fail(r) \/ Step(r)
  PROVE  OthersKeep(r)
<1> USE ServiceConstants DEF OthersKeep, Goto, Answer, locks
<1>1. HandlersOK
  BY ShapesParts DEF TypeInv
<1>2. CASE Receive(r)
  BY <1>1, <1>2 DEF Receive, HandlersOK
<1>3. CASE Fail(r)
  BY <1>1, <1>3, ReleaseKeepsOthers DEF Fail, HandlersOK
<1>4. CASE Begin(r)
  BY <1>1, <1>4 DEF Begin, HandlersOK
<1>5. CASE HoldQuote(r)
  BY <1>1, <1>5 DEF HoldQuote, HandlersOK
<1>6. CASE CommitHold(r)
  BY <1>1, <1>6, ReleaseKeepsOthers DEF CommitHold, HandlersOK
<1>7. CASE ReadPrior(r)
  BY <1>1, <1>7 DEF ReadPrior, HandlersOK
<1>8. CASE LockQuote(r)
  BY <1>1, <1>8 DEF LockQuote, HandlersOK
<1>9. CASE InsertBooking(r)
  BY <1>1, <1>9, ReleaseKeepsOthers DEF InsertBooking, HandlersOK
<1>10. CASE CommitBooking(r)
  BY <1>1, <1>10, ReleaseKeepsOthers DEF CommitBooking, HandlersOK
<1>11. CASE Reread(r)
  BY <1>1, <1>11 DEF Reread, HandlersOK
<1>12. CASE LockBooking(r)
  BY <1>1, <1>12 DEF LockBooking, HandlersOK
<1>13. CASE CommitTransition(r)
  BY <1>1, <1>13, ReleaseKeepsOthers DEF CommitTransition, HandlersOK
<1>14. CASE ReadRow(r)
  BY <1>1, <1>14 DEF ReadRow, HandlersOK
<1>15. CASE ReadEvents(r)
  BY <1>1, <1>15 DEF ReadEvents, HandlersOK
<1>16. CASE Reply(r)
  BY <1>1, <1>16 DEF Reply, HandlersOK
<1>17. QED
  BY <1>2, <1>3, <1>4, <1>5, <1>6, <1>7, <1>8, <1>9, <1>10, <1>11, <1>12, <1>13, <1>14,
     <1>15, <1>16 DEF Step

\* A handler's checks survive a step of another handler that writes only rows
\* it has locked itself, or rows that do not exist yet.
LEMMA ChecksSurvive ==
  ASSUME ServiceInv, NEW r \in Requests, OthersKeep(r),
         \A q \in Quotes : quotes'[q] = quotes[q] \/ quoteLock[q] = r,
         \A b \in Bookings : bookings'[b] = bookings[b] \/ bookingLock[b] = r \/ ~ Exists(b)
  PROVE  \A s \in Requests \ {r} : QuoteGuarded(s)' /\ BookingGuarded(s)'
<1> SUFFICES ASSUME NEW s \in Requests \ {r} PROVE QuoteGuarded(s)' /\ BookingGuarded(s)'
  OBVIOUS
<1>1. /\ pc'[s] = pc[s] /\ req'[s] = req[s] /\ seen'[s] = seen[s]
      /\ QuoteGuarded(s) /\ BookingGuarded(s) /\ RequestShape(s)
  BY DEF OthersKeep, ServiceInv, TypeInv, ChecksHoldUntilCommit
<1>2. QuoteGuarded(s)'
  BY <1>1 DEF QuoteGuarded, RequestShape, OthersKeep
<1>3. BookingGuarded(s)'
  BY <1>1, StatusFacts DEF BookingGuarded, RequestShape, OthersKeep, Exists
<1>4. QED
  BY <1>2, <1>3

\* So do the checks on keys, while no row appears under their key or id.
LEMMA KeysSurvive ==
  ASSUME ServiceInv, NEW r \in Requests, OthersKeep(r), r \notin Uncommitted',
         \A b \in Bookings :
           Exists(b)' => \/ Exists(b) /\ bookings'[b].key = bookings[b].key
                         \/ /\ r \in Uncommitted
                            /\ b = req[r].booking /\ bookings'[b].key = req[r].key
  PROVE  \A s \in Requests : KeyGuarded(s)'
<1> SUFFICES ASSUME NEW s \in Uncommitted'
             PROVE  KeyGuarded(s)'
  BY DEF KeyGuarded
<1>1. /\ Uncommitted' \subseteq Uncommitted \ {r}
      /\ \A t \in Uncommitted' : t \in Requests \ {r} /\ req'[t] = req[t]
  BY DEF Uncommitted, OthersKeep
<1>2. /\ KeyGuarded(s) /\ s \in Uncommitted /\ req'[s] = req[s]
      /\ r \in Uncommitted =>
           req[r].key # req[s].key /\ req[r].booking # req[s].booking
  BY <1>1 DEF ServiceInv, ChecksHoldUntilCommit, KeyGuarded
<1>3. req[s].booking \in Bookings
  BY <1>1, <1>2 DEF ServiceInv, TypeInv, RequestShape, Uncommitted
<1>4. bookings'[req[s].booking].status = None
  BY <1>2, <1>3 DEF KeyGuarded, Exists
<1>5. \A b \in Bookings : bookings'[b].status # None => bookings'[b].key # req[s].key
  <2> SUFFICES ASSUME NEW b \in Bookings, Exists(b)', bookings'[b].key = req[s].key
               PROVE  FALSE
    BY DEF Exists
  <2>1. CASE Exists(b) /\ bookings'[b].key = bookings[b].key
    BY <2>1, <1>2 DEF KeyGuarded, BookedUnder
  <2>2. CASE r \in Uncommitted /\ bookings'[b].key = req[r].key
    BY <2>2, <1>2
  <2>3. QED
    BY <2>1, <2>2
<1>6. \A t \in Uncommitted' \ {s} :
        req'[t].key # req'[s].key /\ req'[t].booking # req'[s].booking
  BY <1>1, <1>2 DEF KeyGuarded
<1>7. QED
  BY <1>2, <1>4, <1>5, <1>6 DEF KeyGuarded, Exists, BookedUnder

\* A handler that leaves its transaction, or is not in one, owes nothing.
LEMMA NotInTransaction ==
  ASSUME NEW r \in Requests, pc'[r] \notin {"insert", "commit"}
  PROVE  QuoteGuarded(r)' /\ BookingGuarded(r)' /\ r \notin Uncommitted'
  BY DEF QuoteGuarded, BookingGuarded, Uncommitted

LEMMA LeavingKeepsInv ==
  ASSUME ServiceInv, TypeInv', NEW r \in Requests, OthersKeep(r), UNCHANGED tables,
         pc'[r] \notin {"insert", "commit"}
  PROVE  ServiceInv'
<1>1. QuoteGuarded(r)' /\ BookingGuarded(r)' /\ r \notin Uncommitted'
  BY NotInTransaction
<1>2. \A s \in Requests \ {r} : QuoteGuarded(s)' /\ BookingGuarded(s)'
  BY ChecksSurvive DEF tables
<1>3. \A s \in Requests : KeyGuarded(s)'
  BY <1>1, KeysSurvive DEF tables, Exists
<1>4. AbsentRowsAreEmpty'
  BY DEF ServiceInv, AbsentRowsAreEmpty, tables, Exists
<1>5. QED
  BY <1>1, <1>2, <1>3, <1>4 DEF ServiceInv, ChecksHoldUntilCommit

\* Taking a row lock: the handler has just read the row it now holds.
LEMMA LockingKeepsInv ==
  ASSUME ServiceInv, TypeInv', NEW r \in Requests, OthersKeep(r),
         HoldQuote(r) \/ LockQuote(r) \/ LockBooking(r)
  PROVE  ServiceInv'
<1>1. HandlersOK /\ RequestShape(r) /\ UNCHANGED tables
  BY ShapesParts DEF ServiceInv, TypeInv, HoldQuote, LockQuote, LockBooking
<1>2. \A s \in Requests \ {r} : QuoteGuarded(s)' /\ BookingGuarded(s)'
  BY <1>1, ChecksSurvive DEF tables
<1>3. r \notin Uncommitted'
  BY <1>1 DEF HoldQuote, LockQuote, LockBooking, Uncommitted, RequestShape, HandlersOK, Goto, Answer
<1>4. \A s \in Requests : KeyGuarded(s)'
  BY <1>1, <1>3, KeysSurvive DEF tables, Exists
<1>5. AbsentRowsAreEmpty'
  BY <1>1 DEF ServiceInv, AbsentRowsAreEmpty, tables, Exists
<1>6. QuoteGuarded(r)'
  <2>1. CASE HoldQuote(r)
    BY <1>1, <2>1 DEF HoldQuote, QuoteGuarded, HandlersOK, RequestShape, tables, Goto, Answer
  <2>2. CASE LockQuote(r)
    BY <1>1, <2>2 DEF LockQuote, QuoteGuarded, HandlersOK, RequestShape, tables, Goto, Answer
  <2>3. CASE LockBooking(r)
    BY <1>1, <2>3 DEF LockBooking, QuoteGuarded, HandlersOK, RequestShape, tables, Goto, Answer
  <2>4. QED
    BY <2>1, <2>2, <2>3
<1>7. BookingGuarded(r)'
  <2>1. CASE HoldQuote(r)
    BY <1>1, <2>1 DEF HoldQuote, BookingGuarded, HandlersOK, RequestShape, tables, Goto, Answer
  <2>2. CASE LockQuote(r)
    BY <1>1, <2>2 DEF LockQuote, BookingGuarded, HandlersOK, RequestShape, tables, Goto, Answer
  <2>3. CASE LockBooking(r)
    BY <1>1, <2>3 DEF LockBooking, BookingGuarded, HandlersOK, RequestShape, tables, Goto, Answer
  <2>4. QED
    BY <2>1, <2>2, <2>3
<1>8. QED
  BY <1>2, <1>4, <1>5, <1>6, <1>7 DEF ServiceInv, ChecksHoldUntilCommit

\* The insert that is let through waits for nobody and finds its key unused.
LEMMA InsertingKeepsInv ==
  ASSUME ServiceInv, TypeInv', NEW r \in Requests, OthersKeep(r), InsertBooking(r)
  PROVE  ServiceInv'
<1>1. HandlersOK /\ RequestShape(r) /\ UNCHANGED tables /\ pc[r] = "insert"
  BY ShapesParts DEF ServiceInv, TypeInv, InsertBooking
<1>2. CASE BookedUnder(req[r].key) # {}
  <2>1. pc'[r] = "reread"
    BY <1>1, <1>2 DEF InsertBooking, HandlersOK, Goto
  <2>2. QED
    BY <1>1, <2>1, LeavingKeepsInv
<1>3. CASE BookedUnder(req[r].key) = {}
  <2>1. PICK b \in Bookings :
          /\ ~ Exists(b)
          /\ \A other \in Uncommitted : req[other].booking # b
          /\ req' = [req EXCEPT ![r] = About(req[r], b)]
          /\ pc' = [pc EXCEPT ![r] = "commit"]
          /\ UNCHANGED locks /\ UNCHANGED seen
    BY <1>3 DEF InsertBooking, Goto
  <2>2. /\ pc'[r] = "commit" /\ req'[r].op = "create" /\ req'[r].booking = b
        /\ req'[r].key = req[r].key /\ req'[r].quote = req[r].quote
    BY <1>1, <2>1 DEF HandlersOK, RequestShape, About, Body
  <2>3. \A s \in Requests \ {r} : QuoteGuarded(s)' /\ BookingGuarded(s)'
    BY <1>1, ChecksSurvive DEF tables
  <2>4. QuoteGuarded(r)' /\ BookingGuarded(r)'
    <3>1. QuoteGuarded(r) /\ req[r].op = "create"
      BY <1>1 DEF ServiceInv, ChecksHoldUntilCommit, RequestShape
    <3>2. QED
      BY <1>1, <2>1, <2>2, <3>1 DEF QuoteGuarded, BookingGuarded, tables, locks
  <2>5. Uncommitted' = Uncommitted \cup {r} /\ r \notin Uncommitted
    BY <1>1, <2>2 DEF Uncommitted, OthersKeep
  <2>6. \A s \in Uncommitted : /\ req'[s] = req[s]
                               /\ req[s].key # req[r].key /\ req[s].booking # b
    BY <2>1, <2>5 DEF InsertBooking, Uncommitted, OthersKeep
  <2>7. \A s \in Requests : KeyGuarded(s)'
    <3> SUFFICES ASSUME NEW s \in Uncommitted' PROVE KeyGuarded(s)'
      BY DEF KeyGuarded
    <3>1. \A k : BookedUnder(k)' = BookedUnder(k)
      BY <1>1 DEF BookedUnder, Exists, tables
    <3>2. \A c : Exists(c)' <=> Exists(c)
      BY <1>1 DEF Exists, tables
    <3>3. CASE s = r
      BY <1>3, <2>1, <2>2, <2>5, <2>6, <3>1, <3>2, <3>3 DEF KeyGuarded
    <3>4. CASE s # r
      <4>1. s \in Uncommitted /\ KeyGuarded(s)
        BY <2>5, <3>4 DEF ServiceInv, ChecksHoldUntilCommit, Uncommitted
      <4>2. QED
        BY <2>2, <2>5, <2>6, <3>1, <3>2, <4>1 DEF KeyGuarded
    <3>5. QED
      BY <3>3, <3>4
  <2>8. AbsentRowsAreEmpty'
    BY <1>1 DEF ServiceInv, AbsentRowsAreEmpty, tables, Exists
  <2>9. QED
    BY <2>3, <2>4, <2>7, <2>8 DEF ServiceInv, ChecksHoldUntilCommit
<1>4. QED
  BY <1>2, <1>3

-------------------------------------------------------------------------------

\* A hold commits on the quote it locked, still in the status it read.
LEMMA CommitHoldImplements ==
  ASSUME ServiceInv, NEW r \in Requests, CommitHold(r)
  PROVE  req[r].quote \in Quotes /\ Ledger!HoldQuote(req[r].quote)
<1>1. QuoteGuarded(r) /\ RequestShape(r)
  BY DEF ServiceInv, TypeInv, ChecksHoldUntilCommit
<1>2. QED
  BY <1>1, SameTables DEF CommitHold, QuoteGuarded, RequestShape, Ledger!HoldQuote

\* A booking commits with its quote still HELD, its key still unused and its
\* id still free, although each was checked in an earlier statement.
LEMMA CommitBookingImplements ==
  ASSUME ServiceInv, NEW r \in Requests, CommitBooking(r)
  PROVE  /\ req[r].booking \in Bookings /\ req[r].quote \in Quotes /\ req[r].key \in Keys
         /\ Ledger!Book(req[r].booking, req[r].quote, req[r].key)
<1>1. /\ QuoteGuarded(r) /\ KeyGuarded(r) /\ RequestShape(r)
      /\ pc[r] = "commit" /\ req[r].op = "create" /\ r \in Uncommitted
  BY DEF ServiceInv, TypeInv, ChecksHoldUntilCommit, CommitBooking, Uncommitted
<1>2. req[r].booking \in Bookings /\ req[r].quote \in Quotes /\ req[r].key \in Keys
  BY <1>1 DEF RequestShape
<1>3. quotes[req[r].quote] = "HELD"
  BY <1>1 DEF QuoteGuarded
<1>4. \A c \in Bookings : bookings[c].key # req[r].key
  <2> TAKE c \in Bookings
  <2>1. CASE Exists(c)
    BY <2>1, <1>1 DEF KeyGuarded, BookedUnder
  <2>2. CASE ~ Exists(c)
    BY <2>2, <1>2, ServiceConstants DEF ServiceInv, AbsentRowsAreEmpty, Ledger!NoRow
  <2>3. QED
    BY <2>1, <2>2
<1>5. ~ Exists(req[r].booking) /\ log[req[r].booking] = <<>>
  BY <1>1, <1>2 DEF KeyGuarded, ServiceInv, AbsentRowsAreEmpty
<1>6. log' = [log EXCEPT ![req[r].booking] = Ledger!BirthEvents]
  <2>1. Ledger!BirthEvents \in Seq(Ledger!Event)
    BY RowTypes
  <2>2. <<>> \o Ledger!BirthEvents = Ledger!BirthEvents
    BY <2>1
  <2>3. QED
    BY <1>5, <2>2 DEF CommitBooking
<1>7. QED
  BY <1>2, <1>3, <1>4, <1>5, <1>6, SameTables DEF CommitBooking, Ledger!Book, Ledger!Exists, Exists

\* A transition commits from the status the booking still has.
LEMMA CommitTransitionImplements ==
  ASSUME ServiceInv, NEW r \in Requests, CommitTransition(r)
  PROVE  /\ req[r].booking \in Bookings
         /\ Target(req[r].op) \in {"CONFIRMED", "CANCELLED"}
         /\ Ledger!Transition(req[r].booking, Target(req[r].op))
<1>1. BookingGuarded(r) /\ RequestShape(r) /\ pc[r] = "commit" /\ req[r].op \in {"confirm", "cancel"}
  BY DEF ServiceInv, TypeInv, ChecksHoldUntilCommit, CommitTransition
<1>2. /\ req[r].booking \in Bookings
      /\ bookings[req[r].booking].status = seen[r] /\ seen[r] \in BookingStatus
      /\ CanTransition(seen[r], Target(req[r].op))
  BY <1>1 DEF RequestShape, BookingGuarded
<1>3. Ledger!Exists(req[r].booking)
  BY <1>2, SameTables, StatusFacts DEF Ledger!Exists
<1>4. QED
  BY <1>2, <1>3, TargetType, SameTables DEF CommitTransition, Ledger!Transition

\* None of the three commits disturbs what other handlers rely on.
LEMMA CommitKeepsInv ==
  ASSUME ServiceInv, TypeInv', NEW r \in Requests, OthersKeep(r),
         CommitHold(r) \/ CommitBooking(r) \/ CommitTransition(r)
  PROVE  ServiceInv'
<1>1. /\ HandlersOK /\ Ledger!TypeOK /\ RequestShape(r)
      /\ QuoteGuarded(r) /\ BookingGuarded(r) /\ KeyGuarded(r) /\ pc[r] = "commit"
  BY ShapesParts DEF ServiceInv, TypeInv, ChecksHoldUntilCommit, CommitHold, CommitBooking,
     CommitTransition
<1>2. pc'[r] = "reply"
  BY <1>1 DEF CommitHold, CommitBooking, CommitTransition, Answer, Goto, HandlersOK
<1>3. QuoteGuarded(r)' /\ BookingGuarded(r)' /\ r \notin Uncommitted'
  BY <1>2, NotInTransaction
<1>4. \A q \in Quotes : quotes'[q] = quotes[q] \/ quoteLock[q] = r
  BY <1>1 DEF CommitHold, CommitBooking, CommitTransition, QuoteGuarded, Ledger!TypeOK
<1>5. CASE CommitHold(r)
  <2>1. UNCHANGED <<bookings, log>>
    BY <1>5 DEF CommitHold
  <2>2. AbsentRowsAreEmpty' /\ \A s \in Requests : KeyGuarded(s)'
    BY <2>1, <1>3, KeysSurvive DEF ServiceInv, AbsentRowsAreEmpty, Exists
  <2>3. QED
    BY <2>1, <2>2, <1>3, <1>4, ChecksSurvive DEF ServiceInv, ChecksHoldUntilCommit
<1>6. CASE CommitBooking(r)
  <2> DEFINE b == req[r].booking
  <2>1. /\ b \in Bookings /\ r \in Uncommitted /\ ~ Exists(b)
        /\ bookings' = [bookings EXCEPT ![b] = Ledger!BookedRow(req[r].quote, req[r].key)]
        /\ log' = [log EXCEPT ![b] = Ledger!BirthEvents]
    BY <1>1, <1>6, CommitBookingImplements
       DEF CommitBooking, Uncommitted, KeyGuarded, Ledger!Book
  <2>2. /\ bookings'[b] = Ledger!BookedRow(req[r].quote, req[r].key)
        /\ bookings'[b].key = req[r].key /\ bookings'[b].status = "HELD"
    BY <1>1, <2>1 DEF Ledger!BookedRow, Ledger!TypeOK
  <2>3. \A c \in Bookings \ {b} : bookings'[c] = bookings[c] /\ log'[c] = log[c]
    BY <1>1, <2>1 DEF Ledger!TypeOK
  <2>4. AbsentRowsAreEmpty'
    BY <2>2, <2>3, StatusFacts DEF ServiceInv, AbsentRowsAreEmpty, Exists, None
  <2>5. \A s \in Requests : KeyGuarded(s)'
    BY <2>1, <2>2, <2>3, <1>3, KeysSurvive DEF Exists
  <2>6. \A c \in Bookings : bookings'[c] = bookings[c] \/ bookingLock[c] = r \/ ~ Exists(c)
    BY <2>1, <2>3
  <2>7. QED
    BY <2>4, <2>5, <2>6, <1>3, <1>4, ChecksSurvive DEF ServiceInv, ChecksHoldUntilCommit
<1>7. CASE CommitTransition(r)
  <2> DEFINE b == req[r].booking
             to == Target(req[r].op)
  <2>1. /\ b \in Bookings /\ bookingLock[b] = r /\ Exists(b)
        /\ bookings' = [bookings EXCEPT ![b] = Ledger!Moved(bookings[b], to)]
        /\ log' = [log EXCEPT ![b] = Append(log[b], [from |-> seen[r], to |-> to])]
    BY <1>1, <1>7, StatusFacts DEF CommitTransition, BookingGuarded, RequestShape, Exists
  <2>2. bookings'[b].key = bookings[b].key /\ bookings'[b].status = to /\ to # None
    BY <1>1, <2>1, TargetType DEF Ledger!Moved, Ledger!TypeOK, None
  <2>3. \A c \in Bookings \ {b} : bookings'[c] = bookings[c] /\ log'[c] = log[c]
    BY <1>1, <2>1 DEF Ledger!TypeOK
  <2>4. AbsentRowsAreEmpty'
    BY <2>2, <2>3 DEF ServiceInv, AbsentRowsAreEmpty, Exists
  <2>5. \A s \in Requests : KeyGuarded(s)'
    BY <2>1, <2>2, <2>3, <1>3, KeysSurvive DEF Exists
  <2>6. \A c \in Bookings : bookings'[c] = bookings[c] \/ bookingLock[c] = r \/ ~ Exists(c)
    BY <2>1, <2>3
  <2>7. QED
    BY <2>4, <2>5, <2>6, <1>3, <1>4, ChecksSurvive DEF ServiceInv, ChecksHoldUntilCommit
<1>8. QED
  BY <1>5, <1>6, <1>7

LEMMA ServiceInvInit == Init => ServiceInv
<1> SUFFICES ASSUME Init PROVE ServiceInv
  OBVIOUS
<1>1. TypeInv
  BY TypeInvInit
<1>2. AbsentRowsAreEmpty
  BY DEF Init, Ledger!Init, AbsentRowsAreEmpty
<1>3. ChecksHoldUntilCommit
  BY DEF Init, ChecksHoldUntilCommit, QuoteGuarded, BookingGuarded, KeyGuarded, Uncommitted
<1>4. QED
  BY <1>1, <1>2, <1>3 DEF ServiceInv

LEMMA ServiceInvStep == ServiceInv /\ [Next]_vars => ServiceInv'
<1> SUFFICES ASSUME ServiceInv, [Next]_vars PROVE ServiceInv'
  OBVIOUS
<1>1. TypeInv'
  BY TypeInvStep DEF ServiceInv
<1>2. ASSUME NEW r \in Requests, Receive(r) \/ Fail(r) \/ Step(r) PROVE ServiceInv'
  <2>1. OthersKeep(r) /\ HandlersOK
    BY <1>2, StepKeepsOthers, ShapesParts DEF ServiceInv, TypeInv
  <2>2. CASE Receive(r)
    <3>1. PICK body \in Request : pc' = [pc EXCEPT ![r] = Entry(body.op)]
      BY <2>2 DEF Receive, Goto
    <3>2. pc'[r] \notin {"insert", "commit"}
      BY <2>1, <3>1, ReceiveShape DEF HandlersOK
    <3>3. QED
      BY <1>1, <2>1, <2>2, <3>2, LeavingKeepsInv DEF Receive
  <2>3. CASE Fail(r) \/ Reply(r) \/ Begin(r) \/ ReadPrior(r) \/ Reread(r) \/ ReadRow(r)
               \/ ReadEvents(r)
    <3>1. UNCHANGED tables
      BY <2>3 DEF Fail, Reply, Begin, ReadPrior, Reread, ReadRow, ReadEvents
    <3>2. pc'[r] \notin {"insert", "commit"}
      BY <2>1, <2>3 DEF Fail, Reply, Begin, ReadPrior, Reread, ReadRow, ReadEvents, Goto, Answer,
                        HandlersOK
    <3>3. QED
      BY <1>1, <2>1, <3>1, <3>2, LeavingKeepsInv
  <2>4. CASE HoldQuote(r) \/ LockQuote(r) \/ LockBooking(r)
    BY <1>1, <2>1, <2>4, LockingKeepsInv
  <2>5. CASE InsertBooking(r)
    BY <1>1, <2>1, <2>5, InsertingKeepsInv
  <2>6. CASE CommitHold(r) \/ CommitBooking(r) \/ CommitTransition(r)
    BY <1>1, <2>1, <2>6, CommitKeepsInv
  <2>7. QED
    BY <1>2, <2>2, <2>3, <2>4, <2>5, <2>6 DEF Step
<1>3. CASE CreateQuote
  <2>1. PICK q \in Quotes : Ledger!CreateQuote(q)
    BY <1>3 DEF CreateQuote
  <2>2. /\ quotes[q] = None /\ quotes' = [quotes EXCEPT ![q] = "ACTIVE"]
        /\ UNCHANGED <<bookings, log, locks, pc, req, seen>>
    BY <1>3, <2>1, SameTables DEF CreateQuote, Ledger!CreateQuote
  <2>3. ASSUME NEW s \in Requests PROVE QuoteGuarded(s)'
    <3>1. QuoteGuarded(s) /\ RequestShape(s) /\ quotes \in [Quotes -> Ledger!QuoteStatus \cup {Ledger!None}]
      BY DEF ServiceInv, TypeInv, Shapes, Ledger!TypeOK, ChecksHoldUntilCommit
    <3>2. QED
      BY <2>2, <3>1, StatusFacts DEF QuoteGuarded, RequestShape, locks, None
  <2>4. \A s \in Requests : BookingGuarded(s)' /\ KeyGuarded(s)'
    BY <2>2 DEF ServiceInv, ChecksHoldUntilCommit, BookingGuarded, KeyGuarded, Uncommitted,
                BookedUnder, Exists, locks
  <2>5. AbsentRowsAreEmpty'
    BY <2>2 DEF ServiceInv, AbsentRowsAreEmpty, Exists
  <2>6. QED
    BY <1>1, <2>3, <2>4, <2>5 DEF ServiceInv, ChecksHoldUntilCommit
<1>4. CASE UNCHANGED vars
  BY <1>1, <1>4 DEF vars, tables, locks, ServiceInv, ChecksHoldUntilCommit, QuoteGuarded,
     BookingGuarded, KeyGuarded, Uncommitted, BookedUnder, Exists, AbsentRowsAreEmpty
<1>5. QED
  BY <1>2, <1>3, <1>4 DEF Next

\* What a handler checked under a lock is still true when it commits, whatever
\* the other requests do in between.
THEOREM ChecksHold == Spec => []ChecksHoldUntilCommit
<1>1. ServiceInv => ChecksHoldUntilCommit
  BY DEF ServiceInv
<1>2. QED
  BY <1>1, ServiceInvInit, ServiceInvStep, PTL DEF Spec

LEMMA StepImplements == ServiceInv /\ [Next]_vars => [Ledger!Next]_(Ledger!vars)
<1> SUFFICES ASSUME ServiceInv, [Next]_vars PROVE Ledger!Next \/ UNCHANGED tables
  BY DEF Ledger!vars, tables
<1>1. ASSUME NEW r \in Requests, Receive(r) \/ Fail(r) \/ Step(r)
      PROVE  Ledger!Next \/ UNCHANGED tables
  <2>1. CASE CommitHold(r)
    BY <2>1, CommitHoldImplements DEF Ledger!Next
  <2>2. CASE CommitBooking(r)
    BY <2>2, CommitBookingImplements DEF Ledger!Next
  <2>3. CASE CommitTransition(r)
    BY <2>3, CommitTransitionImplements DEF Ledger!Next
  <2>4. CASE Receive(r) \/ Fail(r) \/ Begin(r) \/ HoldQuote(r) \/ ReadPrior(r) \/ LockQuote(r)
               \/ InsertBooking(r) \/ Reread(r) \/ LockBooking(r) \/ ReadRow(r)
               \/ ReadEvents(r) \/ Reply(r)
    BY <2>4 DEF Receive, Fail, Begin, HoldQuote, ReadPrior, LockQuote, InsertBooking, Reread,
                LockBooking, ReadRow, ReadEvents, Reply
  <2>5. QED
    BY <1>1, <2>1, <2>2, <2>3, <2>4 DEF Step
<1>2. CASE CreateQuote
  BY <1>2 DEF CreateQuote, Ledger!Next
<1>3. CASE UNCHANGED vars
  BY <1>3 DEF vars
<1>4. QED
  BY <1>1, <1>2, <1>3 DEF Next

\* The interleaved handlers implement the ledger of indivisible operations.
THEOREM ServiceImplementsLedger == Spec => ImplementsLedger
<1>1. Init => Ledger!Init
  BY DEF Init
<1>2. QED
  BY <1>1, ServiceInvInit, ServiceInvStep, StepImplements, PTL
     DEF Spec, ImplementsLedger, Ledger!Spec

-------------------------------------------------------------------------------
(* What is proved of the ledger therefore holds of the service.            *)

LedgerFacts == INSTANCE BookingLedgerProofs

LEMMA SameOperators ==
  /\ Ledger!BookingStatus = LedgerFacts!BookingStatus
  /\ Ledger!QuoteStatus = LedgerFacts!QuoteStatus
  /\ Ledger!None = LedgerFacts!None /\ Ledger!InitialStatus = LedgerFacts!InitialStatus
  /\ Ledger!NoRow = LedgerFacts!NoRow /\ Ledger!Row = LedgerFacts!Row
  /\ Ledger!Event = LedgerFacts!Event /\ Ledger!BirthEvents = LedgerFacts!BirthEvents
  /\ \A x, y : Ledger!CanTransition(x, y) <=> LedgerFacts!CanTransition(x, y)
  /\ \A x, y : Ledger!CanMoveQuote(x, y) <=> LedgerFacts!CanMoveQuote(x, y)
  /\ \A b : Ledger!Exists(b) <=> LedgerFacts!Exists(b)
<1>1. /\ Ledger!BookingStatus = LedgerFacts!BookingStatus
      /\ Ledger!QuoteStatus = LedgerFacts!QuoteStatus
      /\ Ledger!None = LedgerFacts!None /\ Ledger!InitialStatus = LedgerFacts!InitialStatus
  BY DEF Ledger!BookingStatus, LedgerFacts!BookingStatus, Ledger!QuoteStatus,
     LedgerFacts!QuoteStatus, Ledger!None, LedgerFacts!None, Ledger!InitialStatus,
     LedgerFacts!InitialStatus
<1>2. /\ Ledger!NoRow = LedgerFacts!NoRow /\ Ledger!Row = LedgerFacts!Row
      /\ Ledger!Event = LedgerFacts!Event /\ Ledger!BirthEvents = LedgerFacts!BirthEvents
  BY <1>1 DEF Ledger!NoRow, LedgerFacts!NoRow, Ledger!Row, LedgerFacts!Row, Ledger!Event,
     LedgerFacts!Event, Ledger!BirthEvents, LedgerFacts!BirthEvents
<1>3. /\ Ledger!Transitions = LedgerFacts!Transitions
      /\ Ledger!QuoteTransitions = LedgerFacts!QuoteTransitions
  BY <1>1, Zenon DEF Ledger!Transitions, LedgerFacts!Transitions, Ledger!QuoteTransitions,
     LedgerFacts!QuoteTransitions
<1>4. /\ \A x, y : Ledger!CanTransition(x, y) <=> LedgerFacts!CanTransition(x, y)
      /\ \A x, y : Ledger!CanMoveQuote(x, y) <=> LedgerFacts!CanMoveQuote(x, y)
      /\ \A b : Ledger!Exists(b) <=> LedgerFacts!Exists(b)
  BY <1>1, <1>3 DEF Ledger!CanTransition, LedgerFacts!CanTransition, Ledger!CanMoveQuote,
     LedgerFacts!CanMoveQuote, Ledger!Exists, LedgerFacts!Exists
<1>5. QED
  BY <1>1, <1>2, <1>4

\* The two instances of the ledger are one specification.
LEMMA SameLedger ==
  /\ Ledger!Init => LedgerFacts!Init
  /\ [Ledger!Next]_(Ledger!vars) => [LedgerFacts!Next]_(LedgerFacts!vars)
  /\ Ledger!TypeOK => LedgerFacts!TypeOK
  /\ LedgerFacts!QuoteSoldOnce => QuoteSoldOnce
<1>1. Ledger!Init => LedgerFacts!Init
  BY SameOperators DEF Ledger!Init, LedgerFacts!Init
<1>2. Ledger!TypeOK => LedgerFacts!TypeOK
  BY SameOperators DEF Ledger!TypeOK, LedgerFacts!TypeOK
<1>3. LedgerFacts!QuoteSoldOnce => QuoteSoldOnce
  BY SameOperators DEF QuoteSoldOnce, Ledger!QuoteSoldOnce, LedgerFacts!QuoteSoldOnce
<1>4. [Ledger!Next]_(Ledger!vars) => [LedgerFacts!Next]_(LedgerFacts!vars)
  <2>1. \A q : Ledger!CreateQuote(q) => LedgerFacts!CreateQuote(q)
    BY SameOperators DEF Ledger!CreateQuote, LedgerFacts!CreateQuote
  <2>2. \A q : Ledger!HoldQuote(q) => LedgerFacts!HoldQuote(q)
    BY SameOperators DEF Ledger!HoldQuote, LedgerFacts!HoldQuote
  <2>3. \A b, q, k : Ledger!Book(b, q, k) => LedgerFacts!Book(b, q, k)
    BY SameOperators DEF Ledger!Book, LedgerFacts!Book, Ledger!BookedRow, LedgerFacts!BookedRow
  <2>4. \A b, to : Ledger!Transition(b, to) => LedgerFacts!Transition(b, to)
    BY SameOperators DEF Ledger!Transition, LedgerFacts!Transition, Ledger!Moved,
       LedgerFacts!Moved
  <2>5. QED
    BY <2>1, <2>2, <2>3, <2>4 DEF Ledger!Next, LedgerFacts!Next, Ledger!vars, LedgerFacts!vars
<1>5. QED
  BY <1>1, <1>2, <1>3, <1>4

\* Whatever the interleaving of requests, no quote is sold twice: the ledger's
\* invariant carries over step by step.
THEOREM ServiceSellsOnce == Spec => []QuoteSoldOnce
<1>1. Init => LedgerFacts!TablesAgree
  BY LedgerFacts!TablesAgreeInit, ServiceConstants, SameLedger DEF Init
<1>2. ServiceInv => LedgerFacts!TypeOK
  BY SameLedger DEF ServiceInv, TypeInv, Shapes
<1>3. ServiceInv /\ LedgerFacts!TypeOK' /\ LedgerFacts!TablesAgree /\ [Next]_vars
        => LedgerFacts!TablesAgree'
  BY StepImplements, SameLedger, LedgerFacts!TablesAgreeStep, ServiceConstants
<1>4. LedgerFacts!TablesAgree => QuoteSoldOnce
  BY SameLedger DEF LedgerFacts!TablesAgree
<1>5. QED
  BY <1>1, <1>2, <1>3, <1>4, ServiceInvInit, ServiceInvStep, PTL DEF Spec

-------------------------------------------------------------------------------
(* The answers: first what no step takes back.                             *)

RowsStay ==
  \A b \in Bookings : Exists(b) =>
    /\ Exists(b)'
    /\ bookings'[b].key = bookings[b].key /\ bookings'[b].quote = bookings[b].quote

EventsStay ==
  \A b \in Bookings : \A i \in 1 .. Len(log[b]) :
    i \in 1 .. Len(log'[b]) /\ log'[b][i] = log[b][i]

QuotesStay ==
  \A q \in Quotes :
    /\ quotes[q] = "CONSUMED" => quotes'[q] = "CONSUMED"
    /\ quotes[q] = "HELD" => quotes'[q] \in {"HELD", "CONSUMED"}

\* A spent quote is not sold again.
SpentStaysSold ==
  \A q \in Quotes, b \in Bookings :
    quotes[q] = "CONSUMED" /\ bookings'[b].quote = q =>
      bookings[b].quote = q /\ bookings'[b].key = bookings[b].key

NothingIsTakenBack == RowsStay /\ EventsStay /\ QuotesStay /\ SpentStaysSold

LEMMA LedgerGoesOn ==
  ASSUME ServiceInv, Ledger!Next \/ UNCHANGED tables
  PROVE  NothingIsTakenBack
<1> USE DEF NothingIsTakenBack, RowsStay, EventsStay, QuotesStay, SpentStaysSold
<1>1. /\ quotes \in [Quotes -> QuoteStatus \cup {None}] /\ bookings \in [Bookings -> Ledger!Row]
      /\ log \in [Bookings -> Seq(Ledger!Event)]
      /\ \A b \in Bookings : ~ Exists(b) => bookings[b] = Ledger!NoRow /\ log[b] = <<>>
  BY SameTables DEF ServiceInv, TypeInv, Shapes, Ledger!TypeOK, AbsentRowsAreEmpty
<1>2. CASE UNCHANGED tables
  BY <1>1, <1>2 DEF tables, Exists
<1>3. CASE \E q \in Quotes : Ledger!CreateQuote(q)
  <2>1. PICK q \in Quotes :
          quotes[q] = None /\ quotes' = [quotes EXCEPT ![q] = "ACTIVE"] /\ bookings' = bookings /\ log' = log
    BY <1>3, SameTables DEF Ledger!CreateQuote
  <2>2. QED
    BY <1>1, <2>1 DEF Exists, None
<1>4. CASE \E q \in Quotes : Ledger!HoldQuote(q)
  <2>1. PICK q \in Quotes :
          /\ quotes[q] \in QuoteStatus /\ CanMoveQuote(quotes[q], "HELD")
          /\ quotes' = [quotes EXCEPT ![q] = "HELD"] /\ bookings' = bookings /\ log' = log
    BY <1>4, SameTables DEF Ledger!HoldQuote
  <2>2. quotes[q] # "CONSUMED"
    BY <2>1 DEF CanMoveQuote, QuoteTransitions, QuoteStatus
  <2>3. QED
    BY <1>1, <2>1, <2>2 DEF Exists
<1>5. CASE \E b \in Bookings, q \in Quotes, k \in Keys : Ledger!Book(b, q, k)
  <2>1. PICK b \in Bookings, q \in Quotes, k \in Keys :
          /\ ~ Exists(b) /\ quotes[q] = "HELD" /\ quotes' = [quotes EXCEPT ![q] = "CONSUMED"]
          /\ bookings' = [bookings EXCEPT ![b] = Ledger!BookedRow(q, k)]
          /\ log' = [log EXCEPT ![b] = Ledger!BirthEvents]
    BY <1>5, SameTables DEF Ledger!Book, Ledger!Exists, Exists
  <2>2. bookings'[b].quote = q /\ log[b] = <<>>
    BY <1>1, <2>1 DEF Ledger!BookedRow
  <2>3. \A c \in Bookings : c # b => bookings'[c] = bookings[c] /\ log'[c] = log[c]
    BY <1>1, <2>1
  <2>4. RowsStay
    BY <2>1, <2>3 DEF Exists
  <2>5. EventsStay
    BY <2>2, <2>3
  <2>6. QuotesStay
    BY <1>1, <2>1
  <2>7. SpentStaysSold
    BY <2>1, <2>2, <2>3
  <2>8. QED
    BY <2>4, <2>5, <2>6, <2>7
<1>6. CASE \E b \in Bookings, to \in {"CONFIRMED", "CANCELLED"} : Ledger!Transition(b, to)
  <2>1. PICK b \in Bookings, to \in {"CONFIRMED", "CANCELLED"} :
          /\ bookings' = [bookings EXCEPT ![b] = Ledger!Moved(bookings[b], to)]
          /\ log' = [log EXCEPT ![b] = Append(log[b], [from |-> bookings[b].status, to |-> to])]
          /\ quotes' = quotes
    BY <1>6 DEF Ledger!Transition
  <2>2. /\ bookings'[b].quote = bookings[b].quote /\ bookings'[b].key = bookings[b].key
        /\ bookings'[b].status # None
    BY <1>1, <2>1 DEF Ledger!Moved, None
  <2>3. \A c \in Bookings : c # b => bookings'[c] = bookings[c] /\ log'[c] = log[c]
    BY <1>1, <2>1
  <2>4. RowsStay
    BY <2>2, <2>3 DEF Exists
  <2>5. EventsStay
    <3>1. log[b] \in Seq(Ledger!Event) /\ log'[b] = Append(log[b], [from |-> bookings[b].status, to |-> to])
      BY <1>1, <2>1
    <3>2. \A i \in 1 .. Len(log[b]) : i \in 1 .. Len(log'[b]) /\ log'[b][i] = log[b][i]
      BY <3>1
    <3>3. QED
      BY <1>1, <2>3, <3>2
  <2>6. QuotesStay
    BY <2>1
  <2>7. SpentStaysSold
    BY <2>2, <2>3
  <2>8. QED
    BY <2>4, <2>5, <2>6, <2>7
<1>7. QED
  BY <1>2, <1>3, <1>4, <1>5, <1>6 DEF Ledger!Next

LEMMA StepsTakeNothingBack == ServiceInv /\ [Next]_vars => NothingIsTakenBack
<1> SUFFICES ASSUME ServiceInv, [Next]_vars PROVE NothingIsTakenBack
  OBVIOUS
<1>1. Ledger!Next \/ UNCHANGED tables
  BY StepImplements DEF Ledger!vars, tables
<1>2. QED
  BY <1>1, LedgerGoesOn

-------------------------------------------------------------------------------
(* The answers.                                                            *)

\* A create that found its quote spent: it still is.
SeenIsSpent(r) ==
  (req[r].op = "create" /\ seen[r] = "CONSUMED") => quotes[req[r].quote] = "CONSUMED"

\* The conflict it is answered with is not its own doing.
ConflictIsAnothers(r) ==
  (pc[r] = "reply" /\ req[r].op = "create" /\ out[r] = "conflict" /\ seen[r] = "CONSUMED") =>
    \A b \in Bookings : bookings[b].quote = req[r].quote => bookings[b].key # req[r].key

\* A GET that has read the row will find the event of its status.
SeenHasItsEvent(r) ==
  pc[r] = "readEvents" =>
    \E i \in 1 .. Len(log[req[r].booking]) : log[req[r].booking][i].to = seen[r]

PageHasTheEvent(r) ==
  (pc[r] = "reply" /\ req[r].op = "get" /\ out[r] = "ok") =>
    \E i \in 1 .. Len(page[r]) : page[r][i].to = seen[r]

\* What a 2xx says has been done.
CreatedIsThere(r) ==
  (pc[r] = "reply" /\ out[r] \in {"created", "replayed"}) =>
    /\ req[r].booking \in Bookings /\ Exists(req[r].booking)
    /\ bookings[req[r].booking].key = req[r].key

MovedIsLogged(r) ==
  (pc[r] = "reply" /\ out[r] = "ok" /\ req[r].op \in {"confirm", "cancel"}) =>
    \E i \in 1 .. Len(log[req[r].booking]) :
      /\ log[req[r].booking][i].from = seen[r]
      /\ log[req[r].booking][i].to = Target(req[r].op)

HeldIsHeld(r) ==
  (pc[r] = "reply" /\ out[r] = "ok" /\ req[r].op = "hold") =>
    quotes[req[r].quote] \in {"HELD", "CONSUMED"}

AnswerTrue(r) ==
  /\ SeenIsSpent(r) /\ ConflictIsAnothers(r) /\ SeenHasItsEvent(r) /\ PageHasTheEvent(r)
  /\ CreatedIsThere(r) /\ MovedIsLogged(r) /\ HeldIsHeld(r)
  /\ pc[r] = "idle" => seen[r] = None

\* The inductive invariant: every handler, as far as it has come, has true
\* things to say.
AnswersInv == \A r \in Requests : AnswerTrue(r)

\* What the log of the ledger explains (LogIsTheHistory): a status has an event.
StatusHasAnEvent ==
  \A b \in Bookings : Exists(b) =>
    \E i \in 1 .. Len(log[b]) : log[b][i].to = bookings[b].status

\* A handler that waits while others commit still has true things to say.
LEMMA AnswerSurvives ==
  ASSUME ServiceInv, NothingIsTakenBack, NEW s \in Requests, AnswerTrue(s),
         pc'[s] = pc[s], req'[s] = req[s], seen'[s] = seen[s], page'[s] = page[s], out'[s] = out[s]
  PROVE  AnswerTrue(s)'
<1>1. RequestShape(s)
  BY DEF ServiceInv, TypeInv
<1>2. /\ SeenIsSpent(s)' /\ HeldIsHeld(s)'
  BY <1>1 DEF AnswerTrue, SeenIsSpent, HeldIsHeld, RequestShape, NothingIsTakenBack, QuotesStay
<1>3. ConflictIsAnothers(s)'
  <2> SUFFICES ASSUME pc[s] = "reply", req[s].op = "create", out[s] = "conflict", seen[s] = "CONSUMED",
                      NEW b \in Bookings, bookings'[b].quote = req[s].quote
               PROVE  bookings'[b].key # req[s].key
    BY DEF ConflictIsAnothers
  <2>1. quotes[req[s].quote] = "CONSUMED" /\ req[s].quote \in Quotes
    BY <1>1 DEF AnswerTrue, SeenIsSpent, RequestShape
  <2>2. bookings[b].quote = req[s].quote /\ bookings'[b].key = bookings[b].key
    BY <2>1 DEF NothingIsTakenBack, SpentStaysSold
  <2>3. QED
    BY <2>2 DEF AnswerTrue, ConflictIsAnothers
<1>4. SeenHasItsEvent(s)'
  <2> SUFFICES ASSUME pc[s] = "readEvents"
               PROVE  \E i \in 1 .. Len(log'[req[s].booking]) : log'[req[s].booking][i].to = seen[s]
    BY DEF SeenHasItsEvent
  <2>1. PICK b \in Bookings : b = req[s].booking
    BY <1>1 DEF RequestShape
  <2>2. PICK i \in 1 .. Len(log[b]) : log[b][i].to = seen[s]
    BY <2>1 DEF AnswerTrue, SeenHasItsEvent
  <2>3. i \in 1 .. Len(log'[b]) /\ log'[b][i] = log[b][i]
    BY DEF NothingIsTakenBack, EventsStay
  <2>4. QED
    BY <2>1, <2>2, <2>3
<1>5. PageHasTheEvent(s)'
  BY DEF AnswerTrue, PageHasTheEvent
<1>6. CreatedIsThere(s)'
  BY DEF AnswerTrue, CreatedIsThere, NothingIsTakenBack, RowsStay
<1>7. MovedIsLogged(s)'
  <2> SUFFICES ASSUME pc[s] = "reply", out[s] = "ok", req[s].op \in {"confirm", "cancel"}
               PROVE  \E i \in 1 .. Len(log'[req[s].booking]) :
                        /\ log'[req[s].booking][i].from = seen[s]
                        /\ log'[req[s].booking][i].to = Target(req[s].op)
    BY DEF MovedIsLogged, Target
  <2>1. PICK b \in Bookings : b = req[s].booking
    BY <1>1 DEF RequestShape
  <2>2. PICK i \in 1 .. Len(log[b]) : log[b][i].from = seen[s] /\ log[b][i].to = Target(req[s].op)
    BY <2>1 DEF AnswerTrue, MovedIsLogged
  <2>3. i \in 1 .. Len(log'[b]) /\ log'[b][i] = log[b][i]
    BY DEF NothingIsTakenBack, EventsStay
  <2>4. QED
    BY <2>1, <2>2, <2>3
<1>8. QED
  BY <1>2, <1>3, <1>4, <1>5, <1>6, <1>7 DEF AnswerTrue

LEMMA OthersKeepAnswers ==
  ASSUME HandlersOK, NEW r \in Requests, Receive(r) \/ Fail(r) \/ Step(r)
  PROVE  \A s \in Requests \ {r} : page'[s] = page[s] /\ out'[s] = out[s]
<1> USE DEF HandlersOK, Goto, Answer
<1>1. CASE Receive(r) \/ Fail(r) \/ Begin(r) \/ Reply(r)
  BY <1>1 DEF Receive, Fail, Begin, Reply
<1>2. CASE HoldQuote(r)
  BY <1>2 DEF HoldQuote
<1>3. CASE CommitHold(r) \/ CommitBooking(r) \/ CommitTransition(r)
  BY <1>3 DEF CommitHold, CommitBooking, CommitTransition
<1>4. CASE ReadPrior(r) \/ Reread(r)
  BY <1>4 DEF ReadPrior, Reread
<1>5. CASE LockQuote(r)
  BY <1>5 DEF LockQuote
<1>6. CASE InsertBooking(r)
  BY <1>6 DEF InsertBooking
<1>7. CASE LockBooking(r)
  BY <1>7 DEF LockBooking
<1>8. CASE ReadRow(r) \/ ReadEvents(r)
  BY <1>8 DEF ReadRow, ReadEvents
<1>9. QED
  BY <1>1, <1>2, <1>3, <1>4, <1>5, <1>6, <1>7, <1>8 DEF Step

\* A handler that has not decided yet, or answers with an error or without a
\* claim, has only what it saw to be true.
LEMMA NoClaim ==
  ASSUME NEW r \in Requests, SeenIsSpent(r)', pc'[r] \notin {"idle", "readEvents"},
         pc'[r] = "reply" => out'[r] \in {"error", "notFound", "illegal"}
                             \/ (out'[r] = "conflict" /\ req'[r].op # "create")
  PROVE  AnswerTrue(r)'
  BY DEF AnswerTrue, ConflictIsAnothers, SeenHasItsEvent, PageHasTheEvent, CreatedIsThere,
     MovedIsLogged, HeldIsHeld

LEMMA ArrivalsAndEnds ==
  ASSUME ServiceInv, AnswersInv, NEW r \in Requests, Receive(r) \/ Fail(r) \/ Begin(r) \/ Reply(r)
  PROVE  AnswerTrue(r)'
<1>1. HandlersOK /\ RequestShape(r) /\ AnswerTrue(r)
  BY ShapesParts DEF ServiceInv, TypeInv, AnswersInv
<1>2. CASE Receive(r)
  <2>1. PICK body \in Request : req' = [req EXCEPT ![r] = body] /\ pc' = [pc EXCEPT ![r] = Entry(body.op)]
    BY <1>2 DEF Receive, Goto
  <2>2. pc'[r] \in {"readPrior", "readRow", "begin"}
    BY <1>1, <2>1, ReceiveShape DEF HandlersOK
  <2>3. seen'[r] = None
    BY <1>1, <1>2 DEF Receive, AnswerTrue
  <2>4. SeenIsSpent(r)'
    BY <2>3 DEF SeenIsSpent, None
  <2>5. QED
    BY <2>2, <2>4, NoClaim
<1>3. CASE Fail(r)
  <2>1. pc'[r] = "reply" /\ out'[r] = "error" /\ UNCHANGED <<quotes, req, seen>>
    BY <1>1, <1>3 DEF Fail, Answer, Goto, HandlersOK, tables
  <2>2. SeenIsSpent(r)'
    BY <1>1, <2>1 DEF AnswerTrue, SeenIsSpent
  <2>3. QED
    BY <2>1, <2>2, NoClaim
<1>4. CASE Begin(r)
  <2>1. pc'[r] \in {"lockQuote", "lockBooking"} /\ UNCHANGED <<quotes, req, seen>>
    BY <1>1, <1>4 DEF Begin, Goto, HandlersOK, tables
  <2>2. SeenIsSpent(r)'
    BY <1>1, <2>1 DEF AnswerTrue, SeenIsSpent
  <2>3. QED
    BY <2>1, <2>2, NoClaim
<1>5. CASE Reply(r)
  <2>1. pc'[r] = "idle" /\ seen'[r] = None
    BY <1>1, <1>5 DEF Reply, Goto, HandlersOK
  <2>2. QED
    BY <2>1 DEF AnswerTrue, SeenIsSpent, ConflictIsAnothers, SeenHasItsEvent, PageHasTheEvent,
       CreatedIsThere, MovedIsLogged, HeldIsHeld, None
<1>6. QED
  BY <1>2, <1>3, <1>4, <1>5

LEMMA HoldsTellTheTruth ==
  ASSUME ServiceInv, NEW r \in Requests, HoldQuote(r) \/ CommitHold(r)
  PROVE  AnswerTrue(r)'
<1>1. HandlersOK /\ RequestShape(r) /\ req[r].op = "hold" /\ req' = req
  BY ShapesParts DEF ServiceInv, TypeInv, HoldQuote, CommitHold
<1>2. SeenIsSpent(r)'
  BY <1>1 DEF SeenIsSpent
<1>3. \/ pc'[r] = "commit"
      \/ pc'[r] = "reply" /\ out'[r] \in {"notFound", "conflict", "error"}
      \/ pc'[r] = "reply" /\ out'[r] = "ok" /\ quotes'[req[r].quote] = "HELD"
  <2>1. CASE HoldQuote(r)
    BY <1>1, <2>1 DEF HoldQuote, Answer, Goto, HandlersOK, tables
  <2>2. CASE CommitHold(r)
    <3>1. quotes'[req[r].quote] = "HELD"
      BY <1>1, <2>2 DEF CommitHold, RequestShape, ServiceInv, TypeInv, Shapes, Ledger!TypeOK
    <3>2. QED
      BY <1>1, <2>2, <3>1 DEF CommitHold, Answer, Goto, HandlersOK
  <2>3. QED
    BY <2>1, <2>2
<1>4. CASE pc'[r] = "commit" \/ (pc'[r] = "reply" /\ out'[r] \in {"notFound", "conflict", "error"})
  BY <1>1, <1>2, <1>4, NoClaim
<1>5. CASE pc'[r] = "reply" /\ out'[r] = "ok" /\ quotes'[req[r].quote] = "HELD"
  BY <1>1, <1>2, <1>5 DEF AnswerTrue, ConflictIsAnothers, SeenHasItsEvent, PageHasTheEvent,
     CreatedIsThere, MovedIsLogged, HeldIsHeld
<1>6. QED
  BY <1>3, <1>4, <1>5

\* A booking found under the key of the request is what the answer names.
LEMMA ReplayTellsTheTruth ==
  ASSUME ServiceInv, AnswersInv, NEW r \in Requests, req[r].op = "create", UNCHANGED <<tables, seen>>,
         NEW b \in BookedUnder(req[r].key), req' = [req EXCEPT ![r] = About(req[r], b)],
         Answer(r, "replayed")
  PROVE  AnswerTrue(r)'
<1>1. HandlersOK /\ RequestShape(r) /\ AnswerTrue(r)
  BY ShapesParts DEF ServiceInv, TypeInv, AnswersInv
<1>2. b \in Bookings /\ Exists(b) /\ bookings[b].key = req[r].key
  BY DEF BookedUnder
<1>3. /\ pc'[r] = "reply" /\ out'[r] = "replayed" /\ UNCHANGED <<quotes, bookings>>
      /\ req'[r].op = "create" /\ req'[r].quote = req[r].quote /\ req'[r].key = req[r].key
      /\ req'[r].booking = b
  BY <1>1 DEF Answer, Goto, HandlersOK, About, Body, tables
<1>4. SeenIsSpent(r)'
  BY <1>1, <1>3 DEF AnswerTrue, SeenIsSpent
<1>5. CreatedIsThere(r)'
  BY <1>2, <1>3 DEF CreatedIsThere, Exists
<1>6. QED
  BY <1>3, <1>4, <1>5 DEF AnswerTrue, ConflictIsAnothers, SeenHasItsEvent, PageHasTheEvent,
     MovedIsLogged, HeldIsHeld

LEMMA CreatesTellTheTruth ==
  ASSUME ServiceInv, AnswersInv, NEW r \in Requests,
         ReadPrior(r) \/ LockQuote(r) \/ InsertBooking(r) \/ CommitBooking(r) \/ Reread(r)
  PROVE  AnswerTrue(r)'
<1>1. /\ HandlersOK /\ RequestShape(r) /\ AnswerTrue(r) /\ req[r].op = "create"
      /\ req[r].quote \in Quotes /\ req[r].key \in Keys
  BY ShapesParts DEF ServiceInv, TypeInv, AnswersInv, RequestShape, ReadPrior, LockQuote,
     InsertBooking, CommitBooking, Reread
<1>2. CASE ReadPrior(r)
  <2>1. CASE Goto(r, "begin") /\ UNCHANGED <<req, out>>
    <3>1. pc'[r] = "begin" /\ UNCHANGED <<quotes, req, seen>>
      BY <1>1, <1>2, <2>1 DEF ReadPrior, Goto, HandlersOK, tables
    <3>2. SeenIsSpent(r)'
      BY <1>1, <3>1 DEF AnswerTrue, SeenIsSpent
    <3>3. QED
      BY <3>1, <3>2, NoClaim
  <2>2. CASE \E b \in BookedUnder(req[r].key) :
               req' = [req EXCEPT ![r] = About(req[r], b)] /\ Answer(r, "replayed")
    BY <1>1, <1>2, <2>2, ReplayTellsTheTruth DEF ReadPrior
  <2>3. QED
    BY <1>2, <2>1, <2>2 DEF ReadPrior
<1>3. CASE LockQuote(r)
  <2>1. /\ quotes' = quotes /\ req' = req
        /\ \/ pc'[r] = "reply" /\ out'[r] = "notFound" /\ seen'[r] = seen[r]
           \/ pc'[r] \in {"reread", "insert"} /\ seen'[r] = quotes[req[r].quote]
    BY <1>1, <1>3 DEF LockQuote, Answer, Goto, HandlersOK, tables
  <2>2. SeenIsSpent(r)'
    BY <1>1, <2>1 DEF AnswerTrue, SeenIsSpent
  <2>3. QED
    BY <2>1, <2>2, NoClaim
<1>4. CASE InsertBooking(r)
  <2>1. /\ quotes' = quotes /\ seen' = seen /\ pc'[r] \in {"reread", "commit"}
        /\ req'[r].op = req[r].op /\ req'[r].quote = req[r].quote
    BY <1>1, <1>4 DEF InsertBooking, Goto, HandlersOK, tables, About, Body
  <2>2. SeenIsSpent(r)'
    BY <1>1, <2>1 DEF AnswerTrue, SeenIsSpent
  <2>3. QED
    BY <2>1, <2>2, NoClaim
<1>5. CASE CommitBooking(r)
  <2>1. seen[r] = "HELD" /\ req[r].booking \in Bookings
    BY <1>1, <1>5 DEF CommitBooking, RequestShape, ServiceInv, ChecksHoldUntilCommit, QuoteGuarded
  <2>2. /\ bookings'[req[r].booking] = Ledger!BookedRow(req[r].quote, req[r].key)
        /\ req' = req /\ seen' = seen
    BY <1>5, <2>1 DEF CommitBooking, ServiceInv, TypeInv, Shapes, Ledger!TypeOK
  <2>3. CreatedIsThere(r)'
    BY <2>1, <2>2 DEF CreatedIsThere, Exists, Ledger!BookedRow, None
  <2>4. SeenIsSpent(r)'
    BY <2>1, <2>2 DEF SeenIsSpent
  <2>5. pc'[r] = "reply" /\ out'[r] \in {"created", "error"}
    BY <1>1, <1>5 DEF CommitBooking, Answer, Goto, HandlersOK
  <2>6. QED
    BY <1>1, <2>2, <2>3, <2>4, <2>5 DEF AnswerTrue, ConflictIsAnothers, SeenHasItsEvent,
       PageHasTheEvent, MovedIsLogged, HeldIsHeld
<1>6. CASE Reread(r)
  <2>1. CASE \E b \in BookedUnder(req[r].key) :
               req' = [req EXCEPT ![r] = About(req[r], b)] /\ Answer(r, "replayed")
    BY <1>1, <1>6, <2>1, ReplayTellsTheTruth DEF Reread
  <2>2. CASE /\ BookedUnder(req[r].key) = {} /\ req' = req
             /\ Answer(r, IF seen[r] = "HELD" THEN "error" ELSE "conflict")
    <3>1. /\ pc'[r] = "reply" /\ out'[r] \in {"error", "conflict"}
          /\ UNCHANGED <<quotes, bookings, req, seen>>
      BY <1>1, <1>6, <2>2 DEF Reread, Answer, Goto, HandlersOK, tables
    <3>2. SeenIsSpent(r)'
      BY <1>1, <3>1 DEF AnswerTrue, SeenIsSpent
    <3>3. ASSUME NEW b \in Bookings, bookings[b].quote = req[r].quote
          PROVE  bookings[b].key # req[r].key
      <4>1. bookings[b].quote # NoQuote
        BY <1>1, <3>3, ServiceConstants
      <4>2. Exists(b)
        BY <4>1 DEF ServiceInv, AbsentRowsAreEmpty, Ledger!NoRow
      <4>3. QED
        BY <2>2, <4>2 DEF BookedUnder
    <3>4. ConflictIsAnothers(r)'
      BY <3>1, <3>3 DEF ConflictIsAnothers
    <3>5. QED
      BY <3>1, <3>2, <3>4 DEF AnswerTrue, SeenHasItsEvent, PageHasTheEvent, CreatedIsThere,
         MovedIsLogged, HeldIsHeld
  <2>3. QED
    BY <1>6, <2>1, <2>2 DEF Reread
<1>7. QED
  BY <1>2, <1>3, <1>4, <1>5, <1>6

LEMMA MovesTellTheTruth ==
  ASSUME ServiceInv, NEW r \in Requests, LockBooking(r) \/ CommitTransition(r)
  PROVE  AnswerTrue(r)'
<1>1. /\ HandlersOK /\ RequestShape(r) /\ req[r].op \in {"confirm", "cancel"} /\ req' = req
      /\ req[r].booking \in Bookings
  BY ShapesParts DEF ServiceInv, TypeInv, RequestShape, LockBooking, CommitTransition
<1>2. SeenIsSpent(r)'
  BY <1>1 DEF SeenIsSpent
<1>3. CASE LockBooking(r)
  <2>1. pc'[r] = "commit" \/ (pc'[r] = "reply" /\ out'[r] \in {"notFound", "illegal"})
    BY <1>1, <1>3 DEF LockBooking, Answer, Goto, HandlersOK
  <2>2. QED
    BY <1>2, <2>1, NoClaim
<1>4. CASE CommitTransition(r)
  <2>1. PICK b \in Bookings : b = req[r].booking
    BY <1>1
  <2>2. log[b] \in Seq(Ledger!Event) /\ log \in [Bookings -> Seq(Ledger!Event)]
    BY DEF ServiceInv, TypeInv, Shapes, Ledger!TypeOK
  <2>3. log'[b] = Append(log[b], [from |-> seen[r], to |-> Target(req[r].op)])
    BY <1>4, <2>1, <2>2 DEF CommitTransition
  <2>4. /\ Len(log[b]) + 1 \in 1 .. Len(log'[b])
        /\ log'[b][Len(log[b]) + 1] = [from |-> seen[r], to |-> Target(req[r].op)]
    BY <2>2, <2>3
  <2>5. seen' = seen /\ pc'[r] = "reply" /\ out'[r] \in {"ok", "error"}
    BY <1>1, <1>4 DEF CommitTransition, Answer, Goto, HandlersOK
  <2>6. \E i \in 1 .. Len(log'[b]) :
          log'[b][i].from = seen[r] /\ log'[b][i].to = Target(req[r].op)
    BY <2>4
  <2>7. MovedIsLogged(r)'
    BY <1>1, <2>1, <2>5, <2>6 DEF MovedIsLogged, Target
  <2>8. QED
    BY <1>1, <1>2, <2>5, <2>7 DEF AnswerTrue, ConflictIsAnothers, SeenHasItsEvent,
       PageHasTheEvent, CreatedIsThere, HeldIsHeld
<1>5. QED
  BY <1>3, <1>4

LEMMA ReadsTellTheTruth ==
  ASSUME ServiceInv, AnswersInv, StatusHasAnEvent, NEW r \in Requests, ReadRow(r) \/ ReadEvents(r)
  PROVE  AnswerTrue(r)'
<1>1. /\ HandlersOK /\ RequestShape(r) /\ AnswerTrue(r) /\ req[r].op = "get" /\ req' = req
      /\ req[r].booking \in Bookings /\ log' = log
  BY ShapesParts DEF ServiceInv, TypeInv, AnswersInv, RequestShape, ReadRow, ReadEvents, tables
<1>2. SeenIsSpent(r)'
  BY <1>1 DEF SeenIsSpent
<1>3. PICK b \in Bookings : b = req[r].booking
  BY <1>1
<1>4. CASE ReadRow(r)
  <2>1. \/ pc'[r] = "reply" /\ out'[r] = "notFound"
        \/ bookings[b].status # None /\ pc'[r] = "readEvents" /\ seen'[r] = bookings[b].status
    BY <1>1, <1>3, <1>4 DEF ReadRow, Answer, Goto, HandlersOK
  <2>2. CASE pc'[r] = "reply" /\ out'[r] = "notFound"
    BY <1>2, <2>2, NoClaim
  <2>3. CASE bookings[b].status # None /\ pc'[r] = "readEvents" /\ seen'[r] = bookings[b].status
    <3>1. \E i \in 1 .. Len(log[b]) : log[b][i].to = bookings[b].status
      BY <2>3 DEF StatusHasAnEvent, Exists
    <3>2. SeenHasItsEvent(r)'
      BY <1>1, <1>3, <2>3, <3>1 DEF SeenHasItsEvent
    <3>3. QED
      BY <1>2, <2>3, <3>2 DEF AnswerTrue, ConflictIsAnothers, PageHasTheEvent, CreatedIsThere,
         MovedIsLogged, HeldIsHeld
  <2>4. QED
    BY <2>1, <2>2, <2>3
<1>5. CASE ReadEvents(r)
  <2>1. pc[r] = "readEvents" /\ pc'[r] = "reply" /\ out'[r] = "ok" /\ page'[r] = log[b] /\ seen' = seen
    BY <1>1, <1>3, <1>5 DEF ReadEvents, Answer, Goto, HandlersOK
  <2>2. \E i \in 1 .. Len(log[b]) : log[b][i].to = seen[r]
    BY <1>1, <1>3, <2>1 DEF AnswerTrue, SeenHasItsEvent
  <2>3. PageHasTheEvent(r)'
    BY <2>1, <2>2 DEF PageHasTheEvent
  <2>4. QED
    BY <1>1, <1>2, <2>1, <2>3 DEF AnswerTrue, ConflictIsAnothers, SeenHasItsEvent, CreatedIsThere,
       MovedIsLogged, HeldIsHeld
<1>6. QED
  BY <1>4, <1>5

LEMMA AnswersInvInit == Init => AnswersInv
  BY DEF Init, AnswersInv, AnswerTrue, SeenIsSpent, ConflictIsAnothers, SeenHasItsEvent,
     PageHasTheEvent, CreatedIsThere, MovedIsLogged, HeldIsHeld, None

LEMMA AnswersInvStep == ServiceInv /\ StatusHasAnEvent /\ AnswersInv /\ [Next]_vars => AnswersInv'
<1> SUFFICES ASSUME ServiceInv, StatusHasAnEvent, AnswersInv, [Next]_vars PROVE AnswersInv'
  OBVIOUS
<1>1. NothingIsTakenBack
  BY StepsTakeNothingBack
<1>2. ASSUME NEW r \in Requests, Receive(r) \/ Fail(r) \/ Step(r) PROVE AnswersInv'
  <2>1. HandlersOK /\ OthersKeep(r)
    BY <1>2, StepKeepsOthers, ShapesParts DEF ServiceInv, TypeInv
  <2>2. ASSUME NEW s \in Requests \ {r} PROVE AnswerTrue(s)'
    <3>1. AnswerTrue(s)
      BY DEF AnswersInv
    <3>2. pc'[s] = pc[s] /\ req'[s] = req[s] /\ seen'[s] = seen[s]
      BY <2>1 DEF OthersKeep
    <3>3. page'[s] = page[s] /\ out'[s] = out[s]
      BY <1>2, <2>1, OthersKeepAnswers
    <3>4. QED
      BY <1>1, <3>1, <3>2, <3>3, AnswerSurvives
  <2>3. AnswerTrue(r)'
    BY <1>2, ArrivalsAndEnds, HoldsTellTheTruth, CreatesTellTheTruth, MovesTellTheTruth,
       ReadsTellTheTruth DEF Step
  <2>4. QED
    BY <2>2, <2>3 DEF AnswersInv
<1>3. CASE CreateQuote \/ UNCHANGED vars
  <2>1. ASSUME NEW s \in Requests PROVE AnswerTrue(s)'
    <3>1. UNCHANGED <<pc, req, seen, page, out>> /\ AnswerTrue(s)
      BY <1>3 DEF CreateQuote, vars, AnswersInv
    <3>2. QED
      BY <1>1, <3>1, AnswerSurvives
  <2>2. QED
    BY <2>1 DEF AnswersInv
<1>4. QED
  BY <1>2, <1>3 DEF Next

-------------------------------------------------------------------------------
(* The theorems.                                                           *)

LEMMA ServiceInvHolds == Spec => []ServiceInv
  BY ServiceInvInit, ServiceInvStep, PTL DEF Spec

\* The log of the ledger explains its rows in the service, too.
LEMMA LogExplainsHere == Spec => []LedgerFacts!LogExplainsStatus
<1>1. Init => LedgerFacts!Init
  BY SameLedger DEF Init
<1>2. ServiceInv /\ [Next]_vars => [LedgerFacts!Next]_(LedgerFacts!vars)
  BY StepImplements, SameLedger
<1>3. LedgerFacts!Spec => []LedgerFacts!LogExplainsStatus
  BY LedgerFacts!LogIsTheHistory, ServiceConstants
<1>4. QED
  BY <1>1, <1>2, <1>3, ServiceInvHolds, PTL DEF Spec, LedgerFacts!Spec

LEMMA ExplainedHasAnEvent == ServiceInv /\ LedgerFacts!LogExplainsStatus => StatusHasAnEvent
<1> SUFFICES ASSUME ServiceInv, LedgerFacts!LogExplainsStatus, NEW b \in Bookings, Exists(b)
             PROVE  \E i \in 1 .. Len(log[b]) : log[b][i].to = bookings[b].status
  BY DEF StatusHasAnEvent
<1>1. log[b] \in Seq(Ledger!Event)
  BY DEF ServiceInv, TypeInv, Shapes, Ledger!TypeOK
<1>2. LedgerFacts!Explains(log[b], bookings[b]) /\ bookings[b].status # LedgerFacts!None
  BY SameOperators, SameTables DEF LedgerFacts!LogExplainsStatus, Exists
<1>3. Len(log[b]) > 0 /\ log[b][Len(log[b])].to = bookings[b].status
  BY <1>1, <1>2 DEF LedgerFacts!Explains
<1>4. Len(log[b]) \in 1 .. Len(log[b])
  BY <1>1, <1>3
<1>5. QED
  BY <1>3, <1>4

LEMMA AnswersInvHolds == Spec => []AnswersInv
  BY AnswersInvInit, AnswersInvStep, ServiceInvHolds, LogExplainsHere, ExplainedHasAnEvent, PTL
     DEF Spec

\* What a handler answers is true of the tables at the time: a 409 never blames
\* the key that consumed the quote (createBooking's catch), and a status is
\* never shown without its event (getBooking's two reads).
THEOREM ServiceAnswersTruly == Spec => []AnswersAreTrue
<1>1. AnswersInv => AnswersAreTrue
  BY DEF AnswersInv, AnswerTrue, ConflictIsAnothers, PageHasTheEvent, AnswersAreTrue,
     ConflictBlamesAnotherKey, StatusHasItsEvent
<1>2. QED
  BY <1>1, AnswersInvHolds, PTL

\* What a 2xx answer says is in the committed tables and stays there.
THEOREM ServiceAnswersLast == Spec => []AnswersAreDurable
<1>1. ASSUME AnswersInv, ServiceInv PROVE AnswersAreDurable
  <2> SUFFICES ASSUME NEW r \in Requests, pc[r] = "reply"
               PROVE  /\ out[r] \in {"created", "replayed"} =>
                           /\ Exists(req[r].booking)
                           /\ bookings[req[r].booking].key = req[r].key
                      /\ out[r] = "ok" /\ req[r].op \in {"confirm", "cancel"} =>
                           LET events == log[req[r].booking] IN
                           \E i \in DOMAIN events :
                             events[i].from = seen[r] /\ events[i].to = Target(req[r].op)
                      /\ out[r] = "ok" /\ req[r].op = "hold" =>
                           quotes[req[r].quote] \in {"HELD", "CONSUMED"}
    BY DEF AnswersAreDurable
  <2>1. CreatedIsThere(r) /\ MovedIsLogged(r) /\ HeldIsHeld(r) /\ RequestShape(r)
    BY <1>1 DEF AnswersInv, AnswerTrue, ServiceInv, TypeInv
  <2>2. req[r].op \in {"confirm", "cancel"} =>
          DOMAIN log[req[r].booking] = 1 .. Len(log[req[r].booking])
    <3>1. \A b \in Bookings : log[b] \in Seq(Ledger!Event)
      BY <1>1 DEF ServiceInv, TypeInv, Shapes, Ledger!TypeOK
    <3>2. \A b \in Bookings : DOMAIN log[b] = 1 .. Len(log[b])
      BY <3>1
    <3>3. QED
      BY <2>1, <3>2 DEF RequestShape
  <2>3. QED
    BY <2>1, <2>2 DEF CreatedIsThere, MovedIsLogged, HeldIsHeld
<1>2. QED
  BY <1>1, AnswersInvHolds, ServiceInvHolds, PTL

===============================================================================
