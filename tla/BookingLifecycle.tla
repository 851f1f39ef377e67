--------------------------- MODULE BookingLifecycle ---------------------------
(***************************************************************************)
(* The two transition tables of booking-service: the booking state machine *)
(* (domain/stateMachine.ts) and the quote guard (domain/quoteStatus.ts).   *)
(* Everything that writes a status in the service consults one of them.    *)
(***************************************************************************)

BookingStatus ==
  {"QUOTED", "HELD", "CONFIRMED", "DOCUMENTS_ISSUED", "EXPIRED", "CANCELLED"}

QuoteStatus == {"ACTIVE", "HELD", "EXPIRED", "CONSUMED"}

\* A row that does not exist.  In the booking machine it is the `null` that
\* precedes the birth of a booking.
None == "NONE"

\* The only status a booking may be born with.
InitialStatus == "QUOTED"

Transitions ==
  [s \in BookingStatus |->
     CASE s = "QUOTED"    -> {"HELD", "CANCELLED", "EXPIRED"}
       [] s = "HELD"      -> {"CONFIRMED", "CANCELLED", "EXPIRED"}
       [] s = "CONFIRMED" -> {"DOCUMENTS_ISSUED", "CANCELLED"}
       [] OTHER           -> {}]

CanTransition(from, to) ==
  IF from = None THEN to = InitialStatus ELSE to \in Transitions[from]

IsTerminal(status) == Transitions[status] = {}

QuoteTransitions ==
  [s \in QuoteStatus |->
     CASE s = "ACTIVE" -> {"HELD", "EXPIRED"}
       [] s = "HELD"   -> {"CONSUMED", "EXPIRED"}
       [] OTHER        -> {}]

CanMoveQuote(from, to) == to \in QuoteTransitions[from]

===============================================================================
