------------------------------- MODULE SingleUse -------------------------------
(***************************************************************************)
(* What the confirmation gate promises about one human approval: a token   *)
(* is minted for one quote, spent at most once, buys at most one booking   *)
(* and only after it was spent, and gets at most one verdict, which is the *)
(* truth about the booking.  ConfirmationGate implements it.               *)
(***************************************************************************)
CONSTANTS Tokens, Bookings, NoBooking

Verdicts == {"CONFIRMED", "HELD", "CANCELLED", "UNKNOWN",
             "QUOTE_UNAVAILABLE", "EXECUTION_FAILED"}

VARIABLES phase,    \* phase[t]: the life of the approval
          bought,   \* bought[t]: the booking made with it, or NoBooking
          verdict   \* verdict[t]: what redeem and the card say of it

vars == <<phase, bought, verdict>>

Init ==
  /\ phase = [t \in Tokens |-> "unminted"]
  /\ bought = [t \in Tokens |-> NoBooking]
  /\ verdict = [t \in Tokens |-> "none"]

Mint(t) ==
  /\ phase[t] = "unminted"
  /\ phase' = [phase EXCEPT ![t] = "pending"]
  /\ UNCHANGED <<bought, verdict>>

\* A pending token is spent by a click or dies of age, never both.
Leave(t) ==
  /\ phase[t] = "pending"
  /\ phase' \in {[phase EXCEPT ![t] = p] : p \in {"consumed", "expired"}}
  /\ UNCHANGED <<bought, verdict>>

\* The purchase, at most one.  Its request may be late: it may land after a
\* verdict of EXECUTION_FAILED, which says only that it was not answered.
Buy(t, b) ==
  /\ phase[t] = "consumed" /\ bought[t] = NoBooking
  /\ verdict[t] \in {"none", "EXECUTION_FAILED"}
  /\ \A u \in Tokens : bought[u] # b
  /\ bought' = [bought EXCEPT ![t] = b]
  /\ UNCHANGED <<phase, verdict>>

\* QUOTE_UNAVAILABLE is final: nothing was bought and nothing will be.  The
\* statuses of a booking are said only of a booking that exists.
Settle(t, v) ==
  /\ phase[t] = "consumed" /\ verdict[t] = "none"
  /\ v = "QUOTE_UNAVAILABLE" => bought[t] = NoBooking
  /\ v \in {"CONFIRMED", "HELD", "CANCELLED", "UNKNOWN"} => bought[t] # NoBooking
  /\ verdict' = [verdict EXCEPT ![t] = v]
  /\ UNCHANGED <<phase, bought>>

Next ==
  \E t \in Tokens :
    \/ Mint(t)
    \/ Leave(t)
    \/ \E b \in Bookings : Buy(t, b)
    \/ \E v \in Verdicts : Settle(t, v)

Spec == Init /\ [][Next]_vars

===============================================================================
