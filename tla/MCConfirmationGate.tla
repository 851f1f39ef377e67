--------------------------- MODULE MCConfirmationGate ---------------------------
(* Instances of ConfirmationGate for TLC. *)
EXTENDS ConfirmationGate, TLC

\* Requests, quotes, bookings and tokens are told apart by nothing but
\* equality.
Symmetry ==
  Permutations(Redeems) \cup Permutations(Quotes) \cup Permutations(Bookings)
    \cup Permutations(Tokens)

===============================================================================
