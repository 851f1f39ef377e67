---------------------------- MODULE MCBookingService ----------------------------
(* Small instances of BookingService.                                        *)
EXTENDS BookingService, TLC

Symmetry ==
  Permutations(Requests) \cup Permutations(Quotes)
    \cup Permutations(Keys) \cup Permutations(Bookings)
===============================================================================
