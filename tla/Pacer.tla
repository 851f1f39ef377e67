--------------------------------- MODULE Pacer ---------------------------------
(***************************************************************************)
(* What a caller may rely on of a rate limiter: permits accrue one at a    *)
(* time up to a capacity and every call takes one.  TokenBucket implements *)
(* it; LlmRouter uses it for each provider.                                *)
(***************************************************************************)
EXTENDS Integers

CONSTANT Capacity

VARIABLE permits

Init == permits = Capacity

Accrue == permits < Capacity /\ permits' = permits + 1

Take == permits > 0 /\ permits' = permits - 1

Spec == Init /\ [][Accrue \/ Take]_permits

===============================================================================
