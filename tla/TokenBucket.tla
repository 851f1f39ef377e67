------------------------------ MODULE TokenBucket ------------------------------
(***************************************************************************)
(* The token bucket that paces the calls to one LLM provider.  Time is     *)
(* counted in ticks, and the level of the bucket in ticks worth of refill, *)
(* so that a token is TicksPerToken of them and the rate is one per tick.  *)
(* All times are kept relative to the clock.                               *)
(***************************************************************************)
EXTENDS Integers, Sequences

CONSTANTS Callers,        \* concurrent callers of acquire()
          Rpm,            \* tokens that accrue in a minute
          Capacity,       \* burst, Rpm unless configured
          TicksPerToken   \* a minute is Rpm * TicksPerToken ticks

ASSUME BucketConstants ==
  /\ Rpm \in Nat \ {0} /\ Capacity \in Nat \ {0} /\ TicksPerToken \in Nat \ {0}

VARIABLES level,     \* tokens, as of the last refill
          elapsed,   \* Date.now() - lastRefill
          sleep,     \* sleep[c]: ticks until the timer of c fires, NotWaiting without one
          grants     \* ages of the tokens granted within the last minute, oldest first

vars == <<level, elapsed, sleep, grants>>

Full == Capacity * TicksPerToken
Minute == Rpm * TicksPerToken
NotWaiting == -1

\* A caller's turn: it calls acquire(), or its timer has fired.
Ready(c) == sleep[c] \in {NotWaiting, 0}

Init ==
  /\ level = Full
  /\ elapsed = 0
  /\ sleep = [c \in Callers |-> NotWaiting]
  /\ grants = <<>>

-------------------------------------------------------------------------------
(* Seeded defects: steps as a plausible mistake would leave them, used only *)
(* to show that the properties below notice.                               *)

\* The refill is not capped.
UncappedRefill == level + elapsed

\* The time of the refill is not kept, so the same time counts twice.
RefillTwice(c) ==
  /\ Ready(c) /\ level + elapsed >= TicksPerToken
  /\ level' = (IF level + elapsed < Full THEN level + elapsed ELSE Full) - TicksPerToken
  /\ sleep' = [sleep EXCEPT ![c] = NotWaiting]
  /\ grants' = Append(grants, 0)
  /\ UNCHANGED elapsed

\* A caller that must wait keeps the time of its look, but not the refill.
LoseRefill(c) ==
  /\ Ready(c) /\ level + elapsed < TicksPerToken
  /\ sleep' = [sleep EXCEPT ![c] = 1]
  /\ elapsed' = 0
  /\ UNCHANGED <<level, grants>>

-------------------------------------------------------------------------------

Refilled == IF level + elapsed < Full THEN level + elapsed ELSE Full

\* One round of acquire()'s loop runs without interruption: refill, then take
\* a token or sleep for what is missing.
Grant(c) ==
  /\ Ready(c) /\ Refilled >= TicksPerToken
  /\ level' = Refilled - TicksPerToken
  /\ elapsed' = 0
  /\ sleep' = [sleep EXCEPT ![c] = NotWaiting]
  /\ grants' = Append(grants, 0)

Wait(c) ==
  /\ Ready(c) /\ Refilled < TicksPerToken
  /\ level' = Refilled
  /\ elapsed' = 0
  /\ sleep' = [sleep EXCEPT ![c] = TicksPerToken - Refilled]
  /\ UNCHANGED grants

\* What is a minute old is no longer counted.
Aged(old) == [i \in 1 .. Len(grants) - old |-> grants[old + i] + 1]

\* Time passes; a timer that is due may fire late.  Beyond a full bucket the
\* elapsed time makes no difference and is not counted.
Tick ==
  /\ elapsed' = IF elapsed < Full THEN elapsed + 1 ELSE elapsed
  /\ sleep' = [c \in Callers |-> IF sleep[c] > 0 THEN sleep[c] - 1 ELSE sleep[c]]
  /\ \E old \in 0 .. Len(grants) :
       /\ \A i \in 1 .. Len(grants) : grants[i] + 1 < Minute <=> i > old
       /\ grants' = Aged(old)
  /\ UNCHANGED level

Next == Tick \/ \E c \in Callers : Grant(c) \/ Wait(c)

Spec == Init /\ [][Next]_vars

\* Time goes on, and a timer that is due fires.
FairSpec ==
  /\ Spec
  /\ WF_vars(Tick)
  /\ \A c \in Callers : WF_vars(sleep[c] = 0 /\ (Grant(c) \/ Wait(c)))

-------------------------------------------------------------------------------

\* The bucket is between empty and full, and nobody sleeps longer than a token
\* takes to accrue.
TypeOK ==
  /\ level \in 0 .. Full
  /\ elapsed \in 0 .. Full
  /\ sleep \in [Callers -> NotWaiting .. TicksPerToken]
  /\ \A i \in 1 .. Len(grants) : grants[i] \in 0 .. Minute - 1

\* In any stretch of time there are at most a burst and the stretch's worth of
\* grants, whoever asks, however late the timers fire and whoever overtakes.
BurstPlusRate ==
  \A i \in 1 .. Len(grants) :
    (Len(grants) - i + 1) * TicksPerToken <= Full + grants[i]

Permits == INSTANCE Pacer WITH permits <- Refilled \div TicksPerToken

\* Lazy refilling is invisible: the bucket is a pacer whose permits accrue by
\* the clock.
ImplementsPacer == Permits!Spec

\* Callers sleep and race without a queue, so one may be overtaken for ever;
\* but then it is overtaken: while anyone waits, tokens are granted.
SomeoneGetsThrough ==
  \A c \in Callers :
    sleep[c] # NotWaiting ~>
      sleep[c] = NotWaiting \/ (grants # <<>> /\ grants[Len(grants)] = 0)

===============================================================================
