---------------------------- MODULE RateLimiter ----------------------------
(***************************************************************************)
(* The token bucket of rate_limit.rs, shared by the relays of one user.     *)
(*                                                                         *)
(* Time advances in ticks of 1/Rate second, in which the bucket gains one   *)
(* byte, so the f64 arithmetic of the code is integer arithmetic here.      *)
(***************************************************************************)
EXTENDS Integers

CONSTANTS
  Rate,     \* bytes_per_sec
  Senders,  \* tasks that call throttle
  Sizes     \* the values of nbytes

ASSUME RateAssumption == Rate \in Nat \ {0}
ASSUME SizesAssumption == Sizes \subseteq Nat

VARIABLES
  tokens,  \* state.1
  since,   \* ticks since state.0, counted up to the refill that fills the bucket
  size,    \* per sender: nbytes, 0 outside throttle
  sleep,   \* per sender: ticks left to sleep, 0 when it may run
  excess   \* history: bytes let through beyond the rate, over the worst interval that ends now

vars == <<tokens, since, size, sleep, excess>>

Cap == 2 * Rate

TypeOK ==
  /\ tokens \in 0..Cap
  /\ since \in 0..Cap
  /\ size \in [Senders -> Sizes \cup {0}]
  /\ sleep \in [Senders -> Nat]
  /\ excess \in Nat

Init ==
  /\ tokens = Rate /\ since = 0
  /\ size = [s \in Senders |-> 0] /\ sleep = [s \in Senders |-> 0]
  /\ excess = 0
-----------------------------------------------------------------------------
AtMost(n, bound) == IF n > bound THEN bound ELSE n

\* Mutant of Refilled: the bucket is not capped.
RefilledUncapped == tokens + since

\* The tokens acquire_wait finds after adding what was gained since the last call.
Refilled == AtMost(tokens + since, Cap)

\* throttle returns at once for zero bytes, otherwise enters its loop.
Throttle(s) ==
  /\ size[s] = 0
  /\ \E n \in Sizes : size' = [size EXCEPT ![s] = n]
  /\ UNCHANGED <<tokens, since, sleep, excess>>

\* Mutant of Pass: the time of the refill is not stored.
PassKeepsClock(s) ==
  /\ size[s] > 0 /\ sleep[s] = 0
  /\ Refilled >= size[s]
  /\ tokens' = Refilled - size[s]
  /\ excess' = excess + size[s]
  /\ size' = [size EXCEPT ![s] = 0]
  /\ UNCHANGED <<since, sleep>>

\* acquire_wait finds enough tokens: throttle returns and the bytes are sent.
Pass(s) ==
  /\ size[s] > 0 /\ sleep[s] = 0
  /\ Refilled >= size[s]
  /\ tokens' = Refilled - size[s]
  /\ since' = 0
  /\ excess' = excess + size[s]
  /\ size' = [size EXCEPT ![s] = 0]
  /\ UNCHANGED sleep

\* acquire_wait finds too few: it empties the bucket and returns the time in
\* which the deficit is gained, which throttle sleeps before it asks again.
Wait(s) ==
  /\ size[s] > 0 /\ sleep[s] = 0
  /\ Refilled < size[s]
  /\ tokens' = 0
  /\ since' = 0
  /\ sleep' = [sleep EXCEPT ![s] = size[s] - Refilled]
  /\ UNCHANGED <<size, excess>>

\* The relay that awaits throttle is dropped in its sleep.
Abandon(s) ==
  /\ sleep[s] > 0
  /\ size' = [size EXCEPT ![s] = 0] /\ sleep' = [sleep EXCEPT ![s] = 0]
  /\ UNCHANGED <<tokens, since, excess>>

\* A sleeper may be resumed late: time passes its deadline.
Tick ==
  /\ since' = AtMost(since + 1, Cap)
  /\ sleep' = [s \in Senders |-> IF sleep[s] = 0 THEN 0 ELSE sleep[s] - 1]
  /\ excess' = IF excess = 0 THEN 0 ELSE excess - 1
  /\ UNCHANGED <<tokens, size>>

Next == Tick \/ \E s \in Senders : Throttle(s) \/ Pass(s) \/ Wait(s) \/ Abandon(s)

\* Time advances and a sender that may run does.
Fairness == WF_vars(Tick) /\ \A s \in Senders : WF_vars(Pass(s) \/ Wait(s))

Spec == Init /\ [][Next]_vars /\ Fairness
-----------------------------------------------------------------------------
(* Properties *)

\* The limiter limits: over every interval, the bytes that throttle lets through
\* exceed what the rate allows by no more than the bucket's capacity.
BurstBounded == excess <= Cap

\* What the doc comment of acquire_wait says, "Returns how long to wait before
\* `nbytes` can be sent": throttle, which waits that long, returns.  Broken: the
\* refusal takes the tokens the wait was computed from.
ThrottleReturns == \A s \in Senders : size[s] > 0 ~> size[s] = 0

\* What makes BurstBounded inductive: a refill could let through what the interval
\* already used, but the excess and the tokens a call would find now share the
\* capacity.
Shared == excess + Refilled <= Cap
IInv == TypeOK /\ Shared
=============================================================================
