------------------------------ MODULE Backoff ------------------------------
(***************************************************************************)
(* nextAttempt of internal/slack/outbox.go: the wait after a post to Slack *)
(* failed, over a row whose posts keep failing.  A time.Duration is an     *)
(* int64 of nanoseconds; it is modelled by the set of its one bits, so     *)
(* that base << attemptCount loses the bits Go drops.                      *)
(***************************************************************************)
EXTENDS Integers

CONSTANT MaxFailures  \* bound of the model: failing posts of one row

ASSUME FailuresAssumption == MaxFailures \in Nat

VARIABLES
    attempts,  \* slack_outbox.attempt_count
    wait,      \* what nextAttempt returned last, Zero before the first failure
    previous   \* ... and the time before

backoffVars == <<attempts, wait, previous>>

-----------------------------------------------------------------------------
Int64 == SUBSET (0..63)
Zero == {}
SignBit == 63

Bits(n) == {i \in 0..30 : (n \div 2^i) % 2 = 1}
ShiftLeft(x, n) == {i + n : i \in x} \cap (0..63)

(* x < y as two's complement numbers: a number with the sign bit is less   *)
(* than one without; otherwise the highest bit they differ in decides.     *)
Differ(x, y) == (x \ y) \cup (y \ x)
Less(x, y) ==
    \E i \in Differ(x, y) :
        /\ \A j \in Differ(x, y) : j <= i
        /\ IF i = SignBit THEN i \in x ELSE i \in y

\* 5s = 5^10 * 2^9 ns and 5m = 146484375 * 2^11 ns.
base == ShiftLeft(Bits(9765625), 9)
max == ShiftLeft(Bits(146484375), 11)

\* Seeded fault: no cap.
Uncapped(d) == d
Capped(d) == IF Less(max, d) THEN max ELSE d

\* Seeded fault: one second is shifted, not the base.
SecondsShifted(attemptCount) ==
    IF attemptCount <= 0 THEN base ELSE Capped(ShiftLeft(Bits(1000000000), attemptCount))
nextAttempt(attemptCount) ==
    IF attemptCount <= 0 THEN base ELSE Capped(ShiftLeft(base, attemptCount))

-----------------------------------------------------------------------------
Init == attempts = 0 /\ wait = Zero /\ previous = Zero

(* The branch of ProcessOutboxDue for a post that failed.                  *)
PostFails ==
    /\ attempts < MaxFailures
    /\ wait' = nextAttempt(attempts)
    /\ previous' = wait
    /\ attempts' = attempts + 1

Next == PostFails

Spec == Init /\ [][Next]_backoffVars

-----------------------------------------------------------------------------
(* A message is never put off for more than five minutes, however often it *)
(* failed: Slack coming back is noticed within that time.                  *)
NeverPutOffTooLong == wait \in Int64 /\ ~Less(max, wait)

(* Over the first 31 failures the wait is at least five seconds and never  *)
(* shrinks: the bits the shift loses do not reach below the cap yet.       *)
FirstAttempts == 31
GrowsAtFirst ==
    attempts \in 1..FirstAttempts => ~Less(wait, base) /\ ~Less(wait, previous)

(* "5s, 10s, 20s, 40s, 80s, 160s, ... capped at 5m": the wait is never     *)
(* shorter than the first one.                                             *)
WaitsAtLeastBase == attempts > 0 => ~Less(wait, base)

=============================================================================
