------------------------------ MODULE RetryPolicy ------------------------------
(***************************************************************************)
(* How long a job waits after its n-th failed attempt (jobs/queue.py,      *)
(* RetryPolicy.delay_after), in whole time units.  __post_init__ refuses a *)
(* base delay that is not positive or that exceeds the longest one.        *)
(***************************************************************************)
EXTENDS Integers

CONSTANTS BaseDelay, MaxDelay

\* The shift 1 << min(attempt_count - 1, 30).
Multiplier(attempt) == 2 ^ (IF attempt - 1 < 30 THEN attempt - 1 ELSE 30)

DelayAfter(attempt) ==
  LET delay == BaseDelay * Multiplier(attempt)
  IN  IF delay < MaxDelay THEN delay ELSE MaxDelay
================================================================================
