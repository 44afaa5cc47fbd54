---------------------------- MODULE RetryConfig ----------------------------
(***************************************************************************)
(* RetryConfig::retry (src/src/config.rs): an operation is repeated with   *)
(* exponential back-off.  The back-off itself is that of the backoff       *)
(* crate.  Time is counted in ticks; the multiplier and the randomization  *)
(* factor are given in tenths.                                             *)
(***************************************************************************)
EXTENDS Integers

CONSTANTS
  initial_retry_interval,
  max_retry_interval,
  retry_delay_multiplier,     \* in tenths
  retry_delay_rand_factor,    \* in tenths
  retrying_max_elapsed_time

ASSUME RetryAssumption ==
  /\ initial_retry_interval \in Nat \ {0}
  /\ max_retry_interval \in Nat /\ max_retry_interval >= initial_retry_interval
  /\ retry_delay_multiplier \in Nat /\ retry_delay_multiplier >= 10
  /\ retry_delay_rand_factor \in 0 .. 9
  /\ retrying_max_elapsed_time \in Nat

\* The interval grows by the multiplier until it reaches its maximum.
NextInterval(interval) ==
  IF interval * retry_delay_multiplier >= max_retry_interval * 10
    THEN max_retry_interval
    ELSE (interval * retry_delay_multiplier) \div 10

\* The delays that may be chosen for an interval: at least one tick.
Delays(interval) ==
  {d \in 1 .. 2 * interval :
     /\ d * 10 >= interval * (10 - retry_delay_rand_factor)
     /\ d * 10 <= interval * (10 + retry_delay_rand_factor)}

\* next_backoff yields a delay as long as the total time is not exceeded.
BugNoLimit(elapsed, delay)   == TRUE
InTime(elapsed, delay) == elapsed + delay <= retrying_max_elapsed_time
=============================================================================
