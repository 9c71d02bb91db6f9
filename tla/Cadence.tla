------------------------------ MODULE Cadence ------------------------------
(***************************************************************************)
(* internal/scheduler/scheduler.go: how often a provider is polled and     *)
(* whether its daily budget lets a poll through.  Times are seconds.       *)
(***************************************************************************)
EXTENDS Integers

DaySeconds == 86400

AtLeast(n, m) == IF n < m THEN m ELSE n

(***************************************************************************)
(* ComputeSchedule without a cron expression, as cron keeps it: whole      *)
(* seconds, one at least.  The product of Go is a float64; truncated to a  *)
(* second it is this quotient for every limit up to 100000.                *)
(***************************************************************************)
Every(callsPerDay) ==
  IF callsPerDay <= 0 THEN 300
                      ELSE AtLeast((DaySeconds * 9) \div (10 * callsPerDay), 1)

(* Mutant: the limit itself is still allowed. *)
BudgetAllowedInclusive(used, callsPerDay) ==
  callsPerDay <= 0 \/ used <= callsPerDay

BudgetAllowed(used, callsPerDay) == callsPerDay <= 0 \/ used < callsPerDay

=============================================================================
