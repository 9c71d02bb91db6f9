---------------------------- MODULE BudgetLedger ----------------------------
(***************************************************************************)
(* What the daily budget of a provider promises, without the goroutines    *)
(* that spend it: a durable count per provider and day that starts at      *)
(* zero, is never lowered or reset, moves by one call at a time, and for a *)
(* provider with a limit never passes that limit by more than Slack.       *)
(***************************************************************************)
EXTENDS Integers

CONSTANTS
  Providers,     \* providers that have a row in the usage table
  Days,          \* calendar days (UTC)
  CallsPerDay,   \* configured limit per provider; 0 or less means no limit
  Slack          \* calls a limited provider may be counted past its limit

VARIABLE count   \* count[p][d]: calls counted for provider p on day d

Init == count = [p \in Providers |-> [d \in Days |-> 0]]

Spend(p, d) ==
  /\ CallsPerDay[p] > 0 => count[p][d] < CallsPerDay[p] + Slack
  /\ count' = [count EXCEPT ![p][d] = @ + 1]

Next == \E p \in Providers, d \in Days : Spend(p, d)

Spec == Init /\ [][Next]_count

=============================================================================
