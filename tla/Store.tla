------------------------------- MODULE Store -------------------------------
(***************************************************************************)
(* The tables of internal/store as values, and its SQL statements as       *)
(* operators on those values.  The store has one connection and runs every *)
(* statement on its own (no transaction spans two), so a caller's          *)
(* statement is one atomic step of the module that models the caller, and  *)
(* the operators below say what that step computes.                        *)
(*                                                                         *)
(*   readings   a set of rows; a row has at least the fields provider,     *)
(*              quote and at, and a field that keeps two rows apart the    *)
(*              way the autoincrement id does                              *)
(*   usage      usage[p][d] is the count column of the row (p, d), and 0   *)
(*              stands for "no such row", which UsageToday reads as 0      *)
(***************************************************************************)
EXTENDS Integers, FiniteSets

InsertReading(readings, row) == readings \cup {row}

(* Mutant: the rows are not joined on the latest time.                     *)
LatestReadingsUnjoined(readings, quote, since) ==
  {r \in readings : r.quote = quote /\ r.at >= since}

(***************************************************************************)
(* The rows joined on MAX(fetched_at) per provider.  Rows of one provider  *)
(* that share that second are all returned: a stored time is an RFC3339    *)
(* string, whose resolution is a second.                                   *)
(***************************************************************************)
LatestReadingsPerProvider(readings, quote, since) ==
  LET fresh == {r \in readings : r.quote = quote /\ r.at >= since}
  IN  {r \in fresh : \A s \in fresh : s.provider = r.provider => s.at <= r.at}

(* Mutant: the row of the cutoff goes too.                                 *)
PruneThrough(readings, cutoff) == {r \in readings : r.at > cutoff}

PruneOlderThan(readings, cutoff) == {r \in readings : r.at >= cutoff}

UsageToday(usage, provider, day) == usage[provider][day]

(* Mutant: the conflict is on the provider alone, so the row of another    *)
(* day is replaced.                                                        *)
IncrementUsageOneRow(usage, provider, day) ==
  [usage EXCEPT ![provider] = [d \in {day} |-> @[day] + 1]]

IncrementUsage(usage, provider, day) ==
  [usage EXCEPT ![provider][day] = @ + 1]

=============================================================================
