---------------------------- MODULE MCConnection ----------------------------
(* Values of the constants of Connection for TLC. *)
EXTENDS Connection

CONSTANTS cron, scraper, client, p1, p2

(* Runs, scrapes, and everything else next to a second scrape. *)
MCServes ==
  [c \in Callers |-> CASE c = cron -> {"run", "prune"}
                       [] c = scraper -> {"scrape"}
                       [] c = client -> Kinds \ {"run", "prune"}]

MCListed == <<p1, p2>>

(* One call a day for p1; p2 is disabled and has no job. *)
MCCallsPerDay == [p \in Providers |-> IF p = p1 THEN 1 ELSE 0]

=============================================================================
