---------------------------- MODULE MCScheduler ----------------------------
(* Values of the constants of Scheduler for TLC. *)
EXTENDS Scheduler

CONSTANT p1

(* One call a day, the limit that leaves two overlapping runs no room; the *)
(* other provider has none.                                                *)
MCCallsPerDay == [p \in Providers |-> IF p = p1 THEN 1 ELSE 0]

(* The providers are of one type and share its counters. *)
MCName == [p \in Providers |-> "yahoo"]

=============================================================================
