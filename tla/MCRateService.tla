--------------------------- MODULE MCRateService ---------------------------
(* Values of the constants of RateService for TLC. *)
EXTENDS RateService

CONSTANTS h1, h2

(* Two requests for one answer of all rates, or one key looked up by a      *)
(* request of its own and by one that collects the rates from a base.      *)
MCServes ==
  [h \in Handlers |-> IF h = h1 THEN {"base", "all"} ELSE {"single", "all"}]

=============================================================================
