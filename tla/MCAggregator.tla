---------------------------- MODULE MCAggregator ----------------------------
(* Values of the constants of Aggregator for TLC. *)
EXTENDS Aggregator, TLC

Symmetry == Permutations(Providers)

=============================================================================
