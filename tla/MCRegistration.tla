--------------------------- MODULE MCRegistration ---------------------------
(* Values of the constants of Registration for TLC. *)
EXTENDS Registration

(* Every config file over Names that Validate accepts. *)
MCConfigs ==
  {c \in UNION {[1..n -> Entries] : n \in 0..Cardinality(Names)} :
     \A i, j \in DOMAIN c : c[i].name = c[j].name => i = j}

=============================================================================
