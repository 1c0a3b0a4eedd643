--------------------------- MODULE MCIncidentLog ---------------------------
(* Instances of IncidentLog for TLC. *)
EXTENDS IncidentLog, TLC

SessionSymmetry == Permutations(Sessions)
=============================================================================
