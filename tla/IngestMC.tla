------------------------------ MODULE IngestMC ------------------------------
(* Instances of Ingest for TLC. *)
EXTENDS Ingest, TLC

SourceSymmetry == Permutations(Sources)
=============================================================================
