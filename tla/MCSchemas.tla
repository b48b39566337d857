----------------------------- MODULE MCSchemas ------------------------------
(* Instances of DetectionSchemas for TLC. *)
EXTENDS DetectionSchemas, TLC

SchemaSymmetry == Permutations(Callers)
=============================================================================
