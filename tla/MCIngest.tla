------------------------------ MODULE MCIngest ------------------------------
(* Instances of IngestService for TLC. *)
EXTENDS IngestService, TLC

MCAckIDs == Requests \X (1 .. MaxBatch)

RequestSymmetry == Permutations(Requests)

AllFaults == FaultKinds
=============================================================================
