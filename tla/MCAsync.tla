------------------------------ MODULE MCAsync -------------------------------
(* Instances of AsyncQuery for TLC. *)
EXTENDS AsyncQuery, TLC

AllHazards == HazardKinds
=============================================================================
